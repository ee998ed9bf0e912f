--------------------------- MODULE PadInput_proofs ---------------------------
(***************************************************************************)
(* PadInput for any number of panels, ring and queue sizes, and any number *)
(* of changes, self-tests and times USB goes away: the mask is accounted   *)
(* for, and a report's number tells whether it says anything new.          *)
(***************************************************************************)
EXTENDS PadInput, SequenceTheorems, TLAPS

\* Only one edge interrupt waits at a time; `usbpoll` repeats a report there has been.
PadInv ==
  /\ TypeOK
  /\ \A p, q \in isr : p = q
  /\ usbpoll_state # "OFF" => hid_sent # NoMask

-----------------------------------------------------------------------------
(* Types *)

LEMMA MaskIsReal ==
  ASSUME PadAssumption, NEW m \in SUBSET Panels
  PROVE  m # NoMask
BY DEF PadAssumption, NoMask

LEMMA NextSeqType ==
  ASSUME PadAssumption, TypeOK, NEW m
  PROVE  NextSeq(m) \in 0 .. SeqMod - 1
BY DEF PadAssumption, TypeOK, NextSeq

\* A report is queued only where there is room for it.
LEMMA HidSendType ==
  ASSUME PadAssumption, PadInv, NEW m \in SUBSET Panels,
         NEW q \in Seq(Report), Len(q) <= TxNum, NEW st, NEW t \in 0 .. Heartbeat,
         HidSend(m, q, st, t)
  PROVE  /\ txq' \in Seq(Report) /\ Len(txq') <= TxNum
         /\ since' \in 0 .. Heartbeat /\ hid_seq' \in 0 .. SeqMod - 1
         /\ hid_sent' \in (SUBSET Panels) \cup {NoMask}
         /\ hid_sent # NoMask => hid_sent' # NoMask
<1>1. TxNum \in Nat /\ Heartbeat \in Nat
  BY DEF PadAssumption
<1>2. CASE st = "OFF" /\ Room(q)
  <2>1. [mask |-> m, seq |-> NextSeq(m)] \in Report
    BY NextSeqType DEF Report, PadInv
  <2>2. txq' = Append(q, [mask |-> m, seq |-> NextSeq(m)]) /\ hid_seq' = NextSeq(m)
        /\ hid_sent' = m /\ since' = 0
    BY <1>2 DEF HidSend
  <2>3. Len(q) < TxNum
    BY <1>2 DEF Room
  <2> QED
    BY <1>1, <2>1, <2>2, <2>3, NextSeqType, MaskIsReal DEF PadInv
<1>3. CASE ~(st = "OFF" /\ Room(q))
  BY <1>3 DEF HidSend, PadInv, TypeOK
<1> QED
  BY <1>2, <1>3

LEMMA RepeatType ==
  ASSUME PadAssumption, PadInv, hid_sent # NoMask
  PROVE  Repeat(txq) \in Seq(Report) /\ Len(Repeat(txq)) <= TxNum
<1>1. [mask |-> hid_sent, seq |-> hid_seq] \in Report
  BY DEF PadInv, TypeOK, Report
<1>2. txq \in Seq(Report) /\ Len(txq) <= TxNum /\ TxNum \in Nat
  BY DEF PadInv, TypeOK, PadAssumption
<1> QED
  BY <1>1, <1>2 DEF Repeat, Room

LEMMA PushEdgeType ==
  ASSUME PadAssumption, TypeOK, NEW p \in Panels, PushEdge(p)
  PROVE  ring' \in Seq(Edges) /\ Len(ring') < RingSize /\ dropped' \subseteq Panels
<1>1. RingSize \in Nat /\ ring \in Seq(Edges) /\ Len(ring) < RingSize
  BY DEF PadAssumption, TypeOK
<1>2. [panel |-> p, pressed |-> p \in low] \in Edges
  BY DEF Edges
<1>3. CASE RoomInRing
  <2>1. ring' = Append(ring, [panel |-> p, pressed |-> p \in low]) /\ dropped' = dropped \ {p}
    BY <1>3 DEF PushEdge
  <2>2. Len(ring) < RingSize - 1
    BY <1>3 DEF RoomInRing
  <2>3. ring' \in Seq(Edges) /\ Len(ring') = Len(ring) + 1
    BY <1>1, <1>2, <2>1
  <2>4. dropped' \subseteq Panels
    BY <2>1 DEF TypeOK
  <2> QED
    BY <1>1, <2>2, <2>3, <2>4
<1>4. CASE ~RoomInRing
  BY <1>1, <1>4 DEF PushEdge, TypeOK
<1> QED
  BY <1>3, <1>4

LEMMA InitInv == ASSUME PadAssumption, Init PROVE PadInv
<1>1. txq \in Seq(Report) /\ ring \in Seq(Edges) /\ Len(txq) = 0 /\ Len(ring) = 0
  BY DEF Init
<1>2. /\ hid_seq \in 0 .. SeqMod - 1 /\ since \in 0 .. Heartbeat
      /\ in_state \in 0 .. PollTicks /\ taken \in 0 .. TxNum
      /\ Len(txq) <= TxNum /\ Len(ring) < RingSize
  BY <1>1 DEF Init, PadAssumption
<1>3. /\ attached \in BOOLEAN /\ hid_hold \in BOOLEAN /\ usb \in BOOLEAN
      /\ usbpoll_state = "OFF" /\ at = "run" /\ host = NoReport /\ hid_sent = NoMask
  BY DEF Init
<1>4. /\ low \subseteq Panels /\ edge = {} /\ isr = {} /\ hid_mask = {} /\ disagree = {}
      /\ panel_pressed = {} /\ missed = low /\ dropped = low
  BY DEF Init
<1>5. TypeOK
  BY <1>1, <1>2, <1>3, <1>4 DEF TypeOK
<1> QED
  BY <1>3, <1>4, <1>5 DEF PadInv

\* What the outside and loop() do.
LEMMA LoopInv ==
  ASSUME PadAssumption, PadInv,
         \/ \E p \in Panels : LineChange(p)
         \/ HostTake \/ Unplug \/ Plug \/ Loop \/ PreCheck \/ Pullups \/ UsbPoll
  PROVE  PadInv'
<1> USE DEF PadInv, TypeOK
<1>1. ASSUME NEW p \in Panels, LineChange(p) PROVE PadInv'
  BY <1>1 DEF LineChange, Differ, poll, usbcore
<1>2. CASE HostTake
  <2>1. Head(txq) \in Report /\ Tail(txq) \in Seq(Report) /\ Len(Tail(txq)) <= TxNum
    BY <1>2 DEF HostTake, PadAssumption
  <2>2. taken' \in 0 .. TxNum
    BY <1>2 DEF HostTake, PadAssumption
  <2> QED
    BY <1>2, <2>1, <2>2 DEF HostTake, lines, hid, poll, loop
<1>3. CASE Unplug
  BY <1>3 DEF Unplug, lines, hid, poll
<1>4. CASE Plug
  <2>1. txq' \in Seq(Report) /\ Len(txq') <= TxNum /\ taken' \in 0 .. TxNum
    BY <1>4 DEF Plug, PadAssumption
  <2> QED
    BY <1>4, <2>1 DEF Plug, lines, hid, poll, loop
<1>5. CASE Drain
  <2>1. Tail(ring) \in Seq(Edges) /\ Len(Tail(ring)) < RingSize /\ Head(ring) \in Edges
    BY <1>5 DEF Drain, PadAssumption
  <2>2. Marked(Head(ring)) \subseteq Panels
    BY <2>1 DEF Marked, Edges
  <2> QED
    BY <1>5, <2>1, <2>2 DEF Drain, lines, hid, poll, usbcore
<1>6. CASE SelfTest \/ EndSelfTest \/ PreCheck
  BY <1>6 DEF SelfTest, EndSelfTest, PreCheck, Goes, lines, hid, poll, usbcore
<1>7. CASE Pullups
  BY <1>7 DEF Pullups, Goes, poll, usbcore
<1>8. CASE EndPullups
  <2>1. {ring[i].panel : i \in 1 .. Len(ring)} \subseteq Panels
    <3>1. ASSUME NEW i \in 1 .. Len(ring) PROVE ring[i].panel \in Panels
      <4>1. ring[i] \in Edges
        BY ElementOfSeq
      <4> QED
        BY <4>1 DEF Edges
    <3> QED
      BY <3>1
  <2>2. ring' \in Seq(Edges) /\ Len(ring') < RingSize
    BY <1>8 DEF EndPullups, PadAssumption
  <2> QED
    BY <1>8, <2>1, <2>2 DEF EndPullups, Goes, hid, poll, usbcore
<1>9. CASE UsbPoll
  BY <1>9 DEF UsbPoll, lines, hid, usbcore, PadAssumption
<1> QED
  BY <1>1, <1>2, <1>3, <1>4, <1>5, <1>6, <1>7, <1>8, <1>9 DEF Loop

\* The interrupts.
LEMMA InterruptInv ==
  ASSUME PadAssumption, PadInv, EdgeIsrs \/ Qualifies \/ TxDone \/ HidTick
  PROVE  PadInv'
<1> USE DEF PadInv, TypeOK
<1>1. ASSUME NEW p \in Panels, EdgeIsr(p) PROVE PadInv'
  <2>1. ring' \in Seq(Edges) /\ Len(ring') < RingSize /\ dropped' \subseteq Panels
    BY <1>1, PushEdgeType DEF EdgeIsr
  <2> QED
    BY <1>1, <2>1 DEF EdgeIsr, poll, usbcore
<1>2. ASSUME NEW p \in Panels, Qualify(p) PROVE PadInv'
  <2>1. Qualified(p) \in SUBSET Panels
    BY DEF Qualified
  <2>2. /\ txq' \in Seq(Report) /\ Len(txq') <= TxNum
        /\ since' \in 0 .. Heartbeat /\ hid_seq' \in 0 .. SeqMod - 1
        /\ hid_sent' \in (SUBSET Panels) \cup {NoMask}
        /\ hid_sent # NoMask => hid_sent' # NoMask
    <3>1. CASE Qualified(p) = hid_mask
      BY <1>2, <3>1 DEF Qualify
    <3>2. CASE Qualified(p) # hid_mask
      BY <1>2, <2>1, <3>2, HidSendType DEF Qualify
    <3> QED
      BY <3>1, <3>2
  <2> QED
    BY <1>2, <2>1, <2>2 DEF Qualify, lines, loop, poll
<1>3. CASE TxDone
  <2>1. txq' \in Seq(Report) /\ Len(txq') <= TxNum
    BY <1>3, RepeatType DEF TxDone
  <2>2. taken' \in 0 .. TxNum
    BY <1>3 DEF TxDone, PadAssumption
  <2>3. usbpoll_state' \in {usbpoll_state, "OFF"} /\ in_state' \in 0 .. PollTicks
    BY <1>3 DEF TxDone, poll, PadAssumption
  <2> QED
    BY <1>3, <2>1, <2>2, <2>3 DEF TxDone, lines, hid, loop
<1>4. CASE HidTick
  <2> DEFINE mask == Differ(hid_mask, IF hid_hold THEN {} ELSE Fix)
             t == Smaller(since + 1, Heartbeat)
             q == IF usbpoll_state = "DRAIN" /\ AfterTick = "RUN" THEN Repeat(txq) ELSE txq
  <2>1. /\ disagree' = IF hid_hold THEN disagree ELSE Differ(low, hid_mask)
        /\ hid_mask' = mask /\ missed' = missed \cap Differ(low, mask)
        /\ usbpoll_state' = AfterTick
        /\ in_state' = IF AfterTick # usbpoll_state \/ AfterTick = "OFF" THEN 0 ELSE in_state + 1
        /\ \/ HidSend(mask, q, AfterTick, t)
           \/ txq' = q /\ since' = t /\ UNCHANGED <<hid_seq, hid_sent>>
        /\ UNCHANGED <<lines, isr, taken, usb, host, loop>>
    BY <1>4 DEF HidTick
  <2>2. t \in 0 .. Heartbeat
    BY DEF PadAssumption, Smaller
  <2>3. mask \in SUBSET Panels /\ disagree' \subseteq Panels
    BY <2>1 DEF Differ, Fix
  <2>4. q \in Seq(Report) /\ Len(q) <= TxNum
    BY RepeatType
  <2>5. AfterTick \in {"OFF", "DRAIN", "RUN", "TAIL"}
        /\ (AfterTick # "OFF" => usbpoll_state # "OFF")
        /\ (AfterTick = usbpoll_state /\ AfterTick # "OFF" => in_state < PollTicks)
    BY DEF AfterTick, PadAssumption
  <2>6. in_state' \in 0 .. PollTicks
    BY <2>1, <2>5 DEF PadAssumption
  <2> HIDE DEF mask, t, q
  <2>7. /\ txq' \in Seq(Report) /\ Len(txq') <= TxNum
        /\ since' \in 0 .. Heartbeat /\ hid_seq' \in 0 .. SeqMod - 1
        /\ hid_sent' \in (SUBSET Panels) \cup {NoMask}
        /\ hid_sent # NoMask => hid_sent' # NoMask
    <3>1. CASE HidSend(mask, q, AfterTick, t)
      BY <2>2, <2>3, <2>4, <3>1, HidSendType
    <3>2. CASE txq' = q /\ since' = t /\ UNCHANGED <<hid_seq, hid_sent>>
      BY <2>2, <2>4, <3>2
    <3> QED
      BY <2>1, <3>1, <3>2
  <2>8. TypeOK'
    BY <2>1, <2>3, <2>5, <2>6, <2>7 DEF lines, loop
  <2>9. usbpoll_state' # "OFF" => hid_sent' # NoMask
    BY <2>1, <2>5, <2>7
  <2> QED
    BY <2>1, <2>8, <2>9
<1> QED
  BY <1>1, <1>2, <1>3, <1>4 DEF EdgeIsrs, Qualifies

LEMMA StepInv == ASSUME PadAssumption, PadInv, [Next]_vars PROVE PadInv'
<1>1. CASE UNCHANGED vars
  BY <1>1 DEF vars, lines, hid, poll, usbcore, loop, PadInv, TypeOK
<1> QED
  BY <1>1, LoopInv, InterruptInv DEF Next

LEMMA InvKept == ASSUME PadAssumption PROVE Spec => []PadInv
<1>1. Init => PadInv
  BY InitInv
<1>2. PadInv /\ [Next]_vars => PadInv'
  BY StepInv
<1> QED
  BY <1>1, <1>2, PTL DEF Spec

\* The variables keep their types: neither the ring nor the queue grows past its size, and
\* no report says what is no mask (pushEdge, usb_joystick_try_send, usbpollQueue).
THEOREM TypeCorrect == ASSUME PadAssumption PROVE Spec => []TypeOK
<1>1. PadInv => TypeOK
  BY DEF PadInv
<1> QED
  BY <1>1, InvKept, PTL

-----------------------------------------------------------------------------
(* The mask *)

LEMMA MaskStep ==
  ASSUME PadAssumption, PadInv, MaskAccounted, [Next]_vars
  PROVE  MaskAccounted'
<1> USE DEF MaskAccounted, Differ
<1>0. /\ low \subseteq Panels /\ hid_mask \subseteq Panels
      /\ \A p, q \in isr : p = q
  BY DEF PadInv, TypeOK
<1>1. ASSUME NEW p \in Panels, LineChange(p) PROVE MaskAccounted'
  BY <1>1 DEF LineChange
<1>2. ASSUME NEW p \in Panels, EdgeIsr(p) PROVE MaskAccounted'
  <2>1. edge' = edge \ {p} /\ isr = {} /\ UNCHANGED <<low, hid_mask>>
    BY <1>2 DEF EdgeIsr
  <2>2. (missed' = missed \cup {p} /\ isr' = isr) \/ (isr' = {p} /\ missed' = missed)
    BY <1>2 DEF EdgeIsr
  <2> QED
    BY <2>1, <2>2
<1>3. ASSUME NEW p \in Panels, Qualify(p) PROVE MaskAccounted'
  <2>1. isr = {p}
    BY <1>0, <1>3 DEF Qualify
  <2>2. /\ isr' = {} /\ hid_mask' = Qualified(p) /\ missed' = missed \ {p}
        /\ UNCHANGED <<low, edge>>
    BY <1>3 DEF Qualify, lines
  <2>3. p \notin Differ(low, Qualified(p)) /\ Differ(low, Qualified(p)) \subseteq Differ(low, hid_mask)
    BY DEF Qualified
  <2> QED
    BY <2>1, <2>2, <2>3
<1>4. CASE HidTick
  <2>1. PICK fix \in SUBSET Differ(low, hid_mask) :
          /\ hid_mask' = Differ(hid_mask, fix)
          /\ missed' = missed \cap Differ(low, Differ(hid_mask, fix))
    BY <1>4 DEF HidTick, Fix
  <2>2. UNCHANGED <<low, edge, isr>>
    BY <1>4 DEF HidTick, lines
  <2>3. Differ(low, Differ(hid_mask, fix)) \subseteq Differ(low, hid_mask)
    OBVIOUS
  <2> QED
    BY <2>1, <2>2, <2>3
<1>5. CASE Pullups
  <2>1. /\ edge' = {} /\ missed' = missed \cup edge
        /\ UNCHANGED <<low, isr, hid_mask>>
    BY <1>5 DEF Pullups, Goes
  <2> QED
    BY <2>1
<1>6. ASSUME UNCHANGED <<low, edge, isr, hid_mask, missed>> PROVE MaskAccounted'
  BY <1>6
<1>7. CASE HostTake \/ Unplug \/ Plug \/ TxDone \/ Drain \/ UsbPoll \/ UNCHANGED vars
  <2>1. UNCHANGED <<low, edge, isr, hid_mask, missed>>
    BY <1>7 DEF HostTake, Unplug, Plug, TxDone, Drain, UsbPoll, vars, lines, hid
  <2> QED
    BY <1>6, <2>1
<1>8. CASE PreCheck \/ SelfTest \/ EndSelfTest \/ EndPullups
  <2>1. UNCHANGED <<low, edge, isr, hid_mask, missed>>
    BY <1>8 DEF PreCheck, SelfTest, EndSelfTest, EndPullups, Goes, lines, hid
  <2> QED
    BY <1>6, <2>1
<1> QED
  BY <1>1, <1>2, <1>3, <1>4, <1>5, <1>7, <1>8 DEF Next, EdgeIsrs, Qualifies, Loop

\* MaskAccounted: the mask is wrong about a panel only while its edge is still to be
\* taken or in its 10 us, or after one was ignored under the hold (hidEdge, hidTick).
THEOREM MaskAlwaysAccounted == ASSUME PadAssumption PROVE Spec => []MaskAccounted
<1>1. Init => MaskAccounted
  BY DEF Init, MaskAccounted, Differ
<1>2. PadInv /\ MaskAccounted /\ [Next]_vars => MaskAccounted'
  BY MaskStep
<1> QED
  BY <1>1, <1>2, InvKept, PTL DEF Spec

-----------------------------------------------------------------------------
(* The number *)

\* Neighbours differ in both mask and number, or in neither.
Linked(s) ==
  \A i \in 1 .. Len(s) - 1 : s[i].mask # s[i + 1].mask <=> s[i].seq # s[i + 1].seq

\* The last report queued is the one hid_sent and hid_seq say.
EndsWith(s, m, n) == s # <<>> => s[Len(s)] = [mask |-> m, seq |-> n]

AllReports(h, q) == IF h = NoReport THEN q ELSE <<h>> \o q

SeqInv == Linked(Reports) /\ EndsWith(Reports, hid_sent, hid_seq)

LEMMA AppendLinked ==
  ASSUME NEW s \in Seq(Report), Linked(s), NEW r \in Report,
         s # <<>> => (s[Len(s)].mask # r.mask <=> s[Len(s)].seq # r.seq)
  PROVE  Linked(Append(s, r)) /\ EndsWith(Append(s, r), r.mask, r.seq)
<1> DEFINE t == Append(s, r)
<1>1. Len(t) = Len(s) + 1 /\ t[Len(s) + 1] = r /\ \A i \in 1 .. Len(s) : t[i] = s[i]
  OBVIOUS
<1>2. Len(s) \in Nat
  OBVIOUS
<1>3. ASSUME NEW i \in 1 .. Len(t) - 1
      PROVE  t[i].mask # t[i + 1].mask <=> t[i].seq # t[i + 1].seq
  <2>1. CASE i = Len(s)
    <3>1. s # <<>> /\ t[i] = s[Len(s)] /\ t[i + 1] = r
      BY <1>1, <1>2, <2>1
    <3> QED
      BY <3>1
  <2>2. CASE i # Len(s)
    <3>1. i \in 1 .. Len(s) - 1 /\ t[i] = s[i] /\ t[i + 1] = s[i + 1]
      BY <1>1, <1>2, <2>2
    <3> QED
      BY <3>1 DEF Linked
  <2> QED
    BY <2>1, <2>2
<1>4. r = [mask |-> r.mask, seq |-> r.seq]
  BY DEF Report
<1> QED
  BY <1>1, <1>3, <1>4 DEF Linked, EndsWith

LEMMA AllAppend ==
  ASSUME PadAssumption, NEW h \in Report \cup {NoReport}, NEW q \in Seq(Report), NEW r \in Report
  PROVE  /\ AllReports(h, q) \in Seq(Report)
         /\ AllReports(h, Append(q, r)) = Append(AllReports(h, q), r)
BY DEF AllReports, PadAssumption

LEMMA HidSendLinked ==
  ASSUME PadAssumption, PadInv, NEW m \in SUBSET Panels, NEW q \in Seq(Report), NEW st, NEW t,
         Linked(AllReports(host, q)), EndsWith(AllReports(host, q), hid_sent, hid_seq),
         HidSend(m, q, st, t)
  PROVE  Linked(AllReports(host, txq')) /\ EndsWith(AllReports(host, txq'), hid_sent', hid_seq')
<1> DEFINE r == [mask |-> m, seq |-> NextSeq(m)]
           s == AllReports(host, q)
<1>0. host \in Report \cup {NoReport}
  BY DEF PadInv, TypeOK
<1>1. CASE st = "OFF" /\ Room(q)
  <2>1. r \in Report
    BY NextSeqType DEF Report, PadInv
  <2>2. txq' = Append(q, r) /\ hid_sent' = m /\ hid_seq' = NextSeq(m)
    BY <1>1 DEF HidSend
  <2>3. s \in Seq(Report) /\ AllReports(host, txq') = Append(s, r)
    BY <1>0, <2>1, <2>2, AllAppend
  <2>4. m # hid_sent <=> NextSeq(m) # hid_seq
    BY SMTT(30) DEF NextSeq, PadAssumption, PadInv, TypeOK
  <2>5. s # <<>> => (s[Len(s)].mask # r.mask <=> s[Len(s)].seq # r.seq)
    BY <2>4 DEF EndsWith
  <2>6. Linked(Append(s, r)) /\ EndsWith(Append(s, r), r.mask, r.seq)
    BY <2>1, <2>3, <2>5, AppendLinked
  <2> QED
    BY <2>2, <2>3, <2>6
<1>2. CASE ~(st = "OFF" /\ Room(q))
  BY <1>2 DEF HidSend
<1> QED
  BY <1>1, <1>2

LEMMA RepeatLinked ==
  ASSUME PadAssumption, PadInv, SeqInv, hid_sent # NoMask
  PROVE  /\ Linked(AllReports(host, Repeat(txq)))
         /\ EndsWith(AllReports(host, Repeat(txq)), hid_sent, hid_seq)
<1> DEFINE r == [mask |-> hid_sent, seq |-> hid_seq]
           s == AllReports(host, txq)
<1>1. r \in Report /\ host \in Report \cup {NoReport} /\ txq \in Seq(Report)
  BY DEF PadInv, TypeOK, Report
<1>2. Linked(s) /\ EndsWith(s, hid_sent, hid_seq)
  BY DEF SeqInv, Reports, AllReports
<1>3. CASE Room(txq)
  <2>1. s \in Seq(Report) /\ AllReports(host, Repeat(txq)) = Append(s, r)
    BY <1>1, <1>3, AllAppend DEF Repeat
  <2>2. s # <<>> => (s[Len(s)].mask # r.mask <=> s[Len(s)].seq # r.seq)
    BY <1>2 DEF EndsWith
  <2>3. Linked(Append(s, r)) /\ EndsWith(Append(s, r), r.mask, r.seq)
    BY <1>1, <1>2, <2>1, <2>2, AppendLinked
  <2> QED
    BY <2>1, <2>3
<1>4. CASE ~Room(txq)
  BY <1>2, <1>4 DEF Repeat
<1> QED
  BY <1>3, <1>4

\* What the host takes stays the first of what it has; what it took before is gone.
LEMMA TakeLinked ==
  ASSUME PadAssumption, PadInv, SeqInv, HostTake
  PROVE  SeqInv'
<1>1. txq \in Seq(Report) /\ txq # <<>> /\ host' = Head(txq) /\ txq' = Tail(txq)
  BY DEF PadInv, TypeOK, HostTake
<1>2. Head(txq) \in Report /\ Head(txq) # NoReport
  BY <1>1 DEF PadAssumption
<1>3. Reports' = txq
  <2>1. <<Head(txq)>> \o Tail(txq) = txq
    BY <1>1
  <2> QED
    BY <1>1, <1>2, <2>1 DEF Reports
<1>4. hid_sent' = hid_sent /\ hid_seq' = hid_seq
  BY DEF HostTake, hid
<1>5. CASE host = NoReport
  BY <1>3, <1>4, <1>5 DEF SeqInv, Reports
<1>6. CASE host # NoReport
  <2> DEFINE s == <<host>> \o txq
  <2>1. Reports = s /\ host \in Report
    BY <1>6 DEF Reports, PadInv, TypeOK
  <2>2. Len(s) = Len(txq) + 1 /\ \A i \in 1 .. Len(txq) : txq[i] = s[i + 1]
    BY <1>1, <2>1
  <2>3. Len(txq) \in Nat \ {0}
    BY <1>1, EmptySeq
  <2>4. Linked(s) /\ EndsWith(s, hid_sent, hid_seq)
    BY <2>1 DEF SeqInv
  <2>5. ASSUME NEW i \in 1 .. Len(txq) - 1
        PROVE  txq[i].mask # txq[i + 1].mask <=> txq[i].seq # txq[i + 1].seq
    <3>1. i + 1 \in 1 .. Len(s) - 1 /\ txq[i] = s[i + 1] /\ txq[i + 1] = s[(i + 1) + 1]
      BY <2>2, <2>3
    <3> HIDE DEF s
    <3> QED
      BY <2>4, <3>1 DEF Linked
  <2>6. txq[Len(txq)] = s[Len(s)] /\ s # <<>>
    BY <2>2, <2>3
  <2>7. txq[Len(txq)] = [mask |-> hid_sent, seq |-> hid_seq]
    BY <2>4, <2>6 DEF EndsWith
  <2>8. Linked(txq) /\ EndsWith(txq, hid_sent, hid_seq)
    BY <2>5, <2>7 DEF Linked, EndsWith
  <2> QED
    BY <1>3, <1>4, <2>8 DEF SeqInv
<1> QED
  BY <1>5, <1>6

LEMMA SeqStep == ASSUME PadAssumption, PadInv, SeqInv, [Next]_vars PROVE SeqInv'
<1>0. /\ Linked(AllReports(host, txq)) /\ EndsWith(AllReports(host, txq), hid_sent, hid_seq)
      /\ txq \in Seq(Report)
  BY DEF SeqInv, Reports, AllReports, PadInv, TypeOK
<1>1. ASSUME Linked(AllReports(host, txq')), host' = host,
             EndsWith(AllReports(host, txq'), hid_sent', hid_seq')
      PROVE  SeqInv'
  BY <1>1 DEF SeqInv, Reports, AllReports
<1>2. ASSUME UNCHANGED <<txq, host, hid_sent, hid_seq>> PROVE SeqInv'
  BY <1>2 DEF SeqInv, Reports
<1>3. CASE Plug
  <2>1. Reports' = <<>>
    BY <1>3 DEF Plug, Reports
  <2> QED
    BY <2>1 DEF SeqInv, Linked, EndsWith
<1>4. ASSUME NEW p \in Panels, Qualify(p) PROVE SeqInv'
  <2>1. Qualified(p) \in SUBSET Panels
    BY DEF Qualified, PadInv, TypeOK
  <2>2. CASE Qualified(p) = hid_mask
    BY <1>2, <1>4, <2>2 DEF Qualify
  <2>3. CASE Qualified(p) # hid_mask
    <3>1. HidSend(Qualified(p), txq, usbpoll_state, since) /\ host' = host
      BY <1>4, <2>3 DEF Qualify
    <3> QED
      BY <1>0, <1>1, <2>1, <3>1, HidSendLinked
  <2> QED
    BY <2>2, <2>3
<1>5. CASE TxDone
  <2>1. host' = host /\ UNCHANGED <<hid_sent, hid_seq>>
    BY <1>5 DEF TxDone, hid
  <2>2. CASE usbpoll_state = "RUN"
    BY <1>1, <1>5, <2>1, <2>2, RepeatLinked DEF TxDone, PadInv
  <2>3. CASE usbpoll_state # "RUN"
    BY <1>2, <1>5, <2>1, <2>3 DEF TxDone
  <2> QED
    BY <2>2, <2>3
<1>6. CASE HidTick
  <2> DEFINE mask == Differ(hid_mask, IF hid_hold THEN {} ELSE Fix)
             t == Smaller(since + 1, Heartbeat)
             q == IF usbpoll_state = "DRAIN" /\ AfterTick = "RUN" THEN Repeat(txq) ELSE txq
  <2>1. /\ \/ HidSend(mask, q, AfterTick, t)
           \/ txq' = q /\ since' = t /\ UNCHANGED <<hid_seq, hid_sent>>
        /\ host' = host
    BY <1>6 DEF HidTick
  <2>2. mask \in SUBSET Panels
    BY DEF Differ, Fix, PadInv, TypeOK
  <2>3. q \in Seq(Report)
    BY <1>0, RepeatType DEF PadInv
  <2>4. Linked(AllReports(host, q)) /\ EndsWith(AllReports(host, q), hid_sent, hid_seq)
    BY <1>0, RepeatLinked DEF PadInv
  <2> HIDE DEF mask, t, q
  <2>5. Linked(AllReports(host, txq')) /\ EndsWith(AllReports(host, txq'), hid_sent', hid_seq')
    BY <2>1, <2>2, <2>3, <2>4, HidSendLinked
  <2> QED
    BY <1>1, <2>1, <2>5
<1>7. CASE Unplug \/ EdgeIsrs \/ Drain \/ UsbPoll \/ UNCHANGED vars
           \/ \E p \in Panels : LineChange(p)
  <2>1. UNCHANGED <<txq, host, hid_sent, hid_seq>>
    BY <1>7 DEF Unplug, EdgeIsrs, EdgeIsr, Drain, UsbPoll, LineChange, vars, hid, usbcore
  <2> QED
    BY <1>2, <2>1
<1>8. CASE PreCheck \/ SelfTest \/ EndSelfTest \/ Pullups \/ EndPullups
  <2>1. UNCHANGED <<txq, host, hid_sent, hid_seq>>
    BY <1>8 DEF PreCheck, SelfTest, EndSelfTest, Pullups, EndPullups, Goes, hid, usbcore
  <2> QED
    BY <1>2, <2>1
<1> QED
  BY <1>3, <1>4, <1>5, <1>6, <1>7, <1>8, TakeLinked DEF Next, Qualifies, Loop

LEMMA SeqInvKept == ASSUME PadAssumption PROVE Spec => []SeqInv
<1>1. Init => SeqInv
  <2>1. Init => Reports = <<>>
    BY DEF Init, Reports
  <2> QED
    BY <2>1 DEF SeqInv, Linked, EndsWith
<1>2. PadInv /\ SeqInv /\ [Next]_vars => SeqInv'
  BY SeqStep
<1> QED
  BY <1>1, <1>2, InvKept, PTL DEF Spec

\* SeqTellsMasks: of two reports in a row as the host gets them, the numbers differ exactly
\* when the masks do, whatever filled the queue (hidSend, usbpollQueue).
THEOREM SeqAlwaysTellsMasks == ASSUME PadAssumption PROVE Spec => []SeqTellsMasks
<1>1. SeqInv => SeqTellsMasks
  BY DEF SeqInv, Linked, SeqTellsMasks
<1> QED
  BY <1>1, SeqInvKept, PTL

\* NewestAccounted: what the newest report has wrong is under way, was ignored, or is still
\* to be sent; the tick never takes for sent what was not queued (hidSend, hidTick).
THEOREM NewestAlwaysAccounted == ASSUME PadAssumption PROVE Spec => []NewestAccounted
<1>1. ASSUME SeqInv, MaskAccounted PROVE NewestAccounted
  <2>1. ASSUME Reports # <<>> PROVE Reports[Len(Reports)].mask = hid_sent
    BY <1>1, <2>1 DEF SeqInv, EndsWith
  <2>2. Differ(low, hid_sent) \subseteq Differ(low, hid_mask) \cup Differ(hid_mask, hid_sent)
    BY DEF Differ
  <2> QED
    BY <1>1, <2>1, <2>2 DEF MaskAccounted, NewestAccounted
<1>2. SeqInv /\ MaskAccounted => NewestAccounted
  BY <1>1
<1> QED
  BY <1>2, SeqInvKept, MaskAlwaysAccounted, PTL

-----------------------------------------------------------------------------
(* The ring *)

\* The latest entry counts.
LEMMA ToldAppend ==
  ASSUME NEW r \in Seq(Edges), NEW e \in Edges, NEW known, NEW p
  PROVE  Told(Append(r, e), known, p) <=> IF e.panel = p THEN e.pressed ELSE Told(r, known, p)
<1> DEFINE q == Append(r, e)
<1>1. /\ DOMAIN q = 1 .. Len(r) + 1 /\ DOMAIN r = 1 .. Len(r) /\ Len(r) \in Nat
      /\ \A i \in 1 .. Len(r) : q[i] = r[i]
      /\ q[Len(r) + 1] = e
  OBVIOUS
<1> HIDE DEF q
<1>2. CASE e.panel = p
  <2>1. ASSUME Told(q, known, p) PROVE e.pressed
    BY <1>1, <1>2, <2>1 DEF Told
  <2>2. ASSUME e.pressed PROVE Told(q, known, p)
    BY <1>1, <1>2, <2>2 DEF Told
  <2> QED
    BY <1>2, <2>1, <2>2 DEF q
<1>3. CASE e.panel # p
  <2>1. ASSUME Told(q, known, p) PROVE Told(r, known, p)
    BY <1>1, <1>3, <2>1 DEF Told
  <2>2. ASSUME Told(r, known, p) PROVE Told(q, known, p)
    BY <1>1, <1>3, <2>2 DEF Told
  <2> QED
    BY <1>3, <2>1, <2>2 DEF q
<1> QED
  BY <1>2, <1>3

MarkedIn(known, e) == IF e.pressed THEN known \cup {e.panel} ELSE known \ {e.panel}

\* Taking the oldest entry changes nothing of what they will have said in the end.
LEMMA ToldTail ==
  ASSUME NEW r \in Seq(Edges), r # <<>>, NEW known, NEW p
  PROVE  Told(Tail(r), MarkedIn(known, Head(r)), p) <=> Told(r, known, p)
<1> DEFINE q == Tail(r)
           e == Head(r)
           n == Len(r)
<1>1. /\ DOMAIN q = 1 .. n - 1 /\ DOMAIN r = 1 .. n /\ n \in Nat \ {0}
      /\ \A i \in 1 .. n - 1 : q[i] = r[i + 1]
      /\ e = r[1]
  <2>1. q \in Seq(Edges) /\ Len(q) = n - 1 /\ \A i \in 1 .. Len(q) : q[i] = r[i + 1]
    BY HeadTailProperties
  <2>2. n \in Nat \ {0} /\ e = r[1]
    OBVIOUS
  <2> QED
    BY <2>1, <2>2
<1> HIDE DEF q, e, n
<1> DEFINE m == MarkedIn(known, e)
<1>2. p \in m <=> IF e.panel = p THEN e.pressed ELSE p \in known
  BY DEF MarkedIn
<1> HIDE DEF m
<1>3. ASSUME Told(q, m, p) PROVE Told(r, known, p)
  <2>1. CASE p \in m /\ \A i \in DOMAIN q : q[i].panel # p
    <3>1. \A i \in 2 .. n : r[i].panel # p
      <4>1. \A i \in 2 .. n : i - 1 \in 1 .. n - 1 /\ q[i - 1] = r[i]
        BY <1>1
      <4> QED
        BY <1>1, <2>1, <4>1
    <3>2. CASE e.panel = p
      BY <1>1, <1>2, <2>1, <3>1, <3>2 DEF Told
    <3>3. CASE e.panel # p
      BY <1>1, <1>2, <2>1, <3>1, <3>3 DEF Told
    <3> QED
      BY <3>2, <3>3
  <2>2. ASSUME NEW i \in DOMAIN q, q[i].panel = p, q[i].pressed,
               \A j \in DOMAIN q : j > i => q[j].panel # p
        PROVE  Told(r, known, p)
    <3>1. i + 1 \in DOMAIN r /\ r[i + 1].panel = p /\ r[i + 1].pressed
      BY <1>1, <2>2
    <3>2. ASSUME NEW j \in DOMAIN r, j > i + 1 PROVE r[j].panel # p
      <4>1. j - 1 \in DOMAIN q /\ j - 1 > i /\ q[j - 1] = r[j]
        BY <1>1, <3>2
      <4> QED
        BY <2>2, <4>1
    <3> QED
      BY <3>1, <3>2 DEF Told
  <2> QED
    BY <1>3, <2>1, <2>2 DEF Told
<1>4. ASSUME Told(r, known, p) PROVE Told(q, m, p)
  <2>1. ASSUME NEW i \in DOMAIN r, r[i].panel = p, r[i].pressed,
               \A j \in DOMAIN r : j > i => r[j].panel # p
        PROVE  Told(q, m, p)
    <3>1. \A j \in DOMAIN q : j + 1 \in DOMAIN r /\ q[j] = r[j + 1]
      BY <1>1
    <3>2. CASE i = 1
      BY <1>1, <1>2, <2>1, <3>1, <3>2 DEF Told
    <3>3. CASE i # 1
      <4>1. i - 1 \in DOMAIN q /\ q[i - 1] = r[i]
        BY <1>1, <3>3
      <4>2. ASSUME NEW j \in DOMAIN q, j > i - 1 PROVE q[j].panel # p
        BY <1>1, <2>1, <3>1, <4>2
      <4> QED
        BY <2>1, <4>1, <4>2 DEF Told
    <3> QED
      BY <3>2, <3>3
  <2>2. CASE p \in known /\ \A i \in DOMAIN r : r[i].panel # p
    <3>1. \A j \in DOMAIN q : j + 1 \in DOMAIN r /\ q[j] = r[j + 1]
      BY <1>1
    <3> QED
      BY <1>1, <1>2, <2>2, <3>1 DEF Told
  <2> QED
    BY <1>4, <2>1, <2>2 DEF Told
<1>5. Told(q, m, p) <=> Told(r, known, p)
  BY <1>3, <1>4
<1> QED
  BY <1>5 DEF q, m, e

LEMMA RingStep ==
  ASSUME PadAssumption, PadInv, RingTold, [Next]_vars
  PROVE  RingTold'
<1>0. ring \in Seq(Edges)
  BY DEF PadInv, TypeOK
<1>1. ASSUME NEW p \in Panels, LineChange(p) PROVE RingTold'
  <2>1. UNCHANGED <<ring, panel_pressed>> /\ p \in (edge \cup dropped)'
        /\ edge \cup dropped \subseteq (edge \cup dropped)'
    BY <1>1 DEF LineChange
  <2>2. \A q \in Panels : q # p => (q \in low' <=> q \in low)
    BY <1>1 DEF LineChange, Differ
  <2> QED
    BY <2>1, <2>2 DEF RingTold
<1>2. ASSUME NEW p \in Panels, EdgeIsr(p) PROVE RingTold'
  <2>1. UNCHANGED <<low, panel_pressed>> /\ edge' = edge \ {p}
    BY <1>2 DEF EdgeIsr
  <2>2. CASE RoomInRing
    <3> DEFINE e == [panel |-> p, pressed |-> p \in low]
    <3>1. ring' = Append(ring, e) /\ dropped' = dropped \ {p}
      BY <1>2, <2>2 DEF EdgeIsr, PushEdge
    <3>2. e \in Edges /\ e.panel = p /\ (e.pressed <=> p \in low)
      <4>1. (p \in low) \in BOOLEAN
        OBVIOUS
      <4>2. e \in Edges
        BY <4>1 DEF Edges
      <4>3. e.panel = p /\ e.pressed = (p \in low)
        OBVIOUS
      <4> QED
        BY <4>2, <4>3
    <3> HIDE DEF e
    <3>3. \A q \in Panels : Told(ring', panel_pressed, q) <=>
                              IF p = q THEN p \in low ELSE Told(ring, panel_pressed, q)
      BY <1>0, <3>1, <3>2, ToldAppend
    <3>4. \A q \in Panels \ (edge \cup dropped)' :
            q # p => q \in Panels \ (edge \cup dropped)
      BY <2>1, <3>1
    <3> QED
      BY <2>1, <3>3, <3>4 DEF RingTold
  <2>3. CASE ~RoomInRing
    <3>1. ring' = ring /\ dropped' = dropped \cup {p}
      BY <1>2, <2>3 DEF EdgeIsr, PushEdge
    <3> QED
      BY <2>1, <3>1 DEF RingTold
  <2> QED
    BY <2>2, <2>3
<1>3. CASE Drain
  <2>1. /\ ring # <<>> /\ ring' = Tail(ring) /\ UNCHANGED <<low, edge, dropped>>
        /\ panel_pressed' = MarkedIn(panel_pressed, Head(ring))
    BY <1>3 DEF Drain, lines, Marked, MarkedIn
  <2>2. \A q \in Panels :
          Told(ring', panel_pressed', q) <=> Told(ring, panel_pressed, q)
    BY <1>0, <2>1, ToldTail
  <2> QED
    BY <2>1, <2>2 DEF RingTold
<1>4. CASE Pullups
  <2>1. UNCHANGED <<low, ring, panel_pressed>> /\ edge' = {} /\ dropped' = dropped \cup edge
    BY <1>4 DEF Pullups
  <2> QED
    BY <2>1 DEF RingTold
<1>5. CASE EndPullups
  <2>1. /\ UNCHANGED <<low, edge, panel_pressed>> /\ ring' = <<>>
        /\ dropped' = dropped \cup {ring[i].panel : i \in 1 .. Len(ring)}
    BY <1>5 DEF EndPullups
  <2>2. ASSUME NEW q \in Panels, q \notin (edge \cup dropped)'
        PROVE  Told(ring', panel_pressed', q) <=> q \in low'
    <3>1. q \notin edge \cup dropped /\ \A i \in DOMAIN ring : ring[i].panel # q
      BY <1>0, <2>1, <2>2
    <3>2. Told(ring, panel_pressed, q) <=> q \in panel_pressed
      BY <3>1 DEF Told
    <3>3. Told(<<>>, panel_pressed, q) <=> q \in panel_pressed
      BY DEF Told
    <3> QED
      BY <2>1, <3>1, <3>2, <3>3 DEF RingTold
  <2> QED
    BY <2>2 DEF RingTold
<1>6. ASSUME UNCHANGED <<low, edge, dropped, ring, panel_pressed>> PROVE RingTold'
  BY <1>6 DEF RingTold
<1>7. CASE HostTake \/ Unplug \/ Plug \/ TxDone \/ HidTick \/ UsbPoll
  BY <1>6, <1>7 DEF HostTake, Unplug, Plug, TxDone, HidTick, UsbPoll, lines, loop
<1>8. CASE Qualifies
  BY <1>6, <1>8 DEF Qualifies, Qualify, lines, loop
<1>9. CASE PreCheck \/ SelfTest \/ EndSelfTest
  BY <1>6, <1>9 DEF PreCheck, SelfTest, EndSelfTest, lines
<1>10. CASE UNCHANGED vars
  BY <1>6, <1>10 DEF vars, lines, loop
<1> QED
  BY <1>1, <1>2, <1>3, <1>4, <1>5, <1>7, <1>8, <1>9, <1>10 DEF Next, EdgeIsrs, Loop

\* RingTold: what loop() shows of a panel once the ring is empty is its line, but for an
\* edge that met a full ring or interrupts that were off (pushEdge, loop).
THEOREM RingAlwaysTells == ASSUME PadAssumption PROVE Spec => []RingTold
<1>1. Init => RingTold
  BY DEF Init, RingTold, Told
<1>2. PadInv /\ RingTold /\ [Next]_vars => RingTold'
  BY RingStep
<1> QED
  BY <1>1, <1>2, InvKept, PTL DEF Spec
=============================================================================
