------------------------------- MODULE PadInput -------------------------------
(***************************************************************************)
(* The press path in the master (firmware/master/master.ino): the panels'  *)
(* INT lines, the edge interrupt and the 1 kHz tick, the joystick report's *)
(* queue, and the ring of edges that loop() empties.                       *)
(*                                                                         *)
(* The edge interrupt, the tick and the USB callback run at one priority,  *)
(* so none interrupts another, and loop() runs only between them.  The     *)
(* edge interrupt waits 10 us and reads its line again; lines change and   *)
(* the host takes reports at any moment, in those 10 us too.  A mask is    *)
(* the set of panels pressed.                                              *)
(***************************************************************************)
EXTENDS Integers, Sequences

CONSTANTS
  Panels,      \* INT lines
  RingSize,    \* slots of the edge ring; one stays free
  TxNum,       \* reports the USB core queues
  SeqMod,      \* the report's sequence number is kept modulo this
  Heartbeat,   \* ticks after which a report is repeated
  PollTicks,   \* ticks each state of `usbpoll` lasts
  Spare,       \* a bit of the mask that is no panel's
  NoReport,    \* the host has taken none since it found the master
  MaxChanges,  \* bound: changes of the lines
  MaxEvents    \* bound: self-tests, pull-up checks, `usbpoll` runs, and times
               \* USB goes away

Report == [mask : SUBSET Panels, seq : 0 .. SeqMod - 1]

ASSUME PadAssumption ==
  /\ RingSize \in Nat /\ RingSize > 1
  /\ TxNum \in Nat \ {0}
  /\ SeqMod \in Nat /\ SeqMod > 1
  /\ Heartbeat \in Nat \ {0}
  /\ PollTicks \in Nat \ {0}
  /\ Spare \notin Panels /\ NoReport \notin Report
  /\ MaxChanges \in Nat /\ MaxEvents \in Nat

VARIABLES
  low,            \* the lines that are LOW: the panels pressed
  edge,           \* GPIO: edge interrupts not yet taken
  attached,       \* GPIO: the edge interrupts are on
  isr,            \* panels whose edge interrupt is in its 10 us (at most one)
  hid_hold, hid_mask, hid_sent, hid_seq,
  since,          \* ticks since a report was queued (hid_last_us)
  disagree,       \* hidTick: lines that differed from the mask last tick
  txq,            \* reports queued in the USB core
  taken,          \* reports the host has taken whose callback has not run
  usbpoll_state,
  in_state,       \* ticks since it changed (usbpoll_ms)
  usb,            \* usb_configuration: the host has the master
  host,           \* the last report the host took, or NoReport
  ring,           \* ring_panel, ring_pressed, from tail to head
  panel_pressed,  \* loop(): the panels it takes for pressed
  at,             \* where loop() is
  missed,         \* observer: panels with an edge ignored under hid_hold or
                  \* with the interrupts off, and not corrected since
  dropped,        \* observer: panels with an edge no ring entry tells of
  changes, events

lines   == <<low, edge, attached, changes>>
hid     == <<hid_mask, hid_sent, hid_seq, since, disagree, missed>>
poll    == <<usbpoll_state, in_state>>
usbcore == <<txq, taken, usb, host>>
loop    == <<hid_hold, ring, panel_pressed, at, dropped, events>>
vars    == <<lines, isr, hid, poll, usbcore, loop>>

\* hid_sent before the first report, 0xFFFF: never a real mask.
NoMask == Panels \cup {Spare}

Edges  == [panel : Panels, pressed : BOOLEAN]

\* setup(): the interrupts go on and the tick starts, whatever the lines are.
Init ==
  /\ low \in SUBSET Panels
  /\ edge = {} /\ attached = TRUE /\ isr = {}
  /\ hid_hold = FALSE /\ hid_mask = {} /\ hid_sent = NoMask /\ hid_seq = 0
  /\ since = 0 /\ disagree = {}
  /\ txq = <<>> /\ taken = 0 /\ usb = FALSE /\ host = NoReport
  /\ usbpoll_state = "OFF" /\ in_state = 0
  /\ ring = <<>> /\ panel_pressed = {} /\ at = "run"
  /\ missed = low /\ dropped = low
  /\ changes = 0 /\ events = 0

Differ(S, T) == (S \ T) \cup (T \ S)
Smaller(a, b) == IF a < b THEN a ELSE b

-----------------------------------------------------------------------------
(* The lines and the host *)

LineChange(p) ==
  /\ changes < MaxChanges
  /\ changes' = changes + 1
  /\ low' = Differ(low, {p})
  /\ IF attached
       THEN edge' = edge \cup {p} /\ UNCHANGED <<missed, dropped>>
       ELSE missed' = missed \cup {p} /\ dropped' = dropped \cup {p} /\ UNCHANGED edge
  /\ UNCHANGED <<attached, isr, hid_mask, hid_sent, hid_seq, since, disagree, poll,
                 usbcore, hid_hold, ring, panel_pressed, at, events>>

\* The host polls the endpoint and takes the oldest report.
HostTake ==
  /\ usb /\ txq # <<>> /\ taken < TxNum
  /\ host' = Head(txq)
  /\ txq' = Tail(txq)
  /\ taken' = taken + 1
  /\ UNCHANGED <<usb, lines, isr, hid, poll, loop>>

Unplug ==
  /\ usb /\ events < MaxEvents
  /\ usb' = FALSE
  /\ events' = events + 1
  /\ UNCHANGED <<txq, taken, host, lines, isr, hid, poll, hid_hold, ring,
                 panel_pressed, at, dropped>>

\* usb_joystick_configure: enumeration, and the queue is empty.
Plug ==
  /\ ~usb
  /\ usb' = TRUE
  /\ txq' = <<>> /\ taken' = 0 /\ host' = NoReport
  /\ UNCHANGED <<lines, isr, hid, poll, loop>>

-----------------------------------------------------------------------------
(* Queueing a report *)

\* usb_joystick_try_send finds a free slot.
Room(q) == usb /\ Len(q) < TxNum

\* usbpollQueue: the last report again.
Repeat(q) == IF Room(q) THEN Append(q, [mask |-> hid_sent, seq |-> hid_seq]) ELSE q

\* Mutant: the number stays.
NextSeqKept(m) == hid_seq

\* The number that goes with mask m.
NextSeq(m) == IF m # hid_sent THEN (hid_seq + 1) % SeqMod ELSE hid_seq

\* Mutant: the mask counts as sent when there was no room for it.
HidSendLost(m, q, st, t) ==
  IF st = "OFF" /\ Room(q)
    THEN /\ txq' = Append(q, [mask |-> m, seq |-> NextSeq(m)])
         /\ hid_seq' = NextSeq(m) /\ hid_sent' = m /\ since' = 0
    ELSE txq' = q /\ since' = t /\ hid_sent' = m /\ UNCHANGED hid_seq

\* hidSend, with mask m on queue q, `usbpoll` in state st; t ticks have passed
\* since the last report.
HidSend(m, q, st, t) ==
  IF st = "OFF" /\ Room(q)
    THEN /\ txq' = Append(q, [mask |-> m, seq |-> NextSeq(m)])
         /\ hid_seq' = NextSeq(m) /\ hid_sent' = m /\ since' = 0
    ELSE /\ txq' = q /\ since' = t
         /\ UNCHANGED <<hid_seq, hid_sent>>

\* usb_joystick_tx_done, for one report.
TxDone ==
  /\ isr = {} /\ usb /\ taken > 0
  /\ taken' = taken - 1
  /\ txq' = IF usbpoll_state = "RUN" THEN Repeat(txq) ELSE txq
  /\ IF usbpoll_state = "TAIL"
       THEN usbpoll_state' = "OFF" /\ in_state' = 0
       ELSE UNCHANGED poll
  /\ UNCHANGED <<usb, host, lines, isr, hid, loop>>

-----------------------------------------------------------------------------
(* The edge interrupt *)

\* head + 1 is not the tail.
RoomInRing == Len(ring) < RingSize - 1

\* pushEdge, for a line that is read now.
PushEdge(p) ==
  IF RoomInRing
    THEN /\ ring' = Append(ring, [panel |-> p, pressed |-> p \in low])
         /\ dropped' = dropped \ {p}
    ELSE /\ dropped' = dropped \cup {p}
         /\ UNCHANGED ring

\* The interrupt of p is taken: the ring first, then hidEdge as far as its wait.
EdgeIsr(p) ==
  /\ isr = {} /\ p \in edge
  /\ edge' = edge \ {p}
  /\ PushEdge(p)
  /\ IF hid_hold THEN missed' = missed \cup {p} /\ UNCHANGED isr
                 ELSE isr' = {p} /\ UNCHANGED missed
  /\ UNCHANGED <<low, attached, changes, hid_mask, hid_sent, hid_seq, since,
                 disagree, poll, usbcore, hid_hold, panel_pressed, at, events>>

\* Mutant: an edge is taken for a change without a second look at the line.
QualifiedBlind(p) == Differ(hid_mask, {p})

\* The mask once the line of p is read again.
Qualified(p) == IF p \in low THEN hid_mask \cup {p} ELSE hid_mask \ {p}

\* The line still holds 10 us later, or it was a glitch.
Qualify(p) ==
  /\ p \in isr
  /\ isr' = {}
  /\ hid_mask' = Qualified(p)
  /\ missed' = missed \ {p}
  /\ IF Qualified(p) = hid_mask
       THEN UNCHANGED <<txq, since, hid_seq, hid_sent>>
       ELSE HidSend(Qualified(p), txq, usbpoll_state, since)
  /\ UNCHANGED <<lines, disagree, poll, taken, usb, host, loop>>

-----------------------------------------------------------------------------
(* The 1 kHz tick *)

\* Lines that differ from the mask at this tick and the last.
Fix == Differ(low, hid_mask) \cap disagree

\* usbpollTick: the state of the host poll measurement after this tick.
AfterTick ==
  IF in_state < PollTicks THEN usbpoll_state
  ELSE CASE usbpoll_state = "DRAIN" -> "RUN"
         [] usbpoll_state = "RUN"   -> "TAIL"
         [] OTHER -> "OFF"

\* Mutant: nothing is sent while the mask is the one last sent.
DueNoHeartbeat(m, t) == m # hid_sent

\* The tick has a report to send: news, or the heartbeat.
Due(m, t) == m # hid_sent \/ t >= Heartbeat

HidTick ==
  LET fix  == IF hid_hold THEN {} ELSE Fix
      mask == Differ(hid_mask, fix)
      st   == AfterTick
      t    == Smaller(since + 1, Heartbeat)
      q    == IF usbpoll_state = "DRAIN" /\ st = "RUN" THEN Repeat(txq) ELSE txq
  IN
  /\ isr = {}
  /\ disagree' = IF hid_hold THEN disagree ELSE Differ(low, hid_mask)
  /\ hid_mask' = mask
  /\ missed' = missed \cap Differ(low, mask)
  /\ usbpoll_state' = st
  /\ in_state' = IF st # usbpoll_state \/ st = "OFF" THEN 0 ELSE in_state + 1
  /\ IF Due(mask, t) THEN HidSend(mask, q, st, t)
                     ELSE txq' = q /\ since' = t /\ UNCHANGED <<hid_seq, hid_sent>>
  /\ UNCHANGED <<lines, isr, taken, usb, host, loop>>

-----------------------------------------------------------------------------
(* loop() *)

\* Mutant: releases are passed over.
MarkedPresses(e) == IF e.pressed THEN panel_pressed \cup {e.panel} ELSE panel_pressed

\* panel_pressed after entry e of the ring.
Marked(e) == IF e.pressed THEN panel_pressed \cup {e.panel}
                          ELSE panel_pressed \ {e.panel}

\* One entry of the ring.
Drain ==
  /\ isr = {} /\ at = "run" /\ ring # <<>>
  /\ ring' = Tail(ring)
  /\ panel_pressed' = Marked(Head(ring))
  /\ UNCHANGED <<lines, isr, hid, poll, usbcore, hid_hold, at, dropped, events>>

\* loop() goes on to place b, with hid_hold as h, and is counted if it is a test.
Goes(a, b, h) ==
  /\ isr = {} /\ at = a /\ at' = b
  /\ hid_hold' = h
  /\ a = "run" => events < MaxEvents
  /\ events' = IF a = "run" THEN events + 1 ELSE events
  /\ UNCHANGED <<isr, poll, usbcore>>

\* identifySelfTest: no line may be LOW; the bus goes quiet; then hid_hold.
PreCheck ==
  /\ low = {}
  /\ Goes("run", "wait", hid_hold)
  /\ UNCHANGED <<lines, hid, ring, panel_pressed, dropped>>

SelfTest ==
  /\ Goes("wait", "self_test", TRUE)
  /\ UNCHANGED <<lines, hid, ring, panel_pressed, dropped>>

EndSelfTest ==
  /\ Goes("self_test", "run", FALSE)
  /\ UNCHANGED <<lines, hid, ring, panel_pressed, dropped>>

\* reportIntPullups: the interrupts go off, and what is pending with them.
Pullups ==
  /\ Goes("run", "pullups", TRUE)
  /\ attached' = FALSE
  /\ edge' = {}
  /\ missed' = missed \cup edge /\ dropped' = dropped \cup edge
  /\ UNCHANGED <<low, changes, hid_mask, hid_sent, hid_seq, since, disagree,
                 ring, panel_pressed>>

\* The ring is emptied of phantom edges, and of real ones.
EndPullups ==
  /\ Goes("pullups", "run", FALSE)
  /\ attached' = TRUE
  /\ ring' = <<>>
  /\ dropped' = dropped \cup {ring[i].panel : i \in 1 .. Len(ring)}
  /\ UNCHANGED <<low, edge, changes, hid, panel_pressed>>

\* The `usbpoll` command.  It comes over USB, so the host has the master and has
\* had its first report for a while.
UsbPoll ==
  /\ isr = {} /\ at = "run" /\ usb
  /\ usbpoll_state = "OFF" /\ hid_sent # NoMask
  /\ events < MaxEvents /\ events' = events + 1
  /\ usbpoll_state' = "DRAIN" /\ in_state' = 0
  /\ UNCHANGED <<lines, isr, hid, usbcore, hid_hold, ring, panel_pressed, at, dropped>>

-----------------------------------------------------------------------------
EdgeIsrs == \E p \in Panels : EdgeIsr(p)
Qualifies == \E p \in Panels : Qualify(p)
Loop == Drain \/ SelfTest \/ EndSelfTest \/ EndPullups

Next ==
  \/ \E p \in Panels : LineChange(p)
  \/ HostTake \/ Unplug \/ Plug
  \/ EdgeIsrs \/ Qualifies \/ TxDone \/ HidTick
  \/ Loop \/ PreCheck \/ Pullups \/ UsbPoll

Spec == Init /\ [][Next]_vars

\* Interrupts are served and the timer ticks; loop() goes on; a host that has
\* the master polls its endpoint.
FairSpec ==
  /\ Spec
  /\ WF_vars(EdgeIsrs) /\ WF_vars(Qualifies) /\ WF_vars(TxDone) /\ WF_vars(HidTick)
  /\ WF_vars(Loop)
  /\ WF_vars(HostTake)

-----------------------------------------------------------------------------
(* Properties *)

TypeOK ==
  /\ low \subseteq Panels /\ edge \subseteq Panels /\ isr \subseteq Panels
  /\ attached \in BOOLEAN /\ hid_hold \in BOOLEAN /\ usb \in BOOLEAN
  /\ hid_mask \subseteq Panels /\ hid_sent \in (SUBSET Panels) \cup {NoMask}
  /\ hid_seq \in 0 .. SeqMod - 1 /\ since \in 0 .. Heartbeat
  /\ disagree \subseteq Panels
  /\ txq \in Seq(Report) /\ Len(txq) <= TxNum /\ taken \in 0 .. TxNum
  /\ host \in Report \cup {NoReport}
  /\ usbpoll_state \in {"OFF", "DRAIN", "RUN", "TAIL"} /\ in_state \in 0 .. PollTicks
  /\ ring \in Seq(Edges) /\ Len(ring) < RingSize
  /\ panel_pressed \subseteq Panels
  /\ at \in {"run", "wait", "self_test", "pullups"}
  /\ missed \subseteq Panels /\ dropped \subseteq Panels

\* The mask is wrong about a panel only while its edge interrupt is still to
\* come or in its 10 us, or after an edge was ignored under the self-test's hold
\* (hidEdge, hidTick).
MaskAccounted == Differ(low, hid_mask) \subseteq edge \cup isr \cup missed

\* Reports as the host gets them, oldest first.
Reports == IF host = NoReport THEN txq ELSE <<host>> \o txq

\* Two reports in a row with different masks have different numbers, and two
\* with one number say the same: a host that lost none may skip what it has
\* seen, whatever was queued as a repeat, by the heartbeat or by `usbpoll`
\* (hidSend, usbpollQueue).
SeqTellsMasks ==
  \A i \in 1 .. Len(Reports) - 1 :
    Reports[i].mask # Reports[i + 1].mask <=> Reports[i].seq # Reports[i + 1].seq

\* The newest report, taken or queued, is wrong about a panel only while that
\* panel's edge is under way or was ignored, or the tick still has news of it to
\* send: nothing a full queue, a `usbpoll` run or an absent host held up is given
\* up (hidSend, hidTick).
NewestAccounted ==
  Reports # <<>> =>
    Differ(low, Reports[Len(Reports)].mask)
      \subseteq edge \cup isr \cup missed \cup Differ(hid_mask, hid_sent)

\* Whether p is pressed once the entries r have been marked in known: what r says of p
\* last, or what is known when r does not name p.
Told(r, known, p) ==
  \/ \E i \in DOMAIN r :
       /\ r[i].panel = p /\ r[i].pressed
       /\ \A j \in DOMAIN r : j > i => r[j].panel # p
  \/ p \in known /\ \A i \in DOMAIN r : r[i].panel # p

\* Once its ring is empty loop() has every panel right, but for one whose edge
\* came when the ring was full or the interrupts were off (pushEdge, and the
\* drain in loop()).
RingTold ==
  \A p \in Panels \ (edge \cup dropped) : Told(ring, panel_pressed, p) <=> p \in low

\* Pressed panels reach the host: if it stays, the last report it has taken ends
\* up telling the lines, through full queues, ignored edges, a `usbpoll` run and
\* the master being unplugged (hidTick's retry, correction and heartbeat).
HostSeesPresses ==
  (<>[]usb) => <>[](host # NoReport /\ host.mask = low)
=============================================================================
