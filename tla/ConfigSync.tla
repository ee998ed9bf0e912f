------------------------------ MODULE ConfigSync ------------------------------
(***************************************************************************)
(* The master's configuration and what the panels run: pushes in poll      *)
(* slots, their acknowledgements, and the state the master keeps of each   *)
(* panel (firmware/master/master.ino), against the panels' handling of 'F' *)
(* and 'W' (firmware/panel/c/main.c).                                      *)
(*                                                                         *)
(* A panel's configuration is a name, and its CRC is the name.  The bus    *)
(* carries one request and then its reply; the next request goes out only  *)
(* when the reply window is over and what came in it is parsed.  Frames    *)
(* may be lost or misread, panels lose power, the master may start again,  *)
(* and the copy may change at any moment between.                          *)
(***************************************************************************)
EXTENDS Integers

CONSTANTS
  N,           \* panels are 1 .. N, as the master's loops take them
  Old,         \* panels whose firmware does not know the config version
  Configs,     \* configurations of one panel
  Defaults,    \* the one a panel starts with
  None,        \* nothing on the bus, nothing sent yet
  MaxTrouble,  \* bound: frames lost or misread, panels and the master going down
  MaxEdits     \* bound: changes of the copy

Panels == 1 .. N

ASSUME SyncAssumption ==
  /\ N \in Nat \ {0}
  /\ Old \subseteq Panels
  /\ Defaults \in Configs
  /\ MaxTrouble \in Nat
  /\ MaxEdits \in Nat

VARIABLES
  cfg_block,     \* master: the copy, by panel
  cfg_state,     \* master: what it knows of each panel
  cfg_sent_crc,  \* master: the last 'W' sent to each
  cfg_push_due,  \* master: each panel is owed a 'W'
  panel_online,  \* master: it answered a poll within a second
  poll_idx,      \* master: the next panel to poll
  repush_idx,    \* master: the next panel to be owed a re-push
  polled,        \* a poll has gone out since the last re-push
  told,          \* master: a config result event since the copy last changed
  bus,           \* the request or the reply under way, or None
  up,            \* panel: it has power and its application runs
  g_cfg,         \* panel: what it runs
  g_configured,  \* panel: not on defaults since boot
  misread,       \* panel: it runs what a damaged 'W' said
  trouble,       \* what has gone wrong so far
  edits          \* changes of the copy so far

master == <<cfg_block, cfg_state, cfg_sent_crc, cfg_push_due, panel_online,
            poll_idx, repush_idx, polled, told>>
panel  == <<up, g_cfg, g_configured, misread>>
vars   == <<cfg_block, cfg_state, cfg_sent_crc, cfg_push_due, panel_online,
            poll_idx, repush_idx, polled, told, bus, up, g_cfg, g_configured,
            misread, trouble, edits>>

States == {"MATCH", "WAITING", "REJECTED_VERSION", "NOT_CONFIGURED", "ABSENT"}

Request == [kind : {"F"}, to : Panels]
           \cup [kind : {"W"}, to : Panels, cfg : Configs]
Reply   == [kind : {"f"}, from : Panels, configured : BOOLEAN]
           \cup [kind : {"w"}, from : Panels, applied : BOOLEAN, crc : Configs]

\* The master's RAM when it starts: the copy is what cfgLoad has loaded.
Fresh ==
  [state |-> [p \in Panels |-> "ABSENT"], sent |-> [p \in Panels |-> None],
   due |-> [p \in Panels |-> FALSE]]

Init ==
  /\ cfg_block \in [Panels -> Configs]
  /\ cfg_state = Fresh.state
  /\ cfg_sent_crc = Fresh.sent
  /\ cfg_push_due = Fresh.due
  /\ panel_online = [p \in Panels |-> FALSE]
  /\ poll_idx = 1
  /\ repush_idx = 1
  /\ polled = TRUE
  /\ told = [p \in Panels |-> FALSE]
  /\ bus = None
  /\ up = [p \in Panels |-> TRUE]
  /\ g_cfg = [p \in Panels |-> Defaults]
  /\ g_configured = [p \in Panels |-> FALSE]
  /\ misread = [p \in Panels |-> FALSE]
  /\ trouble = 0
  /\ edits = 0

Costs == trouble < MaxTrouble /\ trouble' = trouble + 1

\* Mutant: the index runs past the last panel.
AfterUnwrapped(i) == i + 1

After(i) == (i % N) + 1

-----------------------------------------------------------------------------
(* The state of a panel *)

\* cfgSetState: panel p gets state s, and an event if that is a change.
SetState(p, s) ==
  /\ cfg_state' = [cfg_state EXCEPT ![p] = s]
  /\ told' = [told EXCEPT ![p] = @ \/ cfg_state[p] # s]

\* Mutant: only panels that matched are owed the new copy.
OwedMatched == {q \in Panels : cfg_state[q] = "MATCH"}

\* cfgChanged: every panel is owed the new copy, and one that matched no longer
\* does.
OwedAll == Panels

\* Mutant: a change leaves the panels' states as they are.
KeepsMatch(s) == s

Unmatched(s) == IF s = "MATCH" THEN "WAITING" ELSE s

\* The copy changes: one panel's part by `S` or `F`, all of it by USB Set config
\* or a reset.
CfgChanged(block) ==
  /\ edits < MaxEdits
  /\ edits' = edits + 1
  /\ cfg_block' = block
  /\ cfg_push_due' = [q \in Panels |-> cfg_push_due[q] \/ q \in OwedAll]
  /\ cfg_state' = [q \in Panels |-> Unmatched(cfg_state[q])]
  /\ told' = [q \in Panels |-> cfg_state'[q] # cfg_state[q]]
  /\ UNCHANGED <<cfg_sent_crc, panel_online, poll_idx, repush_idx, polled, bus,
                 panel, trouble>>

-----------------------------------------------------------------------------
(* Poll slots: one request each, pushes before polls *)

Owed == {p \in Panels : cfg_push_due[p] /\ panel_online[p]}

\* Mutant: only a panel known to match is sent the copy again.
RePushMatched(p) == panel_online[p] /\ cfg_state[p] = "MATCH"

RePushTo(p) == panel_online[p]

\* The re-push, one panel in 111 ms.  A slot comes every 5 ms and at most every
\* 50 (the console's `poll`), so a poll finds one between two re-pushes.
RePush ==
  /\ polled
  /\ polled' = FALSE
  /\ cfg_push_due' = [cfg_push_due EXCEPT ![repush_idx] = @ \/ RePushTo(repush_idx)]
  /\ repush_idx' = After(repush_idx)
  /\ UNCHANGED <<cfg_block, cfg_state, cfg_sent_crc, panel_online, poll_idx, told,
                 bus, panel, trouble, edits>>

\* cfgNextPush and cfgSendPush.
CfgSendPush(p) ==
  /\ bus = None
  /\ p \in Owed
  /\ \A q \in Owed : p <= q
  /\ bus' = [kind |-> "W", to |-> p, cfg |-> cfg_block[p]]
  /\ cfg_sent_crc' = [cfg_sent_crc EXCEPT ![p] = cfg_block[p]]
  /\ cfg_push_due' = [cfg_push_due EXCEPT ![p] = FALSE]
  /\ SetState(p, IF cfg_state[p] = "NOT_CONFIGURED" THEN "WAITING" ELSE cfg_state[p])
  /\ UNCHANGED <<cfg_block, panel_online, poll_idx, repush_idx, polled, panel,
                 trouble, edits>>

Poll ==
  /\ bus = None
  /\ Owed = {}
  /\ bus' = [kind |-> "F", to |-> poll_idx]
  /\ poll_idx' = After(poll_idx)
  /\ polled' = TRUE
  /\ UNCHANGED <<cfg_block, cfg_state, cfg_sent_crc, cfg_push_due, panel_online,
                 repush_idx, told, panel, trouble, edits>>

-----------------------------------------------------------------------------
(* The panel: rs485_handle *)

Asked(p, kind) == bus # None /\ bus.kind = kind /\ bus.to = p /\ up[p]

HandleF(p) ==
  /\ Asked(p, "F")
  /\ bus' = [kind |-> "f", from |-> p, configured |-> g_configured[p]]
  /\ UNCHANGED <<master, panel, trouble, edits>>

\* An old panel refuses a version it does not know.  One in 2^8 damaged frames
\* passes the bus's CRC-8: then the panel applies something else (seen).
HandleW(p, seen) ==
  /\ Asked(p, "W")
  /\ IF seen = bus.cfg THEN UNCHANGED trouble ELSE Costs
  /\ \/ /\ p \notin Old
        /\ g_cfg' = [g_cfg EXCEPT ![p] = seen]
        /\ g_configured' = [g_configured EXCEPT ![p] = TRUE]
        /\ misread' = [misread EXCEPT ![p] = seen # bus.cfg]
     \/ /\ p \in Old
        /\ UNCHANGED <<g_cfg, g_configured, misread>>
  /\ bus' = [kind |-> "w", from |-> p, applied |-> p \notin Old, crc |-> g_cfg'[p]]
  /\ UNCHANGED <<master, up, edits>>

\* Nobody answers: the reply window closes.
Silence ==
  /\ bus \in Request
  /\ ~up[bus.to]
  /\ bus' = None
  /\ UNCHANGED <<master, panel, trouble, edits>>

-----------------------------------------------------------------------------
(* Replies: parseRx *)

\* Mutant: what was sent is what counts.
AckSent(p, crc) == crc = cfg_sent_crc[p]

\* The CRC is that of the master's copy as it is now.
AckMatches(p, crc) == crc = cfg_block[p]

CfgAck(p) ==
  /\ bus # None
  /\ bus.kind = "w"
  /\ bus.from = p
  /\ bus' = None
  /\ \/ /\ ~bus.applied
        /\ SetState(p, "REJECTED_VERSION")
        /\ UNCHANGED cfg_push_due
     \/ /\ bus.applied
        /\ AckMatches(p, bus.crc)
        /\ SetState(p, "MATCH")
        /\ UNCHANGED cfg_push_due
     \/ /\ bus.applied
        /\ ~AckMatches(p, bus.crc)
        /\ bus.crc # cfg_sent_crc[p]
        /\ cfg_push_due' = [cfg_push_due EXCEPT ![p] = TRUE]
        /\ SetState(p, "WAITING")
     \/ /\ bus.applied
        /\ ~AckMatches(p, bus.crc)
        /\ bus.crc = cfg_sent_crc[p]
        /\ UNCHANGED <<cfg_state, told, cfg_push_due>>
  /\ UNCHANGED <<cfg_block, cfg_sent_crc, panel_online, poll_idx, repush_idx, polled,
                 panel, trouble, edits>>

\* panelSeen: it has just appeared, or it matched and has started again.
SeenOwed(p) ==
  ~panel_online[p] \/ (~bus.configured /\ cfg_state[p] = "MATCH")

PanelSeen(p) ==
  /\ bus # None
  /\ bus.kind = "f"
  /\ bus.from = p
  /\ bus' = None
  /\ panel_online' = [panel_online EXCEPT ![p] = TRUE]
  /\ \/ /\ SeenOwed(p)
        /\ cfg_push_due' = [cfg_push_due EXCEPT ![p] = TRUE]
        /\ SetState(p, IF bus.configured THEN "WAITING" ELSE "NOT_CONFIGURED")
     \/ /\ ~SeenOwed(p)
        /\ UNCHANGED <<cfg_state, told, cfg_push_due>>
  /\ UNCHANGED <<cfg_block, cfg_sent_crc, poll_idx, repush_idx, polled, panel,
                 trouble, edits>>

-----------------------------------------------------------------------------
(* What goes wrong *)

\* A request or a reply is not heard: the reply window closes.
Lost ==
  /\ bus # None
  /\ Costs
  /\ bus' = None
  /\ UNCHANGED <<master, panel, edits>>

PanelDown(p) ==
  /\ up[p]
  /\ Costs
  /\ up' = [up EXCEPT ![p] = FALSE]
  /\ UNCHANGED <<master, bus, g_cfg, g_configured, misread, edits>>

PanelUp(p) ==
  /\ ~up[p]
  /\ up' = [up EXCEPT ![p] = TRUE]
  /\ g_cfg' = [g_cfg EXCEPT ![p] = Defaults]
  /\ g_configured' = [g_configured EXCEPT ![p] = FALSE]
  /\ misread' = [misread EXCEPT ![p] = FALSE]
  /\ UNCHANGED <<master, bus, trouble, edits>>

\* updatePresence: no 'f' for a second, since the panel is down or its
\* replies are lost.
PanelTimeout(p) ==
  /\ panel_online[p]
  /\ \/ ~up[p] /\ UNCHANGED trouble
     \/ up[p] /\ Costs
  /\ panel_online' = [panel_online EXCEPT ![p] = FALSE]
  /\ SetState(p, "ABSENT")
  /\ UNCHANGED <<cfg_block, cfg_sent_crc, cfg_push_due, poll_idx, repush_idx, polled,
                 bus, panel, edits>>

\* The master starts again, with what it has saved.
MasterReboot ==
  /\ Costs
  /\ cfg_block' \in [Panels -> Configs]
  /\ cfg_state' = Fresh.state
  /\ cfg_sent_crc' = Fresh.sent
  /\ cfg_push_due' = Fresh.due
  /\ panel_online' = [p \in Panels |-> FALSE]
  /\ poll_idx' = 1
  /\ repush_idx' = 1
  /\ polled' = TRUE
  /\ told' = [p \in Panels |-> FALSE]
  /\ bus' = None
  /\ UNCHANGED <<panel, edits>>

-----------------------------------------------------------------------------
Traffic ==
  \/ \E p \in Panels : CfgSendPush(p) \/ HandleF(p) \/ CfgAck(p) \/ PanelSeen(p)
  \/ \E p \in Panels : \E seen \in Configs : HandleW(p, seen)
  \/ Poll \/ Silence

Next ==
  \/ Traffic
  \/ RePush
  \/ \E block \in [Panels -> Configs] : CfgChanged(block)
  \/ Lost
  \/ \E p \in Panels : PanelDown(p) \/ PanelUp(p) \/ PanelTimeout(p)
  \/ MasterReboot

Spec == Init /\ [][Next]_vars

\* loop() goes round: it sends, parses and times out, and panels that lose power
\* get it back.
Fairness ==
  /\ WF_vars(Traffic)
  /\ WF_vars(RePush)
  /\ \A p \in Panels : WF_vars(PanelUp(p))
FairSpec == Spec /\ Fairness

-----------------------------------------------------------------------------
(* Properties *)

\* Every variable keeps its type.
TypeOK ==
  /\ cfg_block \in [Panels -> Configs]
  /\ cfg_state \in [Panels -> States]
  /\ cfg_sent_crc \in [Panels -> Configs \cup {None}]
  /\ cfg_push_due \in [Panels -> BOOLEAN]
  /\ panel_online \in [Panels -> BOOLEAN]
  /\ poll_idx \in Panels
  /\ repush_idx \in Panels
  /\ polled \in BOOLEAN
  /\ told \in [Panels -> BOOLEAN]
  /\ bus \in Request \cup Reply \cup {None}
  /\ up \in [Panels -> BOOLEAN]
  /\ g_cfg \in [Panels -> Configs]
  /\ g_configured \in [Panels -> BOOLEAN]
  /\ misread \in [Panels -> BOOLEAN]
  /\ trouble \in Nat
  /\ edits \in Nat

\* "Only a 'w' whose CRC equals the master's copy counts as a match": a panel
\* said to match runs the copy, whatever changed while its 'W' or 'w' was under
\* way, unless it has started again since or has just misread a re-push.
MatchIsTrue ==
  \A p \in Panels : cfg_state[p] = "MATCH" /\ g_configured[p] /\ ~misread[p] =>
    g_cfg[p] = cfg_block[p]

\* "The copy has changed since; that push is already due" (cfgAck): a panel
\* that answers polls has been sent the copy as it is, or is owed it.
SentOrDue ==
  \A p \in Panels : panel_online[p] => cfg_push_due[p] \/ cfg_sent_crc[p] = cfg_block[p]

\* A match is news: the host that changed the copy has had an event for every
\* panel the master says runs it, so no stale "match" stands for the outcome.
MatchIsTold == \A p \in Panels : cfg_state[p] = "MATCH" => told[p]

\* Once nothing more goes wrong and nobody edits, every panel that knows the
\* version runs the copy and is known to.
AllConfigured ==
  <>[](\A p \in Panels \ Old : g_cfg[p] = cfg_block[p] /\ cfg_state[p] = "MATCH")

\* "Each panel's outcome follows as a config result event" (USB_PROTOCOL.md): a
\* panel that answers polls and has power is heard of after every change.
OutcomeFollows ==
  \A p \in Panels : (panel_online[p] /\ ~told[p]) ~> (told[p] \/ ~panel_online[p])
=============================================================================
