-------------------------- MODULE ConfigSync_proofs --------------------------
(***************************************************************************)
(* ConfigSync for any number of panels, configurations, lost and misread   *)
(* frames, restarts and edits: no panel is forgotten, and one said to      *)
(* match does.                                                             *)
(***************************************************************************)
EXTENDS ConfigSync, TLAPS

\* A 'w' under way has the CRC of what its panel runs, unless the panel has
\* started again since.
AckIsTrue ==
  bus # None /\ bus.kind = "w" =>
    (bus.applied /\ g_configured[bus.from] => bus.crc = g_cfg[bus.from])

\* A 'W' under way to a panel that matches is a re-push: it has the copy.
PushIsTrue ==
  bus # None /\ bus.kind = "W" =>
    (cfg_state[bus.to] = "MATCH" => bus.cfg = cfg_block[bus.to])

SyncInv == TypeOK /\ MatchIsTrue /\ AckIsTrue /\ PushIsTrue

-----------------------------------------------------------------------------
(* Types *)

LEMMA InitType == ASSUME SyncAssumption, Init PROVE TypeOK
BY DEF SyncAssumption, Init, Fresh, TypeOK, States, Panels

LEMMA AfterType == ASSUME SyncAssumption, NEW i \in Panels PROVE After(i) \in Panels
BY DEF SyncAssumption, Panels, After

LEMMA StepType == ASSUME SyncAssumption, TypeOK, [Next]_vars PROVE TypeOK'
<1> USE DEF TypeOK
<1>1. ASSUME NEW block \in [Panels -> Configs], CfgChanged(block) PROVE TypeOK'
  BY <1>1 DEF CfgChanged, OwedAll, Unmatched, States, panel
<1>2. CASE RePush
  BY <1>2, AfterType DEF RePush, RePushTo, panel
<1>3. ASSUME NEW p \in Panels, CfgSendPush(p) PROVE TypeOK'
  BY <1>3 DEF CfgSendPush, SetState, Owed, Request, States, panel
<1>4. CASE Poll
  BY <1>4, AfterType DEF Poll, Request, panel
<1>5. ASSUME NEW p \in Panels, HandleF(p) PROVE TypeOK'
  BY <1>5 DEF HandleF, Asked, Reply, master, panel
<1>6. ASSUME NEW p \in Panels, NEW seen \in Configs, HandleW(p, seen) PROVE TypeOK'
  <2>1. trouble' \in Nat
    BY <1>6 DEF HandleW, Costs
  <2>2. g_cfg' \in [Panels -> Configs] /\ bus' \in Reply
    BY <1>6 DEF HandleW, Asked, Reply
  <2> QED
    BY <1>6, <2>1, <2>2 DEF HandleW, master
<1>7. CASE Silence
  BY <1>7 DEF Silence, master, panel
<1>8. ASSUME NEW p \in Panels, CfgAck(p) PROVE TypeOK'
  BY <1>8 DEF CfgAck, SetState, States, panel
<1>9. ASSUME NEW p \in Panels, PanelSeen(p) PROVE TypeOK'
  BY <1>9 DEF PanelSeen, SetState, States, panel
<1>10. CASE Lost
  BY <1>10 DEF Lost, Costs, master, panel
<1>11. ASSUME NEW p \in Panels, PanelDown(p) PROVE TypeOK'
  BY <1>11 DEF PanelDown, Costs, master
<1>12. ASSUME NEW p \in Panels, PanelUp(p) PROVE TypeOK'
  BY <1>12 DEF PanelUp, master, SyncAssumption
<1>13. ASSUME NEW p \in Panels, PanelTimeout(p) PROVE TypeOK'
  BY <1>13 DEF PanelTimeout, SetState, States, Costs, panel
<1>14. CASE MasterReboot
  BY <1>14 DEF MasterReboot, Fresh, States, Costs, panel, SyncAssumption, Panels
<1>15. CASE UNCHANGED vars
  BY <1>15 DEF vars
<1> QED
  BY <1>1, <1>2, <1>3, <1>4, <1>5, <1>6, <1>7, <1>8, <1>9, <1>10, <1>11, <1>12,
     <1>13, <1>14, <1>15 DEF Next, Traffic

\* Every variable keeps its type.
THEOREM TypeCorrect == ASSUME SyncAssumption PROVE Spec => []TypeOK
<1>1. Init => TypeOK
  BY InitType
<1>2. TypeOK /\ [Next]_vars => TypeOK'
  BY StepType
<1> QED
  BY <1>1, <1>2, PTL DEF Spec

-----------------------------------------------------------------------------
(* No panel is forgotten *)

LEMMA StepSent ==
  ASSUME SyncAssumption, TypeOK, SentOrDue, [Next]_vars
  PROVE  SentOrDue'
<1> USE DEF TypeOK, SentOrDue
<1>1. ASSUME NEW block \in [Panels -> Configs], CfgChanged(block) PROVE SentOrDue'
  BY <1>1 DEF CfgChanged, OwedAll
<1>2. CASE RePush
  BY <1>2 DEF RePush
<1>3. ASSUME NEW p \in Panels, CfgSendPush(p) PROVE SentOrDue'
  BY <1>3 DEF CfgSendPush
<1>4. ASSUME NEW p \in Panels, CfgAck(p) PROVE SentOrDue'
  BY <1>4 DEF CfgAck
<1>5. ASSUME NEW p \in Panels, PanelSeen(p) PROVE SentOrDue'
  BY <1>5 DEF PanelSeen, SeenOwed
<1>6. ASSUME NEW p \in Panels, PanelTimeout(p) PROVE SentOrDue'
  BY <1>6 DEF PanelTimeout
<1>7. CASE MasterReboot
  BY <1>7 DEF MasterReboot
<1>8. CASE UNCHANGED <<cfg_block, cfg_sent_crc, cfg_push_due, panel_online>>
  BY <1>8
<1> QED
  BY <1>1, <1>2, <1>3, <1>4, <1>5, <1>6, <1>7, <1>8
     DEF Next, Traffic, Poll, HandleF, HandleW, Silence, Lost, PanelDown, PanelUp,
         master, vars

\* However frames are lost, whoever restarts and whenever the copy is edited, a
\* panel that answers polls has been sent the copy as it is, or is owed it.
THEOREM NoneForgotten == ASSUME SyncAssumption PROVE Spec => []SentOrDue
<1>1. Init => SentOrDue
  BY DEF Init, SentOrDue
<1>2. TypeOK /\ SentOrDue /\ [Next]_vars => SentOrDue'
  BY StepSent
<1>3. Spec => []TypeOK
  BY TypeCorrect
<1> QED
  BY <1>1, <1>2, <1>3, PTL DEF Spec

-----------------------------------------------------------------------------
(* A match is a match *)

\* What the steps of this proof use of the types.
Shaped ==
  /\ cfg_block \in [Panels -> Configs]
  /\ cfg_state \in [Panels -> States]
  /\ g_cfg \in [Panels -> Configs]
  /\ g_configured \in [Panels -> BOOLEAN]
  /\ misread \in [Panels -> BOOLEAN]
  /\ bus # None /\ bus.kind = "W" => bus.to \in Panels
  /\ bus # None /\ bus.kind = "w" => bus.from \in Panels

LEMMA TypeShapes == TypeOK => Shaped
<1> SUFFICES ASSUME TypeOK PROVE Shaped
  OBVIOUS
<1>1. ASSUME bus # None, bus.kind = "W" PROVE bus.to \in Panels
  BY <1>1 DEF TypeOK, Request, Reply
<1>2. ASSUME bus # None, bus.kind = "w" PROVE bus.from \in Panels
  BY <1>2 DEF TypeOK, Request, Reply
<1> QED
  BY <1>1, <1>2 DEF TypeOK, Shaped

\* An ended window or an unchanged bus leaves both bus facts to the variables.
LEMMA QuietBus ==
  ASSUME Shaped, AckIsTrue, PushIsTrue,
         bus' = None \/ bus' = bus \/ (bus' # None => bus'.kind \in {"F", "f"}),
         UNCHANGED <<cfg_block, cfg_state, g_cfg, g_configured>>
  PROVE  AckIsTrue' /\ PushIsTrue'
BY DEF AckIsTrue, PushIsTrue

LEMMA StepSync == ASSUME SyncAssumption, SyncInv, [Next]_vars PROVE SyncInv'
<1> DEFINE Rest == MatchIsTrue /\ AckIsTrue /\ PushIsTrue
<1>0. TypeOK' /\ Shaped /\ Rest
  BY StepType, TypeShapes DEF SyncInv
<1>a. ASSUME UNCHANGED <<cfg_block, cfg_state, g_cfg, g_configured, misread>>
      PROVE  MatchIsTrue'
  BY <1>a, <1>0 DEF MatchIsTrue
<1>b. ASSUME UNCHANGED <<cfg_block, cfg_state, g_cfg, g_configured, misread>>,
             bus' = None \/ bus' = bus \/ (bus' # None => bus'.kind \in {"F", "f"})
      PROVE  Rest'
  BY <1>a, <1>b, <1>0, QuietBus
<1>1. ASSUME NEW block \in [Panels -> Configs], CfgChanged(block) PROVE Rest'
  <2>1. \A q \in Panels : cfg_state'[q] # "MATCH"
    BY <1>1 DEF CfgChanged, Unmatched
  <2>2. UNCHANGED <<bus, g_cfg, g_configured>>
    BY <1>1 DEF CfgChanged, panel
  <2>3. MatchIsTrue'
    BY <2>1 DEF MatchIsTrue
  <2>4. AckIsTrue'
    BY <2>2, <1>0 DEF AckIsTrue
  <2>5. PushIsTrue'
    BY <2>1, <2>2, <1>0 DEF PushIsTrue, Shaped
  <2> QED
    BY <2>3, <2>4, <2>5
<1>2. CASE RePush
  BY <1>0, <1>2, <1>b DEF RePush, panel, SyncInv
<1>3. ASSUME NEW p \in Panels, CfgSendPush(p) PROVE Rest'
  <2>1. UNCHANGED <<cfg_block, g_cfg, g_configured, misread>>
    BY <1>3 DEF CfgSendPush, panel
  <2>2. \A q \in Panels : cfg_state'[q] = "MATCH" => cfg_state[q] = "MATCH"
    BY <1>3, <1>0 DEF CfgSendPush, SetState, Shaped
  <2>3. bus' = [kind |-> "W", to |-> p, cfg |-> cfg_block[p]]
    BY <1>3 DEF CfgSendPush
  <2>4. MatchIsTrue'
    BY <2>1, <2>2, <1>0 DEF MatchIsTrue
  <2>5. AckIsTrue' /\ PushIsTrue'
    BY <2>1, <2>3 DEF AckIsTrue, PushIsTrue
  <2> QED
    BY <2>4, <2>5
<1>4. CASE Poll
  <2>1. UNCHANGED <<cfg_block, cfg_state, g_cfg, g_configured, misread>>
    BY <1>4 DEF Poll, panel
  <2>2. bus'.kind = "F"
    BY <1>4 DEF Poll
  <2> QED
    BY <2>1, <2>2, <1>0, <1>b DEF SyncInv
<1>5. ASSUME NEW p \in Panels, HandleF(p) PROVE Rest'
  <2>1. UNCHANGED <<cfg_block, cfg_state, g_cfg, g_configured, misread>>
    BY <1>5 DEF HandleF, master, panel
  <2>2. bus'.kind = "f"
    BY <1>5 DEF HandleF
  <2> QED
    BY <2>1, <2>2, <1>b
<1>6. ASSUME NEW p \in Panels, NEW seen \in Configs, HandleW(p, seen) PROVE Rest'
  <2>1. bus # None /\ bus.kind = "W" /\ bus.to = p
    BY <1>6 DEF HandleW, Asked
  <2>2. UNCHANGED <<cfg_block, cfg_state>>
    BY <1>6 DEF HandleW, master
  <2>3. bus' = [kind |-> "w", from |-> p, applied |-> p \notin Old, crc |-> g_cfg'[p]]
    BY <1>6 DEF HandleW
  <2>4. AckIsTrue' /\ PushIsTrue'
    BY <2>3 DEF AckIsTrue, PushIsTrue
  <2>5. cfg_state[p] = "MATCH" => bus.cfg = cfg_block[p]
    BY <2>1, <1>0 DEF PushIsTrue
  <2>6. CASE p \in Old
    <3>1. UNCHANGED <<cfg_block, cfg_state, g_cfg, g_configured, misread>>
      BY <1>6, <2>2, <2>6 DEF HandleW
    <3> QED
      BY <3>1, <1>a, <2>4
  <2>7. CASE p \notin Old
    <3>1. /\ g_cfg' = [g_cfg EXCEPT ![p] = seen]
          /\ g_configured' = [g_configured EXCEPT ![p] = TRUE]
          /\ misread' = [misread EXCEPT ![p] = seen # bus.cfg]
      BY <1>6, <2>7 DEF HandleW
    <3>2. ASSUME NEW q \in Panels, cfg_state'[q] = "MATCH", g_configured'[q], ~misread'[q]
          PROVE  g_cfg'[q] = cfg_block'[q]
      <4>1. CASE q = p
        BY <4>1, <3>1, <3>2, <2>2, <2>5, <1>0 DEF Shaped
      <4>2. CASE q # p
        BY <4>2, <3>1, <3>2, <2>2, <1>0 DEF Shaped, MatchIsTrue
      <4> QED
        BY <4>1, <4>2
    <3> QED
      BY <3>2, <2>4 DEF MatchIsTrue
  <2> QED
    BY <2>6, <2>7
<1>7. ASSUME NEW p \in Panels, CfgAck(p) PROVE Rest'
  <2>1. UNCHANGED <<cfg_block, g_cfg, g_configured, misread>>
    BY <1>7 DEF CfgAck, panel
  <2>2. bus # None /\ bus.kind = "w" /\ bus.from = p /\ bus' = None
    BY <1>7 DEF CfgAck
  <2>3. ASSUME NEW q \in Panels, cfg_state'[q] = "MATCH"
        PROVE  \/ cfg_state[q] = "MATCH"
               \/ q = p /\ bus.applied /\ bus.crc = cfg_block[p]
    BY <1>7, <2>3, <1>0 DEF CfgAck, SetState, AckMatches, Shaped
  <2>4. MatchIsTrue'
    BY <2>1, <2>2, <2>3, <1>0 DEF MatchIsTrue, AckIsTrue
  <2>5. AckIsTrue' /\ PushIsTrue'
    BY <2>2 DEF AckIsTrue, PushIsTrue
  <2> QED
    BY <2>4, <2>5
<1>8. ASSUME NEW p \in Panels, PanelSeen(p) PROVE Rest'
  <2>1. UNCHANGED <<cfg_block, g_cfg, g_configured, misread>> /\ bus' = None
    BY <1>8 DEF PanelSeen, panel
  <2>2. \A q \in Panels : cfg_state'[q] = "MATCH" => cfg_state[q] = "MATCH"
    BY <1>8, <1>0 DEF PanelSeen, SetState, Shaped
  <2>3. MatchIsTrue'
    BY <2>1, <2>2, <1>0 DEF MatchIsTrue
  <2>4. AckIsTrue' /\ PushIsTrue'
    BY <2>1 DEF AckIsTrue, PushIsTrue
  <2> QED
    BY <2>3, <2>4
<1>9. ASSUME NEW p \in Panels, PanelDown(p) PROVE Rest'
  BY <1>9, <1>b DEF PanelDown, master
<1>10. ASSUME NEW p \in Panels, PanelUp(p) PROVE Rest'
  <2>1. UNCHANGED <<cfg_block, cfg_state, bus>>
    BY <1>10 DEF PanelUp, master
  <2>2. \A q \in Panels : g_configured'[q] => g_configured[q] /\ q # p
    BY <1>10, <1>0 DEF PanelUp, Shaped
  <2>3. \A q \in Panels : q # p => g_cfg'[q] = g_cfg[q] /\ misread'[q] = misread[q]
    BY <1>10, <1>0 DEF PanelUp, Shaped
  <2>4. MatchIsTrue'
    BY <2>1, <2>2, <2>3, <1>0 DEF MatchIsTrue
  <2>5. AckIsTrue'
    BY <2>1, <2>2, <2>3, <1>0 DEF AckIsTrue, Shaped
  <2>6. PushIsTrue'
    BY <2>1, <1>0 DEF PushIsTrue
  <2> QED
    BY <2>4, <2>5, <2>6
<1>11. ASSUME NEW p \in Panels, PanelTimeout(p) PROVE Rest'
  <2>1. UNCHANGED <<cfg_block, g_cfg, g_configured, misread, bus>>
    BY <1>11 DEF PanelTimeout, panel
  <2>2. \A q \in Panels : cfg_state'[q] = "MATCH" => cfg_state[q] = "MATCH"
    BY <1>11, <1>0 DEF PanelTimeout, SetState, Shaped
  <2>3. MatchIsTrue'
    BY <2>1, <2>2, <1>0 DEF MatchIsTrue
  <2>4. AckIsTrue'
    BY <2>1, <1>0 DEF AckIsTrue
  <2>5. PushIsTrue'
    BY <2>1, <2>2, <1>0 DEF PushIsTrue, Shaped
  <2> QED
    BY <2>3, <2>4, <2>5
<1>12. CASE MasterReboot
  <2>1. bus' = None /\ \A q \in Panels : cfg_state'[q] # "MATCH"
    BY <1>12 DEF MasterReboot, Fresh
  <2> QED
    BY <2>1, <1>0 DEF SyncInv, MatchIsTrue, AckIsTrue, PushIsTrue
<1>13. CASE Silence \/ Lost
  BY <1>0, <1>13, <1>b DEF Silence, Lost, master, panel, SyncInv
<1>14. CASE UNCHANGED vars
  BY <1>0, <1>14, <1>b DEF vars, SyncInv
<1> QED
  BY <1>0, <1>1, <1>2, <1>3, <1>4, <1>5, <1>6, <1>7, <1>8, <1>9, <1>10, <1>11,
     <1>12, <1>13, <1>14 DEF Next, Traffic, SyncInv

LEMMA SyncInvKept == ASSUME SyncAssumption PROVE Spec => []SyncInv
<1>1. Init => SyncInv
  BY InitType DEF Init, Fresh, SyncInv, MatchIsTrue, AckIsTrue, PushIsTrue
<1>2. SyncInv /\ [Next]_vars => SyncInv'
  BY StepSync
<1> QED
  BY <1>1, <1>2, PTL DEF Spec

\* A panel the master says matches runs the master's copy, unless it has started
\* again since or has just misread a re-push.
THEOREM MatchAlwaysTrue == ASSUME SyncAssumption PROVE Spec => []MatchIsTrue
<1>1. SyncInv => MatchIsTrue
  BY DEF SyncInv
<1> QED
  BY <1>1, SyncInvKept, PTL

-----------------------------------------------------------------------------
(* A match is news *)

\* A state that is new has its event.
LEMMA SetTells ==
  ASSUME NEW p \in Panels, NEW s \in States, TypeOK, MatchIsTold, SetState(p, s)
  PROVE  MatchIsTold'
BY DEF TypeOK, MatchIsTold, SetState

LEMMA StepTold ==
  ASSUME SyncAssumption, TypeOK, MatchIsTold, [Next]_vars
  PROVE  MatchIsTold'
<1>1. ASSUME NEW block \in [Panels -> Configs], CfgChanged(block) PROVE MatchIsTold'
  <2>1. \A q \in Panels : cfg_state'[q] # "MATCH"
    BY <1>1 DEF CfgChanged, Unmatched
  <2> QED
    BY <2>1 DEF MatchIsTold
<1>2. ASSUME NEW p \in Panels, CfgSendPush(p) PROVE MatchIsTold'
  <2>1. PICK s \in States : SetState(p, s)
    BY <1>2 DEF CfgSendPush, TypeOK, States
  <2> QED
    BY <2>1, SetTells
<1>3. ASSUME NEW p \in Panels, CfgAck(p) PROVE MatchIsTold'
  <2>1. (\E s \in States : SetState(p, s)) \/ UNCHANGED <<cfg_state, told>>
    BY <1>3 DEF CfgAck, States
  <2> QED
    BY <2>1, SetTells DEF MatchIsTold
<1>4. ASSUME NEW p \in Panels, PanelSeen(p) PROVE MatchIsTold'
  <2>1. (\E s \in States : SetState(p, s)) \/ UNCHANGED <<cfg_state, told>>
    BY <1>4 DEF PanelSeen, States
  <2> QED
    BY <2>1, SetTells DEF MatchIsTold
<1>5. ASSUME NEW p \in Panels, PanelTimeout(p) PROVE MatchIsTold'
  <2>1. SetState(p, "ABSENT")
    BY <1>5 DEF PanelTimeout
  <2> QED
    BY <2>1, SetTells DEF States
<1>6. CASE MasterReboot
  BY <1>6 DEF MasterReboot, Fresh, MatchIsTold
<1>7. CASE UNCHANGED <<cfg_state, told>>
  BY <1>7 DEF MatchIsTold
<1> QED
  BY <1>1, <1>2, <1>3, <1>4, <1>5, <1>6, <1>7
     DEF Next, Traffic, Poll, HandleF, HandleW, RePush, Silence, Lost, PanelDown,
         PanelUp, master, vars

\* Not every outcome of an edit is followed by an event (a panel that rejects
\* two configs in a row is silent), but a match always is.
THEOREM MatchAlwaysTold == ASSUME SyncAssumption PROVE Spec => []MatchIsTold
<1>1. Init => MatchIsTold
  BY DEF Init, Fresh, MatchIsTold
<1>2. TypeOK /\ MatchIsTold /\ [Next]_vars => MatchIsTold'
  BY StepTold
<1>3. Spec => []TypeOK
  BY TypeCorrect
<1> QED
  BY <1>1, <1>2, <1>3, PTL DEF Spec

-----------------------------------------------------------------------------
(* A match stays *)

\* Panel p is up, is taken to be, runs what it was sent and is known to.
InStep(p) ==
  /\ up[p] /\ panel_online[p]
  /\ cfg_state[p] = "MATCH" /\ g_configured[p] /\ ~misread[p]

\* Nothing goes wrong in this step and nobody edits the copy.
Undisturbed == UNCHANGED <<trouble, edits>>

StaysInStep == \A p \in Panels \ Old : InStep(p) /\ Undisturbed => InStep(p)'

\* A panel that is configured has not just answered that it is not, and only an
\* old one refuses a version.
ReplyIsTrue ==
  /\ bus # None /\ bus.kind = "f" => (g_configured[bus.from] => bus.configured)
  /\ bus # None /\ bus.kind = "w" => (bus.from \notin Old => bus.applied)

LEMMA StepReply ==
  ASSUME SyncAssumption, TypeOK, ReplyIsTrue, [Next]_vars
  PROVE  ReplyIsTrue'
<1> USE DEF ReplyIsTrue
<1>1. ASSUME NEW p \in Panels, HandleF(p) PROVE ReplyIsTrue'
  BY <1>1 DEF HandleF, panel
<1>2. ASSUME NEW p \in Panels, NEW seen \in Configs, HandleW(p, seen) PROVE ReplyIsTrue'
  BY <1>2 DEF HandleW
<1>3. ASSUME NEW p \in Panels, PanelUp(p) PROVE ReplyIsTrue'
  <2>1. UNCHANGED bus
    BY <1>3 DEF PanelUp
  <2>2. \A q \in Panels : g_configured'[q] => g_configured[q]
    BY <1>3 DEF PanelUp, TypeOK
  <2>3. bus # None /\ bus.kind = "f" => bus.from \in Panels
    BY DEF TypeOK, Request, Reply
  <2> QED
    BY <2>1, <2>2, <2>3
<1>4. ASSUME bus' = None \/ (bus' # None => bus'.kind \in {"W", "F"}) PROVE ReplyIsTrue'
  BY <1>4
<1>5. ASSUME UNCHANGED <<bus, g_configured>> PROVE ReplyIsTrue'
  BY <1>5
<1>6. CASE Traffic
  <2>1. ASSUME NEW p \in Panels, CfgSendPush(p) PROVE bus'.kind = "W"
    BY <2>1 DEF CfgSendPush
  <2>2. ASSUME Poll PROVE bus'.kind = "F"
    BY <2>2 DEF Poll
  <2>3. ASSUME Silence \/ \E p \in Panels : CfgAck(p) \/ PanelSeen(p) PROVE bus' = None
    BY <2>3 DEF Silence, CfgAck, PanelSeen
  <2> QED
    BY <1>1, <1>2, <1>4, <1>6, <2>1, <2>2, <2>3 DEF Traffic
<1>7. CASE Lost \/ MasterReboot
  BY <1>4, <1>7 DEF Lost, MasterReboot
<1>8. CASE RePush \/ \E block \in [Panels -> Configs] : CfgChanged(block)
  BY <1>5, <1>8 DEF RePush, CfgChanged, panel
<1>9. CASE \E p \in Panels : PanelDown(p) \/ PanelTimeout(p)
  BY <1>5, <1>9 DEF PanelDown, PanelTimeout, panel
<1>10. CASE UNCHANGED vars
  BY <1>5, <1>10 DEF vars
<1> QED
  BY <1>3, <1>6, <1>7, <1>8, <1>9, <1>10 DEF Next

\* What goes wrong is counted.
LEMMA TroubleCounts == ASSUME TypeOK, Undisturbed PROVE ~Costs
BY DEF TypeOK, Undisturbed, Costs

\* The replies of a panel in step.
LEMMA AnswersInStep ==
  ASSUME SyncAssumption, SyncInv, ReplyIsTrue, NEW p \in Panels \ Old, InStep(p),
         NEW q \in Panels, CfgAck(q) \/ PanelSeen(q)
  PROVE  InStep(p)'
<1>0. cfg_state \in [Panels -> States] /\ panel_online \in [Panels -> BOOLEAN]
  BY DEF SyncInv, TypeOK
<1>1. UNCHANGED panel
  BY DEF CfgAck, PanelSeen
<1>2. ASSUME cfg_state'[p] = "MATCH", panel_online'[p] PROVE InStep(p)'
  BY <1>1, <1>2 DEF InStep, panel
<1>3. CASE q # p
  BY <1>0, <1>2, <1>3 DEF CfgAck, PanelSeen, SetState, InStep
<1>4. CASE q = p /\ CfgAck(q)
  <2>1. bus.applied /\ bus.crc = g_cfg[p]
    BY <1>4 DEF CfgAck, ReplyIsTrue, SyncInv, AckIsTrue, InStep
  <2>2. AckMatches(p, bus.crc)
    BY <2>1 DEF AckMatches, SyncInv, MatchIsTrue, InStep
  <2>3. SetState(p, "MATCH") /\ UNCHANGED panel_online
    BY <1>4, <2>1, <2>2 DEF CfgAck
  <2> QED
    BY <1>0, <1>2, <2>3 DEF SetState, InStep
<1>5. CASE q = p /\ PanelSeen(q)
  <2>1. ~SeenOwed(p)
    BY <1>5 DEF PanelSeen, SeenOwed, ReplyIsTrue, InStep
  <2> QED
    BY <1>0, <1>2, <1>5, <2>1 DEF PanelSeen, InStep
<1> QED
  BY <1>3, <1>4, <1>5

LEMMA StepStays ==
  ASSUME SyncAssumption, SyncInv, ReplyIsTrue, Next, Undisturbed,
         NEW p \in Panels \ Old, InStep(p)
  PROVE  InStep(p)'
<1>0. /\ cfg_state \in [Panels -> States] /\ up \in [Panels -> BOOLEAN]
      /\ g_configured \in [Panels -> BOOLEAN] /\ misread \in [Panels -> BOOLEAN]
      /\ edits \in Nat
  BY DEF SyncInv, TypeOK
<1>1. ~Costs
  BY TroubleCounts DEF SyncInv
<1>2. ASSUME UNCHANGED <<up, panel_online, cfg_state, g_configured, misread>> PROVE InStep(p)'
  BY <1>2 DEF InStep
<1>3. ASSUME NEW q \in Panels, CfgSendPush(q) PROVE InStep(p)'
  <2>1. cfg_state'[p] = "MATCH"
    BY <1>0, <1>3 DEF CfgSendPush, SetState, InStep
  <2> QED
    BY <1>3, <2>1 DEF CfgSendPush, panel, InStep
<1>4. ASSUME NEW q \in Panels, NEW seen \in Configs, HandleW(q, seen) PROVE InStep(p)'
  <2>1. seen = bus.cfg
    BY <1>1, <1>4 DEF HandleW
  <2>2. UNCHANGED <<up, panel_online, cfg_state>>
    BY <1>4 DEF HandleW, master
  <2>3. g_configured'[p] /\ ~misread'[p]
    BY <1>0, <1>4, <2>1 DEF HandleW, InStep
  <2> QED
    BY <2>2, <2>3 DEF InStep
<1>5. ASSUME NEW q \in Panels, PanelUp(q) PROVE InStep(p)'
  <2>1. q # p
    BY <1>5 DEF PanelUp, InStep
  <2> QED
    BY <1>0, <1>5, <2>1 DEF PanelUp, master, InStep
<1>6. ASSUME NEW q \in Panels, PanelTimeout(q) PROVE InStep(p)'
  <2>1. ~up[q]
    BY <1>1, <1>6 DEF PanelTimeout
  <2>2. q # p
    BY <2>1 DEF InStep
  <2> QED
    BY <1>6, <2>2 DEF PanelTimeout, SetState, panel, InStep, SyncInv, TypeOK
<1>7. CASE Poll \/ Silence \/ RePush \/ \E q \in Panels : HandleF(q)
  BY <1>2, <1>7 DEF Poll, Silence, RePush, HandleF, master, panel
<1>8. ~\E block \in [Panels -> Configs] : CfgChanged(block)
  BY <1>0 DEF CfgChanged, Undisturbed
<1>9. ~(Lost \/ MasterReboot \/ \E q \in Panels : PanelDown(q))
  BY <1>1 DEF Lost, MasterReboot, PanelDown
<1> QED
  BY <1>3, <1>4, <1>5, <1>6, <1>7, <1>8, <1>9, AnswersInStep DEF Next, Traffic

\* Once a panel is in step it stays so until something goes wrong or the copy
\* is edited: polls, re-pushes, their acknowledgements, and whatever was still under way
\* when it came into step, never make the master take it for unconfigured again.
THEOREM AlwaysStaysInStep == ASSUME SyncAssumption PROVE Spec => [][StaysInStep]_vars
<1>1. Init => ReplyIsTrue
  BY DEF Init, ReplyIsTrue
<1>2. TypeOK /\ ReplyIsTrue /\ [Next]_vars => ReplyIsTrue'
  BY StepReply
<1>3. Spec => []ReplyIsTrue
  BY <1>1, <1>2, TypeCorrect, PTL DEF Spec
<1>4. SyncInv /\ ReplyIsTrue /\ [Next]_vars => [StaysInStep]_vars
  BY StepStays DEF StaysInStep
<1> QED
  BY <1>3, <1>4, SyncInvKept, PTL DEF Spec
=============================================================================
