-------------------------- MODULE FieldUpdate_proofs --------------------------
(***************************************************************************)
(* FieldUpdate for any number of panels, images and blocks, any number of  *)
(* runs and anything that may go wrong in them: success is true, and       *)
(* nothing is installed before every target is ready, however late the     *)
(* replies are that the tool goes by.  And what keeps two claims of the    *)
(* documentation true that do not always hold: that every panel hears how  *)
(* a run ends, and that a run begins on a pad whose panels agree.          *)
(***************************************************************************)
EXTENDS FieldUpdate, FiniteSetTheorems, SequenceTheorems, TLAPS

Reply == [st : States, missing : SUBSET Blocks]

-----------------------------------------------------------------------------
(* Types *)

LEMMA CostsType == ASSUME TypeOK, Costs PROVE trouble' \in Nat
BY DEF TypeOK, Costs

LEMMA HeardType ==
  ASSUME TypeOK, NEW kind, NEW All, NEW Got, Heard(kind, All, Got)
  PROVE  trouble' \in Nat
BY CostsType DEF Heard, TypeOK

Panel ==
  /\ app \in [Panels -> Images]
  /\ pend \in [Panels -> Images \cup {NoImage}]
  /\ held \in [Panels -> BOOLEAN]
  /\ st \in [Panels -> States]
  /\ up \in [Panels -> Images \cup {NoImage}]
  /\ got \in [Panels -> [Blocks -> Data \cup {NoData}]]

LEMMA RestartType ==
  ASSUME TypeOK, NEW By, NEW hold \in BOOLEAN, NEW Bad, Restart(By, hold, Bad)
  PROVE  Panel'
<1>1. app' \in [Panels -> Images]
  BY DEF TypeOK, Restart, Resumable
<1>2. pend' \in [Panels -> Images \cup {NoImage}]
  BY DEF TypeOK, Restart
<1>3. held' \in [Panels -> BOOLEAN]
  BY DEF TypeOK, Restart
<1> QED
  BY <1>1, <1>2, <1>3 DEF TypeOK, Panel, Restart, Forget, States

LEMMA ExitType == ASSUME TypeOK, NEW By, DoExit(By) PROVE Panel'
BY DEF TypeOK, Panel, DoExit, Forget, States

LEMMA BeginType == ASSUME TypeOK, NEW By, DoBegin(By) PROVE Panel'
BY DEF TypeOK, Panel, DoBegin, States, NoBlocks

LEMMA DataType == ASSUME UpdateAssumption, TypeOK, NEW By, DoData(By) PROVE Panel'
<1>1. \A b \in Blocks : Content[img][b] \in Data
  BY DEF Data, TypeOK
<1>2. got' \in [Panels -> [Blocks -> Data \cup {NoData}]]
  BY <1>1 DEF DoData, TypeOK
<1>3. st' \in [Panels -> States]
  BY DEF DoData, TypeOK, States
<1> QED
  BY <1>2, <1>3 DEF DoData, TypeOK, Panel

LEMMA ActivateType ==
  ASSUME TypeOK, NEW All, NEW By, NEW Bad, Activate(All, By, Bad)
  PROVE  Panel' /\ trouble' \in Nat
<1>1. app' \in [Panels -> Images]
  BY DEF Activate, DoActivate, Activates, TypeOK
<1>2. pend' \in [Panels -> Images \cup {NoImage}]
  BY DEF Activate, DoActivate, Activates, TypeOK
<1>3. st' \in [Panels -> States]
  BY DEF Activate, DoActivate, TypeOK, States
<1>4. trouble' \in Nat
  BY CostsType DEF Activate, TypeOK
<1> QED
  BY <1>1, <1>2, <1>3, <1>4 DEF Activate, DoActivate, TypeOK, Panel

LEMMA SameType == ASSUME TypeOK, UNCHANGED panel PROVE Panel'
BY DEF TypeOK, Panel, panel

\* What the host finds is what was late, with what the panel says now behind it.
LEMMA RepliesType ==
  ASSUME TypeOK, NEW p \in Panels
  PROVE  /\ late[p] \in Seq(Reply) /\ Replies(p) \in Seq(Reply)
         /\ Status(p) \in Reply /\ Status(p).st = st[p]
         /\ Replies(p) \in {late[p], Append(late[p], Status(p))}
<1>1. Status(p) \in Reply /\ Status(p).st = st[p]
  BY DEF Status, Missing, Reply, TypeOK
<1>2. late[p] \in Seq(Reply)
  BY DEF TypeOK, Reply
<1> QED
  BY <1>1, <1>2 DEF Replies

LateMoves ==
  \A q \in Panels :
    \/ late'[q] \in {late[q], Replies(q)}
    \/ Replies(q) # <<>> /\ late'[q] = Tail(Replies(q))

LEMMA ReadsMoves ==
  ASSUME TypeOK, NEW p \in Panels, Reads(p)
  PROVE  /\ late' \in [Panels -> Seq(Reply)] /\ LateMoves
         /\ late'[p] = Tail(Replies(p)) /\ Replies(p) # <<>>
         /\ \A q \in Panels : q # p => late'[q] = late[q]
<1>1. late \in [Panels -> Seq(Reply)]
  BY DEF TypeOK, Reply
<1>2. Replies(p) \in Seq(Reply) /\ Replies(p) # <<>>
  BY RepliesType DEF Reads
<1>3. Tail(Replies(p)) \in Seq(Reply)
  BY <1>2, HeadTailProperties
<1> QED
  BY <1>1, <1>2, <1>3 DEF Reads, LateMoves

LEMMA TimesOutMoves ==
  ASSUME TypeOK, NEW p \in Panels, TimesOut(p)
  PROVE  /\ late' \in [Panels -> Seq(Reply)] /\ LateMoves /\ trouble' \in Nat
         /\ \A q \in Panels : q # p => late'[q] = late[q]
<1>1. late \in [Panels -> Seq(Reply)] /\ Replies(p) \in Seq(Reply)
  BY RepliesType DEF TypeOK, Reply
<1>2. trouble' \in Nat
  BY CostsType DEF TimesOut, TypeOK
<1>3. late' \in {late, [late EXCEPT ![p] = Replies(p)]}
  BY DEF TimesOut
<1> QED
  BY <1>1, <1>2, <1>3 DEF LateMoves

LEMMA InitType == ASSUME UpdateAssumption, Init PROVE TypeOK
<1>1. late \in [Panels -> Seq([st : States, missing : SUBSET Blocks])]
  BY DEF Init
<1>2. got \in [Panels -> [Blocks -> Data \cup {NoData}]]
  BY DEF Init, NoBlocks
<1>3. /\ app \in [Panels -> Images] /\ held \in [Panels -> BOOLEAN]
      /\ pend \in [Panels -> Images \cup {NoImage}]
      /\ st \in [Panels -> States] /\ up \in [Panels -> Images \cup {NoImage}]
  BY DEF Init, UpdateAssumption, States
<1>4. pc \in Pcs /\ img \in Images
  BY DEF Init, UpdateAssumption, Pcs
<1>5. present \subseteq Panels /\ targets \subseteq present /\ seen \subseteq Panels
  BY DEF Init
<1>6. history \in [Panels -> Seq(Nat)]
  BY DEF Init, NoHistory
<1> QED
  BY <1>1, <1>2, <1>3, <1>4, <1>5, <1>6 DEF Init, TypeOK

LEMMA CountedType ==
  ASSUME UpdateAssumption, TypeOK, NEW p \in Panels, NEW m \in SUBSET Blocks
  PROVE  Counted(p, m) \in Seq(Nat)
<1>1. Cardinality(m) \in Nat
  BY FS_Subset, FS_CardinalityType DEF UpdateAssumption
<1>2. history[p] \in Seq(Nat)
  BY DEF TypeOK
<1> DEFINE h == Append(history[p], Cardinality(m))
<1>3. h \in Seq(Nat) /\ h # <<>>
  BY <1>1, <1>2
<1>4. Tail(h) \in Seq(Nat)
  BY <1>3
<1> QED
  BY <1>3, <1>4 DEF Counted

LEMMA HistoryType ==
  ASSUME UpdateAssumption, TypeOK, [Next]_vars
  PROVE  history' \in [Panels -> Seq(Nat)]
<1>0. history \in [Panels -> Seq(Nat)] /\ targets \subseteq Panels
  BY DEF TypeOK
<1>1. ASSUME UNCHANGED history \/ history' = NoHistory
      PROVE  history' \in [Panels -> Seq(Nat)]
  <2>1. CASE UNCHANGED history
    BY <1>0, <2>1
  <2>2. CASE history' = NoHistory
    BY <2>2 DEF NoHistory
  <2> QED
    BY <1>1, <2>1, <2>2
<1>2. ASSUME NEW p \in Panels, PollResend(p) PROVE history' \in [Panels -> Seq(Nat)]
  <2>1. Replies(p) \in Seq(Reply) /\ Replies(p) # <<>>
    BY <1>2, RepliesType DEF PollResend, Reads
  <2>2. Answer(p) \in Reply
    BY <2>1 DEF Answer
  <2>4. Answer(p).missing \in SUBSET Blocks
    BY <2>2 DEF Reply
  <2>3. Counted(p, Answer(p).missing) \in Seq(Nat)
    BY <2>4, CountedType
  <2> QED
    BY <1>0, <1>1, <1>2, <2>3 DEF PollResend
<1>3. ASSUME NEW p \in Panels, PollDone(p) PROVE UNCHANGED history \/ history' = NoHistory
  BY <1>3 DEF PollDone
<1> QED
  BY <1>1, <1>2, <1>3
     DEF Next, Tool, Hold, Survey, EndSurvey, Begin, Stream, Commit, PollSilent, Fails, GivesUp,
         Deadline, Abandon, Release, Interrupt, StartRun, PanelReset, vars

LEMMA AbandonType ==
  ASSUME TypeOK, NEW By, Abandon(By)
  PROVE  Panel' /\ trouble' \in Nat /\ pc' = "idle"
         /\ UNCHANGED <<img, present, targets, seen, committed, runs>>
<1>1. CASE committed
  BY <1>1, SameType DEF Abandon, TypeOK
<1>2. CASE ~committed
  BY <1>2, ExitType, HeardType DEF Abandon
<1> QED
  BY <1>1, <1>2 DEF Abandon

Rest == /\ pc' \in Pcs /\ img' \in Images
        /\ present' \subseteq Panels /\ targets' \subseteq present' /\ seen' \subseteq Panels
        /\ committed' \in BOOLEAN /\ trouble' \in Nat /\ runs' \in Nat

LEMMA Typed ==
  ASSUME Panel', Rest, late' \in [Panels -> Seq(Reply)], history' \in [Panels -> Seq(Nat)]
  PROVE  TypeOK'
BY DEF Panel, Rest, TypeOK, Reply

LEMMA ToolType == ASSUME UpdateAssumption, TypeOK, Tool PROVE TypeOK'
<1>0. late \in [Panels -> Seq(Reply)] /\ history' \in [Panels -> Seq(Nat)]
  BY HistoryType DEF TypeOK, Reply, Next
<1>1. ASSUME NEW By \in SUBSET Panels, Hold(By) PROVE TypeOK'
  <2>1. Panel' /\ trouble' \in Nat
    BY <1>1, RestartType, HeardType DEF Hold
  <2>2. Rest
    BY <1>1, <2>1 DEF Hold, Rest, TypeOK, Pcs
  <2> QED
    BY <1>0, <1>1, <2>1, <2>2, Typed DEF Hold
<1>2. ASSUME NEW p \in Panels, Survey(p) PROVE TypeOK'
  <2>1. Panel'
    BY <1>2, SameType DEF Survey
  <2>2. late' \in [Panels -> Seq(Reply)] /\ trouble' \in Nat
    <3>1. CASE Reads(p) /\ UNCHANGED trouble
      BY <3>1, ReadsMoves DEF TypeOK
    <3>2. CASE Costs /\ late' = [late EXCEPT ![p] = Replies(p)]
      BY <1>0, <3>2, CostsType, RepliesType
    <3>3. CASE TimesOut(p)
      BY <3>3, TimesOutMoves
    <3> QED
      BY <1>2, <3>1, <3>2, <3>3 DEF Survey
  <2>3. Rest
    BY <1>2, <2>2 DEF Survey, Rest, TypeOK
  <2> QED
    BY <1>0, <2>1, <2>2, <2>3, Typed
<1>3. ASSUME NEW force \in BOOLEAN, EndSurvey(force) PROVE TypeOK'
  <2>1. Panel'
    BY <1>3, SameType DEF EndSurvey
  <2>2. Rest
    BY <1>3 DEF EndSurvey, Rest, TypeOK, Pcs
  <2> QED
    BY <1>0, <1>3, <2>1, <2>2, Typed DEF EndSurvey
<1>4. ASSUME NEW By \in SUBSET targets, Begin(By) PROVE TypeOK'
  <2>1. Panel' /\ trouble' \in Nat
    BY <1>4, BeginType, HeardType DEF Begin
  <2>2. Rest
    BY <1>4, <2>1 DEF Begin, Rest, TypeOK, Pcs
  <2> QED
    BY <1>0, <1>4, <2>1, <2>2, Typed DEF Begin
<1>5. ASSUME NEW By \in SUBSET targets, Commit(By) PROVE TypeOK'
  <2>1. Panel' /\ trouble' \in Nat
    BY <1>5, ActivateType DEF Commit
  <2>2. Rest
    BY <1>5, <2>1 DEF Commit, Rest, TypeOK, Pcs
  <2> QED
    BY <1>0, <1>5, <2>1, <2>2, Typed DEF Commit
<1>6. ASSUME NEW By \in SUBSET (Panels \X Blocks), Stream(By) PROVE TypeOK'
  <2>1. Panel' /\ trouble' \in Nat
    BY <1>6, DataType, HeardType DEF Stream
  <2>2. Rest
    BY <1>6, <2>1 DEF Stream, Rest, TypeOK, Pcs
  <2> QED
    BY <1>0, <1>6, <2>1, <2>2, Typed DEF Stream
<1>7. ASSUME NEW p \in Panels, PollDone(p) PROVE TypeOK'
  <2>1. Panel' /\ late' \in [Panels -> Seq(Reply)]
    BY <1>7, SameType, ReadsMoves DEF PollDone
  <2>2. After(pc) \in Pcs
    BY <1>7 DEF PollDone, Polled, After, Pcs
  <2>3. Rest
    BY <1>7, <2>2 DEF PollDone, Rest, TypeOK
  <2> QED
    BY <1>0, <2>1, <2>3, Typed
<1>8. ASSUME NEW p \in Panels, PollResend(p) PROVE TypeOK'
  <2>1. Panel' /\ trouble' \in Nat
    <3>1. ASSUME NEW By, Heard("U", {p}, By), DoBegin(By) PROVE Panel' /\ trouble' \in Nat
      BY <3>1, BeginType, HeardType
    <3>2. ASSUME NEW By, NEW All, Heard("D", All, By), DoData(By)
          PROVE Panel' /\ trouble' \in Nat
      BY <3>2, DataType, HeardType
    <3>3. ASSUME NEW By, NEW Bad, Activate({p}, By, Bad) PROVE Panel' /\ trouble' \in Nat
      BY <3>3, ActivateType
    <3>4. ASSUME UNCHANGED <<panel, trouble>> PROVE Panel' /\ trouble' \in Nat
      BY <3>4, SameType DEF TypeOK
    <3> QED
      BY <1>8, <3>1, <3>2, <3>3, <3>4 DEF PollResend
  <2>2. late' \in [Panels -> Seq(Reply)]
    BY <1>8, ReadsMoves DEF PollResend
  <2>3. Rest
    BY <1>8, <2>1 DEF PollResend, Rest, TypeOK
  <2> QED
    BY <1>0, <2>1, <2>2, <2>3, Typed
<1>9. ASSUME NEW p \in Panels, PollSilent(p) PROVE TypeOK'
  <2>1. Panel'
    BY <1>9, SameType DEF PollSilent
  <2>2. late' \in [Panels -> Seq(Reply)] /\ trouble' \in Nat
    BY <1>9, TimesOutMoves DEF PollSilent
  <2>3. Rest
    BY <1>9, <2>2 DEF PollSilent, Rest, TypeOK
  <2> QED
    BY <1>0, <2>1, <2>2, <2>3, Typed
<1>10. ASSUME NEW By \in SUBSET Panels, Fails(By) \/ GivesUp(By) \/ Deadline(By) PROVE TypeOK'
  <2>1. Panel' /\ trouble' \in Nat /\ Rest
    BY <1>10, AbandonType DEF Fails, GivesUp, Deadline, Rest, TypeOK, Pcs
  <2>2. late' \in [Panels -> Seq(Reply)]
    <3>1. ASSUME NEW p \in targets, Reads(p) PROVE late' \in [Panels -> Seq(Reply)]
      BY <3>1, ReadsMoves DEF TypeOK
    <3> QED
      BY <1>0, <1>10, <3>1 DEF Fails, GivesUp, Deadline
  <2> QED
    BY <1>0, <2>1, <2>2, Typed
<1>11. ASSUME NEW By \in SUBSET Panels, Release(By) PROVE TypeOK'
  <2>1. Panel' /\ trouble' \in Nat
    BY <1>11, ExitType, HeardType DEF Release
  <2>2. Rest
    BY <1>11, <2>1 DEF Release, Rest, TypeOK, Pcs
  <2> QED
    BY <1>0, <1>11, <2>1, <2>2, Typed DEF Release
<1> QED
  BY <1>1, <1>2, <1>3, <1>4, <1>5, <1>6, <1>7, <1>8, <1>9, <1>10, <1>11 DEF Tool

LEMMA StepType == ASSUME UpdateAssumption, TypeOK, [Next]_vars PROVE TypeOK'
<1>0. late \in [Panels -> Seq(Reply)] /\ history' \in [Panels -> Seq(Nat)]
  BY HistoryType DEF TypeOK, Reply
<1>1. ASSUME NEW i \in Images, StartRun(i) PROVE TypeOK'
  <2>1. Panel'
    BY <1>1, SameType DEF StartRun
  <2>2. late' \in [Panels -> Seq(Reply)]
    BY <1>1 DEF StartRun
  <2>3. Rest
    <3>1. present' = {} /\ targets' = {} /\ seen' = {}
      BY <1>1 DEF StartRun
    <3>2. pc' \in Pcs /\ img' \in Images /\ committed' \in BOOLEAN
      BY <1>1 DEF StartRun, Pcs
    <3>3. trouble' \in Nat /\ runs' \in Nat
      BY <1>1 DEF StartRun, TypeOK
    <3> QED
      BY <3>1, <3>2, <3>3 DEF Rest
  <2> QED
    BY <1>0, <2>1, <2>2, <2>3, Typed
<1>2. ASSUME NEW By \in SUBSET Panels, Interrupt(By) PROVE TypeOK'
  <2>1. Panel'
    BY <1>2, SameType, ExitType DEF Interrupt
  <2>2. Rest
    BY <1>2, CostsType DEF Interrupt, Rest, TypeOK, Pcs
  <2> QED
    BY <1>0, <1>2, <2>1, <2>2, Typed DEF Interrupt
<1>3. ASSUME NEW p \in Panels, PanelReset(p) PROVE TypeOK'
  <2>1. Panel' /\ trouble' \in Nat
    BY <1>3, RestartType, CostsType DEF PanelReset
  <2>2. Rest
    BY <1>3, <2>1 DEF PanelReset, Rest, TypeOK
  <2> QED
    BY <1>0, <1>3, <2>1, <2>2, Typed DEF PanelReset
<1>4. CASE UNCHANGED vars
  BY <1>4 DEF vars, TypeOK
<1> QED
  BY <1>1, <1>2, <1>3, <1>4, ToolType DEF Next

\* TypeOK: every variable of the tool and of the panels keeps its type.
THEOREM TypeCorrect == ASSUME UpdateAssumption PROVE Spec => []TypeOK
<1>1. Init => TypeOK
  BY InitType
<1>2. TypeOK /\ [Next]_vars => TypeOK'
  BY StepType
<1> QED
  BY <1>1, <1>2, PTL DEF Spec

-----------------------------------------------------------------------------
(* Replies that come late *)

Staged == {"STAGED", "INSTALLED", "COPY_FAIL"}

\* Of replies r and a panel that is in state s now: after one that said it was receiving
\* none says it has staged an image.
Ordered(r, s) ==
  \A i \in DOMAIN r :
    r[i].st = "RECEIVING" => s \notin Staged /\ \A j \in DOMAIN r : j > i => r[j].st \notin Staged

\* None says so at all.
Clear(r, s) == s \notin Staged /\ \A i \in DOMAIN r : r[i].st \notin Staged

\* Of a panel in state s, which has been reset (away) or has the image (done): what a
\* reply says it has is so, or has been since.
Honest(r, s, away, done) ==
  /\ s = "INSTALLED" => done
  /\ \A i \in DOMAIN r :
       /\ r[i].st \in Staged => s \in Staged \/ away
       /\ r[i].st = "INSTALLED" => done

LEMMA Appended ==
  ASSUME NEW r \in Seq(Reply), NEW x \in Reply
  PROVE  /\ Append(r, x) \in Seq(Reply)
         /\ DOMAIN Append(r, x) = 1 .. Len(r) + 1 /\ DOMAIN r = 1 .. Len(r) /\ Len(r) \in Nat
         /\ \A i \in 1 .. Len(r) : Append(r, x)[i] = r[i]
         /\ Append(r, x)[Len(r) + 1] = x
OBVIOUS

LEMMA Tailed ==
  ASSUME NEW r \in Seq(Reply), r # <<>>
  PROVE  /\ DOMAIN Tail(r) = 1 .. Len(r) - 1 /\ DOMAIN r = 1 .. Len(r) /\ Len(r) \in Nat \ {0}
         /\ \A i \in 1 .. Len(r) - 1 : Tail(r)[i] = r[i + 1]
         /\ Head(r) = r[1]
<1>1. Tail(r) \in Seq(Reply) /\ Len(Tail(r)) = Len(r) - 1
      /\ \A i \in 1 .. Len(Tail(r)) : Tail(r)[i] = r[i + 1]
  BY HeadTailProperties
<1>2. Len(r) \in Nat \ {0} /\ Head(r) = r[1]
  OBVIOUS
<1> QED
  BY <1>1, <1>2

LEMMA OrderedAppend ==
  ASSUME NEW r \in Seq(Reply), NEW x \in Reply, Ordered(r, x.st)
  PROVE  Ordered(Append(r, x), x.st)
<1> DEFINE q == Append(r, x)
<1>1. /\ DOMAIN q = 1 .. Len(r) + 1 /\ DOMAIN r = 1 .. Len(r) /\ Len(r) \in Nat
      /\ \A i \in 1 .. Len(r) : q[i] = r[i]
      /\ q[Len(r) + 1] = x
  BY Appended
<1> HIDE DEF q
<1>2. ASSUME NEW i \in DOMAIN q, q[i].st = "RECEIVING"
      PROVE  x.st \notin Staged /\ \A j \in DOMAIN q : j > i => q[j].st \notin Staged
  <2>1. CASE i = Len(r) + 1
    BY <1>1, <1>2, <2>1 DEF Staged
  <2>2. CASE i \in 1 .. Len(r)
    <3>1. x.st \notin Staged /\ \A j \in DOMAIN r : j > i => r[j].st \notin Staged
      BY <1>1, <1>2, <2>2 DEF Ordered
    <3> QED
      BY <1>1, <3>1
  <2> QED
    BY <1>1, <2>1, <2>2
<1>3. Ordered(q, x.st)
  BY <1>2 DEF Ordered
<1> QED
  BY <1>3 DEF q

LEMMA OrderedTail ==
  ASSUME NEW r \in Seq(Reply), NEW s, r # <<>>, Ordered(r, s)
  PROVE  /\ Ordered(Tail(r), s)
         /\ Head(r).st = "RECEIVING" => Clear(Tail(r), s)
<1> DEFINE q == Tail(r)
<1>1. /\ DOMAIN q = 1 .. Len(r) - 1 /\ DOMAIN r = 1 .. Len(r) /\ Len(r) \in Nat \ {0}
      /\ \A i \in 1 .. Len(r) - 1 : q[i] = r[i + 1]
      /\ Head(r) = r[1]
  BY Tailed
<1> HIDE DEF q
<1>2. Ordered(q, s)
  <2>1. ASSUME NEW i \in DOMAIN q, q[i].st = "RECEIVING"
        PROVE  s \notin Staged /\ \A j \in DOMAIN q : j > i => q[j].st \notin Staged
    <3>1. i + 1 \in DOMAIN r /\ r[i + 1].st = "RECEIVING"
      BY <1>1, <2>1
    <3>2. s \notin Staged /\ \A j \in DOMAIN r : j > i + 1 => r[j].st \notin Staged
      BY <3>1 DEF Ordered
    <3>3. ASSUME NEW j \in DOMAIN q, j > i PROVE q[j].st \notin Staged
      <4>1. j + 1 \in DOMAIN r /\ j + 1 > i + 1 /\ q[j] = r[j + 1]
        BY <1>1, <3>3
      <4> QED
        BY <3>2, <4>1
    <3> QED
      BY <3>2, <3>3
  <2> QED
    BY <2>1 DEF Ordered
<1>3. ASSUME Head(r).st = "RECEIVING" PROVE Clear(q, s)
  <2>1. s \notin Staged /\ \A j \in DOMAIN r : j > 1 => r[j].st \notin Staged
    BY <1>1, <1>3 DEF Ordered
  <2>2. ASSUME NEW j \in DOMAIN q PROVE q[j].st \notin Staged
    <3>1. j + 1 \in DOMAIN r /\ j + 1 > 1 /\ q[j] = r[j + 1]
      BY <1>1
    <3> QED
      BY <2>1, <3>1
  <2> QED
    BY <2>1, <2>2 DEF Clear
<1> QED
  BY <1>2, <1>3 DEF q

LEMMA ClearAppend ==
  ASSUME NEW r \in Seq(Reply), NEW x \in Reply, Clear(r, x.st)
  PROVE  Clear(Append(r, x), x.st)
BY Appended DEF Clear

LEMMA ClearTail ==
  ASSUME NEW r \in Seq(Reply), NEW s, r # <<>>, Clear(r, s)
  PROVE  Clear(Tail(r), s)
<1>1. \A i \in DOMAIN Tail(r) : i + 1 \in DOMAIN r /\ Tail(r)[i] = r[i + 1]
  BY Tailed
<1> QED
  BY <1>1 DEF Clear

LEMMA HonestAppend ==
  ASSUME NEW r \in Seq(Reply), NEW x \in Reply, NEW away, NEW done,
         Honest(r, x.st, away, done)
  PROVE  Honest(Append(r, x), x.st, away, done)
BY Appended DEF Honest

LEMMA HonestTail ==
  ASSUME NEW r \in Seq(Reply), NEW s, NEW away, NEW done, r # <<>>,
         Honest(r, s, away, done)
  PROVE  /\ Honest(Tail(r), s, away, done)
         /\ Head(r).st \in Staged => s \in Staged \/ away
         /\ Head(r).st = "INSTALLED" => done
<1>1. \A i \in DOMAIN Tail(r) : i + 1 \in DOMAIN r /\ Tail(r)[i] = r[i + 1]
  BY Tailed
<1>2. 1 \in DOMAIN r /\ Head(r) = r[1]
  BY Tailed
<1> QED
  BY <1>1, <1>2 DEF Honest

-----------------------------------------------------------------------------
(* What a step does to a panel *)

\* Reset, or an 'X', since: its application runs, or is not there to run.
Away(q) == ~held[q] \/ (st[q] = "IDLE" /\ pend[q] # NoImage)

Whole(q) == app[q] = img /\ pend[q] = NoImage

\* It has the image, and nothing staged that an 'A' would install over it.
Done(q) == Whole(q) /\ st[q] \notin {"RECEIVING", "STAGED"}

Same(q) ==
  st'[q] = st[q] /\ held'[q] = held[q] /\ app'[q] = app[q] /\ pend'[q] = pend[q]

\* Up to the answers to 'U'.
EarlyMove(q) == Same(q) \/ st'[q] \in {"IDLE", "RECEIVING"}

Leaves(q) ==
  /\ st'[q] = "IDLE"
  /\ ~held'[q] \/ pend'[q] # NoImage
  /\ pend[q] = NoImage => pend'[q] = NoImage /\ app'[q] = app[q]

\* From the first 'D' on.
LateMove(q) ==
  \/ Same(q)
  \/ Leaves(q)
  \/ /\ st[q] = "RECEIVING" /\ st'[q] \in {"STAGED", "CRC_FAIL"}
     /\ held'[q] = held[q] /\ app'[q] = app[q] /\ pend'[q] = pend[q]
  \/ /\ st[q] = "STAGED" /\ held'[q] = held[q]
     /\ \/ st'[q] = "INSTALLED" /\ app'[q] = img /\ pend'[q] = NoImage
        \/ st'[q] = "COPY_FAIL"

HonestNow(q) == Honest(late[q], st[q], Away(q), Done(q))

LEMMA OrderedKept ==
  ASSUME TypeOK, LateMoves, NEW q \in Panels, EarlyMove(q), Ordered(late[q], st[q])
  PROVE  Ordered(late'[q], st'[q])
<1>1. late[q] \in Seq(Reply) /\ Replies(q) \in Seq(Reply)
  BY RepliesType
<1>2. Ordered(Replies(q), st[q])
  BY RepliesType, OrderedAppend
<1>3. Ordered(late'[q], st[q])
  BY <1>1, <1>2, OrderedTail DEF LateMoves
<1> QED
  BY <1>3 DEF EarlyMove, Same, Ordered, Staged

LEMMA ClearKept ==
  ASSUME TypeOK, LateMoves, NEW q \in Panels, EarlyMove(q), Clear(late[q], st[q])
  PROVE  Clear(late'[q], st'[q])
<1>1. late[q] \in Seq(Reply) /\ Replies(q) \in Seq(Reply)
  BY RepliesType
<1>2. Clear(Replies(q), st[q])
  BY RepliesType, ClearAppend
<1>3. Clear(late'[q], st[q])
  BY <1>1, <1>2, ClearTail DEF LateMoves
<1> QED
  BY <1>3 DEF EarlyMove, Same, Clear, Staged

LEMMA RepliesHonest ==
  ASSUME TypeOK, NEW q \in Panels, HonestNow(q)
  PROVE  Honest(Replies(q), st[q], Away(q), Done(q))
BY RepliesType, HonestAppend DEF HonestNow

LEMMA HonestKept ==
  ASSUME TypeOK, LateMoves, NEW q \in Panels, LateMove(q), UNCHANGED img, HonestNow(q)
  PROVE  HonestNow(q)'
<1>1. Replies(q) \in Seq(Reply)
  BY RepliesType
<1>2. Honest(Replies(q), st[q], Away(q), Done(q))
  BY RepliesHonest
<1>3. Honest(late'[q], st[q], Away(q), Done(q))
  <2>1. Replies(q) # <<>> => Honest(Tail(Replies(q)), st[q], Away(q), Done(q))
    BY <1>1, <1>2, HonestTail
  <2>2. Honest(late[q], st[q], Away(q), Done(q))
    BY DEF HonestNow
  <2> QED
    BY <1>2, <2>1, <2>2 DEF LateMoves
<1>4. /\ st[q] \in Staged \/ Away(q) => st'[q] \in Staged \/ Away(q)'
      /\ Done(q) => Done(q)'
      /\ st'[q] = "INSTALLED" => st[q] = "INSTALLED" \/ Done(q)'
  BY DEF LateMove, Same, Leaves, Staged, Away, Done, Whole
<1>5. Honest(late'[q], st'[q], Away(q)', Done(q)')
  BY <1>3, <1>4 DEF Honest, Staged
<1> QED
  BY <1>5 DEF HonestNow

LEMMA ReadyKept ==
  ASSUME NEW q, LateMove(q), Ready(q)
  PROVE  Ready(q)'
BY DEF LateMove, Same, Leaves, Ready

LEMMA DoneKept ==
  ASSUME NEW q, LateMove(q), UNCHANGED img, Done(q)
  PROVE  Done(q)'
BY DEF LateMove, Same, Leaves, Done, Whole

\* A boot installs nothing but what was pending.
Redoes(q) == app'[q] # app[q] => app'[q] = pend[q] /\ st'[q] = "IDLE"

LEMMA RestartDoes ==
  ASSUME TypeOK, NEW By, NEW hold, NEW Bad, Restart(By, hold, Bad), NEW q \in Panels
  PROVE  EarlyMove(q) /\ (~hold => LateMove(q)) /\ Redoes(q)
         /\ (st'[q] = st[q] \/ st'[q] = "IDLE")
<1>1. CASE q \notin By
  <2>1. Same(q)
    BY <1>1 DEF TypeOK, Restart, Forget, Same
  <2> QED
    BY <2>1 DEF EarlyMove, LateMove, Same, Redoes
<1>2. CASE q \in By
  <2>1. st'[q] = "IDLE" /\ held'[q] = (hold \/ pend'[q] # NoImage)
    BY <1>2 DEF TypeOK, Restart, Forget
  <2>2. \/ app'[q] = app[q] /\ pend'[q] = pend[q]
        \/ pend[q] # NoImage /\ app'[q] = pend[q] /\ pend'[q] = NoImage
    BY <1>2 DEF TypeOK, Restart, Resumable
  <2>3. ~hold => Leaves(q)
    BY <2>1, <2>2 DEF Leaves
  <2> QED
    BY <2>1, <2>2, <2>3 DEF EarlyMove, LateMove, Redoes
<1> QED
  BY <1>1, <1>2

LEMMA ExitDoes ==
  ASSUME TypeOK, NEW By, DoExit(By), NEW q \in Panels
  PROVE  EarlyMove(q) /\ app'[q] = app[q] /\ (st'[q] = st[q] \/ st'[q] = "IDLE")
BY DEF TypeOK, DoExit, Forget, EarlyMove, Same

LEMMA BeginDoes ==
  ASSUME TypeOK, NEW By, DoBegin(By), NEW q \in Panels
  PROVE  /\ EarlyMove(q) /\ app'[q] = app[q] /\ (q \notin By => Same(q))
         /\ st'[q] \in {st[q], "RECEIVING"}
BY DEF TypeOK, DoBegin, EarlyMove, Same

LEMMA DataDoes ==
  ASSUME TypeOK, NEW By, DoData(By), NEW q \in Panels
  PROVE  /\ LateMove(q) /\ app'[q] = app[q]
         /\ st'[q] \in {st[q], "STAGED", "CRC_FAIL"}
BY DEF TypeOK, DoData, LateMove, Same

LEMMA ActivateDoes ==
  ASSUME TypeOK, NEW All, NEW By, NEW Bad, Activate(All, By, Bad), NEW q \in Panels
  PROVE  /\ LateMove(q)
         /\ app'[q] # app[q] => app'[q] = img /\ st'[q] = "INSTALLED"
         /\ st'[q] # st[q] => q \in By /\ up[q] = img
<1>1. CASE q \in By /\ Activates(q)
  BY <1>1 DEF TypeOK, Activate, DoActivate, Activates, LateMove
<1>2. CASE ~(q \in By /\ Activates(q))
  <2>1. Same(q)
    BY <1>2 DEF TypeOK, Activate, DoActivate, Same
  <2> QED
    BY <2>1 DEF LateMove, Same
<1> QED
  BY <1>1, <1>2

LEMMA SameDoes ==
  ASSUME UNCHANGED panel, NEW q
  PROVE  EarlyMove(q) /\ LateMove(q) /\ app'[q] = app[q] /\ st'[q] = st[q]
BY DEF panel, EarlyMove, LateMove, Same

LEMMA NoneLate == ASSUME UNCHANGED late PROVE LateMoves
BY DEF LateMoves

-----------------------------------------------------------------------------
(* A run *)

Early   == {"hold", "survey", "begin", "waitReceiving"}
Sending == {"stream", "waitStaged", "commit", "waitInstalled"}

\* Before the first 'D' nothing is staged after a panel has said that it is receiving, so
\* a target that has said so leaves only honest replies behind.
RunInv ==
  /\ pc \in Early => \A q \in Panels : Ordered(late[q], st[q])
  /\ pc = "waitReceiving" => \A q \in seen : Clear(late[q], st[q])
  /\ pc \in Sending => \A q \in targets : HonestNow(q)
  /\ pc = "waitStaged" => \A q \in seen : Ready(q)
  /\ pc \in {"commit", "waitInstalled"} => \A q \in targets : Ready(q)
  /\ pc = "waitInstalled" => \A q \in seen : Done(q)
  /\ pc = "release" => \A q \in targets : Done(q)
  /\ pc \in {"begin", "stream", "commit"} => seen = {}

LEMMA IdleInv == ASSUME pc' = "idle" PROVE RunInv'
BY DEF RunInv, Early, Sending

LEMMA Onward ==
  ASSUME TypeOK, RunInv, LateMoves, UNCHANGED <<pc, img, targets>>,
         pc = "survey" \/ seen' = seen,
         \A q \in Panels : IF pc \in Early THEN EarlyMove(q) ELSE LateMove(q)
  PROVE  RunInv'
<1>1. targets \subseteq Panels /\ seen \subseteq Panels
  BY DEF TypeOK
<1>2. CASE pc \in Early
  <2>1. \A q \in Panels : Ordered(late'[q], st'[q])
    BY <1>2, OrderedKept DEF RunInv
  <2>2. pc = "waitReceiving" => \A q \in seen : Clear(late'[q], st'[q])
    BY <1>1, <1>2, ClearKept DEF RunInv
  <2> QED
    BY <1>2, <2>1, <2>2 DEF RunInv, Early, Sending
<1>3. CASE pc \notin Early
  <2>1. pc \in Sending => \A q \in targets : HonestNow(q)'
    BY <1>1, <1>3, HonestKept DEF RunInv
  <2>2. pc = "waitStaged" => \A q \in seen : Ready(q)'
    BY <1>1, <1>3, ReadyKept DEF RunInv
  <2>3. pc \in {"commit", "waitInstalled"} => \A q \in targets : Ready(q)'
    BY <1>1, <1>3, ReadyKept DEF RunInv
  <2>4. /\ pc = "waitInstalled" => \A q \in seen : Done(q)'
        /\ pc = "release" => \A q \in targets : Done(q)'
    BY <1>1, <1>3, DoneKept DEF RunInv
  <2>5. pc # "survey"
    BY <1>3 DEF Early
  <2> QED
    BY <1>3, <2>1, <2>2, <2>3, <2>4, <2>5 DEF RunInv, Early
<1> QED
  BY <1>2, <1>3

LEMMA DoneInv ==
  ASSUME TypeOK, RunInv, NEW p \in Panels, PollDone(p)
  PROVE  RunInv'
<1>1. /\ UNCHANGED <<panel, img, targets>> /\ p \in targets
      /\ targets \subseteq Panels /\ seen \subseteq Panels
  BY DEF PollDone, Polled, TypeOK
<1>2. /\ LateMoves /\ late'[p] = Tail(Replies(p)) /\ Replies(p) # <<>>
      /\ Replies(p) \in Seq(Reply) /\ Answer(p) = Head(Replies(p))
  BY ReadsMoves, RepliesType DEF PollDone, Answer
<1>3. \A q \in Panels : EarlyMove(q) /\ LateMove(q) /\ app'[q] = app[q]
  BY <1>1, SameDoes
<1>4. CASE pc = "waitReceiving"
  <2>1. \A q \in Panels : Ordered(late'[q], st'[q])
    BY <1>2, <1>3, <1>4, OrderedKept DEF RunInv, Early
  <2>2. Ordered(Replies(p), st[p]) /\ Head(Replies(p)).st = "RECEIVING"
    BY <1>2, <1>4, RepliesType, OrderedAppend DEF RunInv, Early, PollDone, Want
  <2>3. Clear(late'[p], st'[p])
    BY <1>1, <1>2, <2>2, OrderedTail DEF panel
  <2>4. \A q \in seen : Clear(late'[q], st'[q])
    BY <1>1, <1>2, <1>3, <1>4, ClearKept DEF RunInv
  <2>5. CASE AllDone(p)
    <3>1. pc' = "stream" /\ seen' = {}
      BY <1>4, <2>5 DEF PollDone, After
    <3>2. \A q \in targets : Clear(late'[q], st'[q])
      BY <2>3, <2>4, <2>5 DEF AllDone
    <3>3. \A q \in targets : HonestNow(q)'
      BY <3>2 DEF HonestNow, Honest, Clear, Staged
    <3> QED
      BY <1>1, <3>1, <3>3 DEF RunInv, Early, Sending
  <2>6. CASE ~AllDone(p)
    <3>1. pc' = "waitReceiving" /\ seen' = seen \cup {p}
      BY <1>4, <2>6 DEF PollDone
    <3>2. \A q \in seen' : Clear(late'[q], st'[q])
      BY <2>3, <2>4, <3>1
    <3> QED
      BY <2>1, <3>1, <3>2 DEF RunInv, Early, Sending
  <2> QED
    BY <2>5, <2>6
<1>5. ASSUME pc \in {"waitStaged", "waitInstalled"}
      PROVE  /\ \A q \in targets : HonestNow(q)'
             /\ Answer(p).st \in Staged => Ready(p)'
             /\ Answer(p).st = "INSTALLED" => Done(p)'
  <2>1. \A q \in targets : HonestNow(q)
    BY <1>5 DEF RunInv, Sending
  <2>2. \A q \in targets : HonestNow(q)'
    BY <1>1, <1>2, <1>3, <2>1, HonestKept
  <2>3. Honest(Replies(p), st[p], Away(p), Done(p))
    BY <1>1, <2>1, RepliesHonest
  <2>4. /\ Head(Replies(p)).st \in Staged => st[p] \in Staged \/ Away(p)
        /\ Head(Replies(p)).st = "INSTALLED" => Done(p)
    BY <1>2, <2>3, HonestTail
  <2> QED
    BY <1>1, <1>2, <2>2, <2>4 DEF Ready, Staged, Away, Done, Whole, panel
<1>6. CASE pc = "waitStaged"
  <2>1. Ready(p)'
    BY <1>5, <1>6 DEF PollDone, Want, Staged
  <2>2. \A q \in seen : Ready(q)'
    BY <1>1, <1>3, <1>6, ReadyKept DEF RunInv
  <2>3. \A q \in targets : HonestNow(q)'
    BY <1>5, <1>6
  <2>4. CASE AllDone(p)
    <3>1. pc' = "commit" /\ seen' = {}
      BY <1>6, <2>4 DEF PollDone, After
    <3>2. \A q \in targets : Ready(q)'
      BY <2>1, <2>2, <2>4 DEF AllDone
    <3> QED
      BY <1>1, <2>3, <3>1, <3>2 DEF RunInv, Early, Sending
  <2>5. CASE ~AllDone(p)
    <3>1. pc' = "waitStaged" /\ seen' = seen \cup {p}
      BY <1>6, <2>5 DEF PollDone
    <3>2. \A q \in seen' : Ready(q)'
      BY <2>1, <2>2, <3>1
    <3> QED
      BY <1>1, <2>3, <3>1, <3>2 DEF RunInv, Early, Sending
  <2> QED
    BY <2>4, <2>5
<1>7. CASE pc = "waitInstalled"
  <2>1. Done(p)'
    BY <1>5, <1>7 DEF PollDone, Want
  <2>2. \A q \in seen : Done(q)'
    BY <1>1, <1>3, <1>7, DoneKept DEF RunInv
  <2>3. \A q \in targets : HonestNow(q)' /\ Ready(q)'
    BY <1>1, <1>3, <1>5, <1>7, ReadyKept DEF RunInv
  <2>4. CASE AllDone(p)
    <3>1. pc' = "release"
      BY <1>7, <2>4 DEF PollDone, After
    <3>2. \A q \in targets : Done(q)'
      BY <2>1, <2>2, <2>4 DEF AllDone
    <3> QED
      BY <1>1, <3>1, <3>2 DEF RunInv, Early, Sending
  <2>5. CASE ~AllDone(p)
    <3>1. pc' = "waitInstalled" /\ seen' = seen \cup {p}
      BY <1>7, <2>5 DEF PollDone
    <3>2. \A q \in seen' : Done(q)'
      BY <2>1, <2>2, <3>1
    <3> QED
      BY <1>1, <2>3, <3>1, <3>2 DEF RunInv, Early, Sending
  <2> QED
    BY <2>4, <2>5
<1> QED
  BY <1>4, <1>6, <1>7 DEF PollDone, Polled

LEMMA RunStep == ASSUME UpdateAssumption, TypeOK, RunInv, [Next]_vars PROVE RunInv'
<1>1. ASSUME NEW i \in Images, StartRun(i) PROVE RunInv'
  BY <1>1 DEF StartRun, RunInv, Early, Sending, Ordered, panel
<1>2. ASSUME NEW By \in SUBSET Panels,
             Interrupt(By) \/ Fails(By) \/ GivesUp(By) \/ Deadline(By) \/ Release(By)
      PROVE  RunInv'
  BY <1>2, IdleInv DEF Interrupt, Fails, GivesUp, Deadline, Abandon, Release
<1>3. ASSUME NEW p \in Panels, PanelReset(p) PROVE RunInv'
  <2>1. \A q \in Panels : EarlyMove(q) /\ LateMove(q)
    BY <1>3, RestartDoes DEF PanelReset
  <2> QED
    BY <1>3, <2>1, NoneLate, Onward DEF PanelReset
<1>4. ASSUME NEW By \in SUBSET Panels, Hold(By) PROVE RunInv'
  <2>1. LateMoves /\ \A q \in Panels : EarlyMove(q)
    BY <1>4, NoneLate, RestartDoes DEF Hold
  <2>2. \A q \in Panels : Ordered(late'[q], st'[q])
    BY <1>4, <2>1, OrderedKept DEF Hold, RunInv, Early
  <2> QED
    BY <1>4, <2>2 DEF Hold, RunInv, Early, Sending
<1>5. ASSUME NEW p \in Panels, Survey(p) PROVE RunInv'
  <2>1. LateMoves
    <3>1. CASE Reads(p)
      BY <3>1, ReadsMoves
    <3>2. CASE late' = [late EXCEPT ![p] = Replies(p)]
      BY <3>2 DEF LateMoves, TypeOK
    <3>3. CASE TimesOut(p)
      BY <3>3, TimesOutMoves
    <3> QED
      BY <1>5, <3>1, <3>2, <3>3 DEF Survey
  <2>2. \A q \in Panels : EarlyMove(q) /\ LateMove(q)
    BY <1>5, SameDoes DEF Survey
  <2> QED
    BY <1>5, <2>1, <2>2, Onward DEF Survey
<1>6. ASSUME NEW force \in BOOLEAN, EndSurvey(force) PROVE RunInv'
  <2>1. \A q \in Panels : Ordered(late'[q], st'[q])
    BY <1>6 DEF EndSurvey, RunInv, Early, panel
  <2>2. seen' = {} /\ (pc' = "begin" \/ (pc' = "release" /\ targets' = {}))
    BY <1>6 DEF EndSurvey
  <2> QED
    BY <2>1, <2>2 DEF RunInv, Early, Sending
<1>7. ASSUME NEW By \in SUBSET targets, Begin(By) PROVE RunInv'
  <2>1. LateMoves /\ \A q \in Panels : EarlyMove(q)
    BY <1>7, NoneLate, BeginDoes DEF Begin
  <2>2. \A q \in Panels : Ordered(late'[q], st'[q])
    BY <1>7, <2>1, OrderedKept DEF Begin, RunInv, Early
  <2> QED
    BY <1>7, <2>2 DEF Begin, RunInv, Early, Sending
<1>8. ASSUME NEW By, Stream(By) PROVE RunInv'
  <2>1. LateMoves /\ \A q \in Panels : LateMove(q)
    BY <1>8, NoneLate, DataDoes DEF Stream
  <2>2. \A q \in targets : HonestNow(q)'
    BY <1>8, <2>1, HonestKept DEF Stream, RunInv, Sending, TypeOK
  <2> QED
    BY <1>8, <2>2 DEF Stream, RunInv, Early, Sending
<1>9. ASSUME NEW By \in SUBSET targets, Commit(By) PROVE RunInv'
  <2>1. LateMoves /\ \A q \in Panels : LateMove(q)
    BY <1>9, NoneLate, ActivateDoes DEF Commit
  <2>2. \A q \in targets : HonestNow(q)' /\ Ready(q)'
    BY <1>9, <2>1, HonestKept, ReadyKept DEF Commit, RunInv, Sending, TypeOK
  <2> QED
    BY <1>9, <2>2 DEF Commit, RunInv, Early, Sending
<1>10. ASSUME NEW p \in Panels, PollResend(p) PROVE RunInv'
  <2>1. LateMoves
    BY <1>10, ReadsMoves DEF PollResend
  <2>2. ASSUME NEW q \in Panels
        PROVE  IF pc \in Early THEN EarlyMove(q) ELSE LateMove(q)
    <3>1. CASE pc = "waitReceiving"
      BY <1>10, <3>1, BeginDoes DEF PollResend, Early
    <3>2. CASE pc \in {"waitStaged", "waitInstalled"}
      <4>1. LateMove(q)
        BY <1>10, <3>2, DataDoes, ActivateDoes, SameDoes DEF PollResend
      <4> QED
        BY <3>2, <4>1 DEF Early
    <3> QED
      BY <1>10, <3>1, <3>2 DEF PollResend, Polled
  <2> QED
    BY <1>10, <2>1, <2>2, Onward DEF PollResend
<1>11. ASSUME NEW p \in Panels, PollSilent(p) PROVE RunInv'
  <2>1. LateMoves
    BY <1>11, TimesOutMoves DEF PollSilent
  <2>2. \A q \in Panels : EarlyMove(q) /\ LateMove(q)
    BY <1>11, SameDoes DEF PollSilent
  <2> QED
    BY <1>11, <2>1, <2>2, Onward DEF PollSilent
<1>12. CASE UNCHANGED vars
  <2>1. \A q \in Panels : EarlyMove(q) /\ LateMove(q)
    BY <1>12, SameDoes DEF vars, panel
  <2> QED
    BY <1>12, <2>1, NoneLate, Onward DEF vars
<1> QED
  BY <1>1, <1>2, <1>3, <1>4, <1>5, <1>6, <1>7, <1>8, <1>9, <1>10, <1>11, <1>12, DoneInv
     DEF Next, Tool

LEMMA InvKept == ASSUME UpdateAssumption PROVE Spec => [](TypeOK /\ RunInv)
<1>1. Init => RunInv
  BY DEF Init, RunInv, Early, Sending
<1>2. TypeOK /\ RunInv /\ [Next]_vars => RunInv'
  BY RunStep
<1>3. Spec => []TypeOK
  BY TypeCorrect
<1> QED
  BY <1>1, <1>2, <1>3, PTL DEF Spec

\* SuccessMeansInstalled: when the tool reports success every panel it updated has the
\* image, whatever was late, lost or reset (run, wait_state).
THEOREM SuccessAlwaysMeans == ASSUME UpdateAssumption PROVE Spec => []SuccessMeansInstalled
<1>1. RunInv => SuccessMeansInstalled
  BY DEF RunInv, SuccessMeansInstalled, Done, Whole
<1> QED
  BY <1>1, InvKept, PTL

\* Panel p begins the copy of an image.
Copies(p) == st[p] = "STAGED" /\ st'[p] \in {"INSTALLED", "COPY_FAIL"}

LEMMA InstallStep ==
  ASSUME UpdateAssumption, TypeOK, RunInv, [Next]_vars, NEW p \in Panels
  PROVE  /\ Copies(p) => p \in targets /\ up[p] = img /\ \A t \in targets : Ready(t)
         /\ app'[p] # app[p] => app'[p] = IF st'[p] = "INSTALLED" THEN img ELSE pend[p]
<1> DEFINE Goal ==
      /\ Copies(p) => p \in targets /\ up[p] = img /\ \A t \in targets : Ready(t)
      /\ app'[p] # app[p] => app'[p] = IF st'[p] = "INSTALLED" THEN img ELSE pend[p]
<1>1. ASSUME Redoes(p) \/ app'[p] = app[p],
             st'[p] \in {st[p], "IDLE", "RECEIVING", "STAGED", "CRC_FAIL"}
      PROVE  Goal
  BY <1>1 DEF Redoes, Copies
<1>2. ASSUME NEW By \in SUBSET targets, Commit(By) PROVE Goal
  BY <1>2, ActivateDoes DEF Commit, RunInv, Copies
<1>3. ASSUME NEW q \in Panels, PollResend(q) PROVE Goal
  <2>1. CASE \E By \in SUBSET {q} : \E Bad \in SUBSET By :
               pc = "waitInstalled" /\ Activate({q}, By, Bad)
    BY <1>3, <2>1, ActivateDoes DEF PollResend, Polled, RunInv, Copies
  <2>2. CASE ~ \E By \in SUBSET {q} : \E Bad \in SUBSET By :
                 pc = "waitInstalled" /\ Activate({q}, By, Bad)
    BY <1>1, <1>3, <2>2, BeginDoes, DataDoes, SameDoes DEF PollResend
  <2> QED
    BY <2>1, <2>2
<1>4. ASSUME NEW By, Hold(By) \/ Release(By) \/ Interrupt(By) \/ Fails(By) \/ GivesUp(By) \/ Deadline(By)
      PROVE  Goal
  BY <1>4, <1>1, RestartDoes, ExitDoes, SameDoes
     DEF Hold, Release, Interrupt, Fails, GivesUp, Deadline, Abandon
<1>5. ASSUME NEW By, Begin(By) \/ Stream(By) PROVE Goal
  BY <1>5, <1>1, BeginDoes, DataDoes DEF Begin, Stream
<1>6. ASSUME NEW q \in Panels, Survey(q) \/ PollDone(q) \/ PollSilent(q) PROVE Goal
  BY <1>6, <1>1, SameDoes DEF Survey, PollDone, PollSilent
<1>7. ASSUME NEW q \in Panels, PanelReset(q) PROVE Goal
  BY <1>7, <1>1, RestartDoes DEF PanelReset
<1>8. ASSUME NEW force, EndSurvey(force) PROVE Goal
  BY <1>8, <1>1, SameDoes DEF EndSurvey
<1>9. ASSUME NEW i, StartRun(i) PROVE Goal
  BY <1>9, <1>1, SameDoes DEF StartRun
<1>10. CASE UNCHANGED vars
  BY <1>10, <1>1 DEF vars
<1> QED
  BY <1>2, <1>3, <1>4, <1>5, <1>6, <1>7, <1>8, <1>9, <1>10 DEF Next, Tool

\* InstallsWhenAllReady: a copy is begun of the tool's image, on a target, when every
\* other target has staged an image or has been reset since, and nothing else changes an
\* application but the boot that redoes a copy (run, do_activate, main).
THEOREM AlwaysInstallsWhenReady ==
  ASSUME UpdateAssumption PROVE Spec => InstallsWhenAllReady
<1>1. TypeOK /\ RunInv /\ [Next]_vars =>
        [\A p \in Panels :
           /\ st[p] = "STAGED" /\ st'[p] \in {"INSTALLED", "COPY_FAIL"} =>
                p \in targets /\ up[p] = img /\ \A t \in targets : Ready(t)
           /\ app'[p] # app[p] =>
                app'[p] = IF st'[p] = "INSTALLED" THEN img ELSE pend[p]]_vars
  BY InstallStep DEF Copies
<1> QED
  BY <1>1, InvKept, PTL DEF Spec, InstallsWhenAllReady

-----------------------------------------------------------------------------
(* Runs whose end every panel hears *)

Filling == {"waitReceiving", "stream", "waitStaged"}

\* Only the targets of a run are receiving, its image and nothing else, until all have
\* staged it: what an 'X' no panel has missed leaves to the next run.
OwnInv ==
  /\ \A q \in Panels : ~held[q] => st[q] = "IDLE"
  /\ \A q \in Panels : st[q] = "RECEIVING" => pc \in Filling /\ q \in targets /\ up[q] = img
  /\ committed => pc \in {"idle", "waitInstalled", "release"}
  /\ pc \in Sending => \A q \in targets : st[q] \in Staged => up[q] = img

\* What a step may do to a panel and what it has been told of.
Begins(q) ==
  pc \in {"begin", "waitReceiving"} /\ q \in targets
  /\ st'[q] = "RECEIVING" /\ up'[q] = img /\ held'[q]

Moves(q) ==
  \/ st'[q] = "IDLE"
  \/ UNCHANGED <<st[q], up[q], held[q]>>
  \/ /\ st[q] = "RECEIVING" /\ st'[q] \in {"STAGED", "CRC_FAIL"}
     /\ up'[q] = up[q] /\ held'[q] = held[q]
  \/ /\ st[q] = "STAGED" /\ st'[q] \in {"INSTALLED", "COPY_FAIL"}
     /\ up'[q] = up[q] /\ held'[q] = held[q]

LEMMA RestartMoves ==
  ASSUME TypeOK, NEW By, NEW hold, NEW Bad, Restart(By, hold, Bad), NEW q \in Panels
  PROVE  Moves(q)
<1>1. CASE q \in By
  BY <1>1 DEF Restart, Forget, Moves, TypeOK
<1>2. CASE q \notin By
  BY <1>2 DEF Restart, Forget, Moves, TypeOK
<1> QED
  BY <1>1, <1>2

LEMMA ExitMoves ==
  ASSUME TypeOK, NEW By, DoExit(By), NEW q \in Panels
  PROVE  Moves(q) /\ (q \in By /\ held[q] => st'[q] = "IDLE")
<1>1. CASE q \in By /\ held[q]
  BY <1>1 DEF DoExit, Forget, Moves, TypeOK
<1>2. CASE ~(q \in By /\ held[q])
  BY <1>2 DEF DoExit, Forget, Moves, TypeOK
<1> QED
  BY <1>1, <1>2

LEMMA BeginMoves ==
  ASSUME TypeOK, NEW By \in SUBSET targets, DoBegin(By), pc \in {"begin", "waitReceiving"},
         NEW q \in Panels
  PROVE  Moves(q) \/ Begins(q)
<1>1. CASE q \in By /\ held[q]
  BY <1>1 DEF DoBegin, Begins, TypeOK
<1>2. CASE ~(q \in By /\ held[q])
  BY <1>2 DEF DoBegin, Moves, TypeOK
<1> QED
  BY <1>1, <1>2

LEMMA DataMoves ==
  ASSUME TypeOK, NEW By, DoData(By), NEW q \in Panels
  PROVE  Moves(q)
<1>1. up' = up /\ held' = held
  BY DEF DoData
<1>2. st'[q] = st[q] \/ (st[q] = "RECEIVING" /\ st'[q] \in {"STAGED", "CRC_FAIL"})
  BY DEF DoData, TypeOK
<1> QED
  BY <1>1, <1>2 DEF Moves

LEMMA ActivateMoves ==
  ASSUME TypeOK, NEW All, NEW By, NEW Bad, Activate(All, By, Bad), NEW q \in Panels
  PROVE  Moves(q)
<1>1. up' = up /\ held' = held
      /\ (st'[q] = st[q] \/ (st[q] = "STAGED" /\ st'[q] \in {"INSTALLED", "COPY_FAIL"}))
  BY DEF Activate, DoActivate, Activates, TypeOK
<1> QED
  BY <1>1 DEF Moves

LEMMA SameMoves == ASSUME UNCHANGED panel, NEW q PROVE Moves(q)
BY DEF panel, Moves

\* A step that leaves the run where it is, or begins to wait.
LEMMA OwnGoesOn ==
  ASSUME TypeOK, OwnInv, UNCHANGED <<img, targets, committed>>,
         \/ pc' = pc /\ pc # "begin"
         \/ pc = "begin" /\ pc' = "waitReceiving"
         \/ pc = "stream" /\ pc' = "waitStaged",
         \A q \in Panels : Moves(q) \/ Begins(q)
  PROVE  OwnInv'
<1>0. targets \subseteq Panels
  BY DEF TypeOK
<1>1. ASSUME NEW q \in Panels, ~held'[q] PROVE st'[q] = "IDLE"
  BY <1>1 DEF OwnInv, Moves, Begins
<1>2. ASSUME NEW q \in Panels, st'[q] = "RECEIVING"
      PROVE  pc' \in Filling /\ q \in targets /\ up'[q] = img
  BY <1>2 DEF OwnInv, Moves, Begins, Filling
<1>3. committed => pc' \in {"idle", "waitInstalled", "release"}
  BY DEF OwnInv
<1>4. ASSUME pc' \in Sending, NEW q \in targets, st'[q] \in Staged PROVE up'[q] = img
  <2>1. pc \in Sending /\ Moves(q)
    BY <1>0, <1>4 DEF Sending, Begins, Staged
  <2> QED
    BY <1>0, <1>4, <2>1 DEF OwnInv, Moves, Staged
<1> QED
  BY <1>1, <1>2, <1>3, <1>4 DEF OwnInv

\* A step of a panel that is not receiving, to where none is.
LEMMA OwnElsewhere ==
  ASSUME TypeOK, OwnInv, \A q \in Panels : Moves(q) /\ st'[q] # "RECEIVING",
         committed' => pc' \in {"idle", "waitInstalled", "release"},
         pc' \in Sending => /\ UNCHANGED <<img, targets>>
                            /\ pc \in Sending /\ \A q \in targets : st[q] # "RECEIVING"
  PROVE  OwnInv'
<1>0. targets \subseteq Panels
  BY DEF TypeOK
<1>1. ASSUME NEW q \in Panels, ~held'[q] PROVE st'[q] = "IDLE"
  BY <1>1 DEF OwnInv, Moves
<1>2. ASSUME pc' \in Sending, NEW q \in targets, st'[q] \in Staged PROVE up'[q] = img
  BY <1>0, <1>2 DEF OwnInv, Moves, Staged
<1> QED
  BY <1>1, <1>2 DEF OwnInv

\* When the last target has said that it is receiving, none has an image staged.
LEMMA StreamStarts ==
  ASSUME TypeOK, RunInv, NEW p \in Panels, PollDone(p), pc = "waitReceiving", AllDone(p)
  PROVE  \A q \in targets : st[q] \notin Staged
<1>1. Replies(p) \in Seq(Reply) /\ Replies(p) # <<>> /\ Head(Replies(p)).st = "RECEIVING"
  BY RepliesType DEF PollDone, Reads, Answer, Want
<1>2. Ordered(Replies(p), st[p])
  BY RepliesType, OrderedAppend DEF RunInv, Early
<1>3. st[p] \notin Staged
  BY <1>1, <1>2, OrderedTail DEF Clear
<1>4. \A q \in seen : st[q] \notin Staged
  BY DEF RunInv, Clear
<1> QED
  BY <1>3, <1>4 DEF AllDone

LEMMA OwnDone ==
  ASSUME TypeOK, RunInv, RunInv', OwnInv, NEW p \in Panels, PollDone(p)
  PROVE  OwnInv'
<1>0. UNCHANGED <<st, up, held, img, targets, committed>> /\ targets \subseteq Panels
  BY DEF PollDone, panel, TypeOK
<1>1. \A q \in Panels : Moves(q)
  BY SameMoves DEF PollDone
<1>2. CASE pc' = pc
  BY <1>0, <1>1, <1>2, OwnGoesOn DEF PollDone, Polled
<1>3. CASE pc = "waitReceiving" /\ pc' = "stream" /\ AllDone(p)
  <2>1. \A q \in targets : st[q] \notin Staged
    BY <1>3, StreamStarts
  <2> QED
    BY <1>0, <1>3, <2>1 DEF OwnInv, Filling
<1>4. CASE pc = "waitStaged" /\ pc' = "commit"
  <2>1. \A q \in targets : Ready(q)
    BY <1>0, <1>4 DEF RunInv, Ready, PollDone, panel
  <2>2. \A q \in Panels : st[q] # "RECEIVING"
    BY <2>1 DEF OwnInv, Ready
  <2> QED
    BY <1>0, <1>1, <1>4, <2>2, OwnElsewhere DEF Sending, OwnInv
<1>5. CASE pc = "waitInstalled" /\ pc' = "release"
  BY <1>0, <1>5 DEF OwnInv, Sending, Filling
<1> QED
  BY <1>2, <1>3, <1>4, <1>5 DEF PollDone, Polled, After

\* The run ends: unless every panel hears it, none was receiving.
LEMMA OwnEnds ==
  ASSUME TypeOK, OwnInv, pc' = "idle",
         \/ UNCHANGED panel /\ committed
         \/ DoExit(Panels)
         \/ pc = "release" /\ \E By \in SUBSET Panels : DoExit(By)
  PROVE  OwnInv'
<1>1. \A q \in Panels : Moves(q) /\ st'[q] # "RECEIVING"
  <2> SUFFICES ASSUME NEW q \in Panels PROVE Moves(q) /\ st'[q] # "RECEIVING"
    OBVIOUS
  <2>1. CASE UNCHANGED panel /\ committed
    BY <2>1, SameMoves DEF panel, OwnInv, Filling
  <2>2. CASE DoExit(Panels)
    BY <2>2, ExitMoves DEF OwnInv, Moves
  <2>3. CASE pc = "release" /\ \E By \in SUBSET Panels : DoExit(By)
    BY <2>3, ExitMoves DEF OwnInv, Moves, Filling
  <2> QED
    BY <2>1, <2>2, <2>3
<1> QED
  BY <1>1, OwnElsewhere DEF Sending

LEMMA OwnStep ==
  ASSUME UpdateAssumption, "X" \notin Faults, TypeOK, RunInv, RunInv', OwnInv, [Next]_vars
  PROVE  OwnInv'
<1>0. targets \subseteq Panels
  BY DEF TypeOK
<1>1. ASSUME NEW By \in SUBSET Panels, Hold(By) PROVE OwnInv'
  <2>1. \A q \in Panels : Moves(q)
    BY <1>1, RestartMoves DEF Hold
  <2>2. \A q \in Panels : st'[q] # "RECEIVING"
    BY <1>1, <2>1 DEF Hold, OwnInv, Moves, Filling
  <2> QED
    BY <1>1, <2>1, <2>2, OwnElsewhere DEF Hold, OwnInv, Sending
<1>2. ASSUME NEW p \in Panels, Survey(p) \/ PollSilent(p) PROVE OwnInv'
  <2>1. \A q \in Panels : Moves(q)
    BY <1>2, SameMoves DEF Survey, PollSilent
  <2> QED
    BY <1>2, <2>1, OwnGoesOn DEF Survey, PollSilent, Polled
<1>3. ASSUME NEW force, EndSurvey(force) PROVE OwnInv'
  BY <1>3 DEF EndSurvey, panel, OwnInv, Sending, Filling
<1>4. ASSUME NEW By \in SUBSET targets, Begin(By) PROVE OwnInv'
  BY <1>4, BeginMoves, OwnGoesOn DEF Begin
<1>5. ASSUME NEW By, Stream(By) PROVE OwnInv'
  BY <1>5, DataMoves, OwnGoesOn DEF Stream
<1>6. ASSUME NEW By \in SUBSET targets, Commit(By) PROVE OwnInv'
  <2>1. \A q \in Panels : Moves(q) /\ st[q] # "RECEIVING"
    BY <1>6, ActivateMoves DEF Commit, OwnInv, Filling
  <2>2. \A q \in Panels : st'[q] # "RECEIVING"
    BY <2>1 DEF Moves
  <2> QED
    BY <1>0, <1>6, <2>1, <2>2, OwnElsewhere DEF Commit, Sending
<1>7. ASSUME NEW p \in Panels, PollDone(p) PROVE OwnInv'
  BY <1>7, OwnDone
<1>8. ASSUME NEW p \in Panels, PollResend(p) PROVE OwnInv'
  <2>1. pc' = pc /\ pc # "begin" /\ UNCHANGED <<img, targets, committed>> /\ p \in targets
    BY <1>8 DEF PollResend, Polled
  <2>2. ASSUME NEW q \in Panels PROVE Moves(q) \/ Begins(q)
    <3>1. ASSUME NEW By \in SUBSET {p}, pc = "waitReceiving", DoBegin(By)
          PROVE  Moves(q) \/ Begins(q)
      BY <2>1, <3>1, BeginMoves
    <3> QED
      BY <1>8, <3>1, DataMoves, ActivateMoves, SameMoves DEF PollResend
  <2> QED
    BY <2>1, <2>2, OwnGoesOn
<1>9. ASSUME NEW By \in SUBSET Panels, Fails(By) \/ GivesUp(By) \/ Deadline(By) PROVE OwnInv'
  BY <1>9, OwnEnds DEF Fails, GivesUp, Deadline, Abandon, Heard
<1>10. ASSUME NEW By \in SUBSET Panels, Interrupt(By) PROVE OwnInv'
  BY <1>10, OwnEnds DEF Interrupt
<1>11. ASSUME NEW By \in SUBSET Panels, Release(By) PROVE OwnInv'
  BY <1>11, OwnEnds DEF Release
<1>12. ASSUME NEW i, StartRun(i) PROVE OwnInv'
  BY <1>12 DEF StartRun, panel, OwnInv, Sending, Filling
<1>13. ASSUME NEW p \in Panels, PanelReset(p) PROVE OwnInv'
  <2>1. \A q \in Panels : Moves(q)
    BY <1>13, RestartMoves DEF PanelReset
  <2>2. CASE pc # "begin"
    BY <1>13, <2>1, <2>2, OwnGoesOn DEF PanelReset
  <2>3. CASE pc = "begin"
    <3>1. \A q \in Panels : st'[q] # "RECEIVING"
      BY <2>1, <2>3 DEF OwnInv, Moves, Filling
    <3> QED
      BY <1>13, <2>1, <2>3, <3>1, OwnElsewhere DEF PanelReset, OwnInv, Sending
  <2> QED
    BY <2>2, <2>3
<1>14. CASE UNCHANGED vars
  BY <1>14 DEF vars, OwnInv
<1> QED
  BY <1>1, <1>2, <1>3, <1>4, <1>5, <1>6, <1>7, <1>8, <1>9, <1>10, <1>11, <1>12, <1>13, <1>14
     DEF Next, Tool

LEMMA OwnKept == ASSUME UpdateAssumption, "X" \notin Faults PROVE Spec => []OwnInv
<1>1. Init => OwnInv
  BY DEF Init, OwnInv, Sending
<1>2. TypeOK /\ RunInv /\ RunInv' /\ OwnInv /\ [Next]_vars => OwnInv'
  BY OwnStep
<1> QED
  BY <1>1, <1>2, InvKept, PTL DEF Spec

\* "Nothing is installed anywhere until every participating panel holds a verified copy"
\* (FIELD_UPDATE.md), of the image itself: while every run that fails before its commit
\* ends with an 'X' that every panel hears, a copy is begun when every target has the
\* tool's image, whole, or has been reset since, whatever else is late, lost, reset or
\* fails to copy, and whatever blocks images have in common.
OwnCopies ==
  [][\A p \in Panels : Copies(p) => \A t \in targets : up[t] = img \/ Away(t)]_vars

LEMMA ReadyOwn ==
  ASSUME TypeOK, RunInv, OwnInv, pc \in {"commit", "waitInstalled"}, NEW t \in targets
  PROVE  up[t] = img \/ Away(t)
<1>1. Ready(t) /\ (st[t] \in Staged => up[t] = img)
  BY DEF RunInv, OwnInv, Sending
<1> QED
  BY <1>1 DEF Ready, Staged, Away

\* Where copies begin: no other step changes an application but to what was pending.
LEMMA CopyPhase ==
  ASSUME UpdateAssumption, TypeOK, [Next]_vars, NEW p \in Panels
  PROVE  /\ Copies(p) => pc \in {"commit", "waitInstalled"}
         /\ app'[p] # app[p] => Copies(p) \/ app'[p] = pend[p]
<1> DEFINE Goal ==
      /\ Copies(p) => pc \in {"commit", "waitInstalled"}
      /\ app'[p] # app[p] => Copies(p) \/ app'[p] = pend[p]
<1>1. ASSUME Redoes(p) \/ app'[p] = app[p],
             st'[p] \in {st[p], "IDLE", "RECEIVING", "STAGED", "CRC_FAIL"}
      PROVE  Goal
  BY <1>1 DEF Redoes, Copies
<1>2. ASSUME pc \in {"commit", "waitInstalled"}, LateMove(p),
             app'[p] # app[p] => st'[p] = "INSTALLED"
      PROVE  Goal
  BY <1>2 DEF LateMove, Same, Leaves, Copies
<1>3. ASSUME NEW By \in SUBSET targets, Commit(By) PROVE Goal
  BY <1>3, <1>2, ActivateDoes DEF Commit
<1>4. ASSUME NEW q \in Panels, PollResend(q) PROVE Goal
  <2>1. CASE \E By \in SUBSET {q} : \E Bad \in SUBSET By :
               pc = "waitInstalled" /\ Activate({q}, By, Bad)
    BY <1>2, <2>1, ActivateDoes
  <2>2. CASE ~ \E By \in SUBSET {q} : \E Bad \in SUBSET By :
                 pc = "waitInstalled" /\ Activate({q}, By, Bad)
    BY <1>1, <1>4, <2>2, BeginDoes, DataDoes, SameDoes DEF PollResend
  <2> QED
    BY <2>1, <2>2
<1>5. ASSUME NEW By, Hold(By) \/ Release(By) \/ Interrupt(By) \/ Fails(By) \/ GivesUp(By) \/ Deadline(By)
      PROVE  Goal
  BY <1>5, <1>1, RestartDoes, ExitDoes, SameDoes
     DEF Hold, Release, Interrupt, Fails, GivesUp, Deadline, Abandon
<1>6. ASSUME NEW By, Begin(By) \/ Stream(By) PROVE Goal
  BY <1>6, <1>1, BeginDoes, DataDoes DEF Begin, Stream
<1>7. ASSUME NEW q \in Panels, Survey(q) \/ PollDone(q) \/ PollSilent(q) PROVE Goal
  BY <1>7, <1>1, SameDoes DEF Survey, PollDone, PollSilent
<1>8. ASSUME NEW q \in Panels, PanelReset(q) PROVE Goal
  BY <1>8, <1>1, RestartDoes DEF PanelReset
<1>9. ASSUME NEW force, EndSurvey(force) PROVE Goal
  BY <1>9, <1>1, SameDoes DEF EndSurvey
<1>10. ASSUME NEW i, StartRun(i) PROVE Goal
  BY <1>10, <1>1, SameDoes DEF StartRun
<1>11. CASE UNCHANGED vars
  BY <1>11, <1>1 DEF vars
<1> QED
  BY <1>3, <1>4, <1>5, <1>6, <1>7, <1>8, <1>9, <1>10, <1>11 DEF Next, Tool

\* While no 'X' of a failed run is missed, no panel begins its copy before every target has
\* the tool's image or has been reset (run, wait_state, main): only what missed an 'X' can
\* answer for another run's image.
THEOREM AlwaysOwnCopies ==
  ASSUME UpdateAssumption, "X" \notin Faults PROVE Spec => OwnCopies
<1>1. TypeOK /\ RunInv /\ OwnInv /\ [Next]_vars =>
        [\A p \in Panels : Copies(p) => \A t \in targets : up[t] = img \/ Away(t)]_vars
  BY CopyPhase, ReadyOwn
<1> QED
  BY <1>1, InvKept, OwnKept, PTL DEF Spec, OwnCopies

\* No copy fails where the flash programs, so no boot installs anything.
NonePending == \A p \in Panels : pend[p] = NoImage

LEMMA NonePendingStep ==
  ASSUME "copy" \notin Faults, TypeOK, NonePending, [Next]_vars
  PROVE  NonePending'
<1> SUFFICES ASSUME NEW p \in Panels PROVE pend'[p] = NoImage
  BY DEF NonePending
<1>0. pend[p] = NoImage
  BY DEF NonePending
<1>1. ASSUME NEW By, NEW hold, NEW Bad, Restart(By, hold, Bad) PROVE pend'[p] = NoImage
  BY <1>0, <1>1 DEF Restart
<1>2. ASSUME NEW All, NEW By, NEW Bad, Activate(All, By, Bad) PROVE pend'[p] = NoImage
  BY <1>0, <1>2 DEF Activate, DoActivate
<1>3. ASSUME pend' = pend PROVE pend'[p] = NoImage
  BY <1>0, <1>3
<1> QED
  BY <1>1, <1>2, <1>3
     DEF Next, Tool, Hold, EndSurvey, Begin, DoBegin, Stream, DoData, Commit, Fails, GivesUp, Deadline,
         Abandon, DoExit, Release, Interrupt, StartRun, PollDone, PollResend, PollSilent,
         Survey, PanelReset, panel, vars

\* And while the flash programs too, no application changes before every target that is
\* in the bootloader has the tool's image: what an 'X' that is not sent or not heard breaks.
THEOREM InstallsWhenAllHave ==
  ASSUME UpdateAssumption, "X" \notin Faults, "copy" \notin Faults
  PROVE  Spec => InstallsWhenAllHaveImage
<1>1. Init => NonePending
  BY DEF Init, NonePending
<1>2. TypeOK /\ NonePending /\ [Next]_vars => NonePending'
  BY NonePendingStep
<1>3. TypeOK /\ TypeOK' /\ RunInv /\ OwnInv /\ NonePending /\ [Next]_vars =>
        [\A p \in Panels : app'[p] # app[p] => \A t \in targets : held[t] => up[t] = img]_vars
  <2> SUFFICES ASSUME TypeOK, TypeOK', RunInv, OwnInv, NonePending, [Next]_vars,
                      NEW p \in Panels, app'[p] # app[p], NEW t \in targets, held[t]
               PROVE  up[t] = img
    OBVIOUS
  <2>1. app'[p] \in Images /\ pend[p] = NoImage /\ pend[t] = NoImage
    BY DEF TypeOK, NonePending
  <2>2. pc \in {"commit", "waitInstalled"}
    BY <2>1, CopyPhase DEF UpdateAssumption
  <2> QED
    BY <2>1, <2>2, ReadyOwn DEF Away
<1> QED
  BY <1>1, <1>2, <1>3, InvKept, OwnKept, TypeCorrect, PTL DEF Spec, InstallsWhenAllHaveImage

-----------------------------------------------------------------------------
(* A pad that is half old and half new *)

Agree == \A p, q \in Panels : app[p] = app[q]

Full == pc \notin {"idle", "hold", "survey"} => present = Panels

\* Every survey that leads on has found every panel.
SurveysFindAll == []Full

\* No run is begun on a pad that the one before has left half new.
RunsOnAgreeing == [][pc = "idle" /\ pc' = "hold" => Agree]_vars

AllHeld == \A p \in Panels : held[p]

\* Until 'A' goes out nothing is installed; from then on every panel is held,
\* until the tool has found the image in all of them.
MixInv ==
  /\ \A p \in Panels : pend[p] # NoImage => held[p]
  /\ pc = "hold" => present = {} /\ \A p \in Panels : late[p] = <<>>
  /\ pc = "survey" => \A p \in Panels : late[p] # <<>> => held[p]
  /\ pc \notin {"idle", "hold", "release"} => \A p \in present : held[p]
  /\ committed => pc \in {"idle", "waitInstalled", "release"}
  /\ pc = "waitInstalled" => committed
  /\ ~committed => Agree
  /\ pc \in Sending \cup {"begin", "waitReceiving"} => targets = Panels
  /\ pc = "release" /\ committed => targets = Panels /\ AllHeld
  /\ pc = "idle" /\ committed => Agree \/ AllHeld

\* No panel that boots has anything to redo.
LEMMA HoldKeeps ==
  ASSUME TypeOK, MixInv, NEW By \in SUBSET Panels, Hold(By)
  PROVE  /\ app' = app /\ pend' = pend
         /\ \A p \in Panels : held[p] => held'[p]
<1> DEFINE B == {p \in By : ~held[p]}
<1>1. Restart(B, TRUE, {})
  BY DEF Hold
<1>2. \A p \in B : pend[p] = NoImage
  BY DEF MixInv
<1> HIDE DEF B
<1>3. app' = [p \in Panels |-> app[p]] /\ pend' = [p \in Panels |-> pend[p]]
  BY <1>1, <1>2 DEF Restart, Resumable
<1>4. app \in [Panels -> Images] /\ pend \in [Panels -> Images \cup {NoImage}]
  BY DEF TypeOK
<1>5. app' = app /\ pend' = pend
  BY <1>3, <1>4
<1>6. \A p \in Panels : held[p] => held'[p]
  BY <1>1 DEF Restart
<1> QED
  BY <1>5, <1>6

LEMMA AgreeKept == ASSUME app' = app PROVE Agree' <=> Agree
BY DEF Agree

\* 'A' leaves a panel held, and a copy that fails was one on a held panel.
LEMMA ActivateHolds ==
  ASSUME TypeOK, NEW All, NEW By, NEW Bad, Activate(All, By, Bad)
  PROVE  /\ held' = held
         /\ \A p \in Panels : pend'[p] # NoImage => pend[p] # NoImage \/ held[p]
BY DEF Activate, DoActivate, Activates, TypeOK

LEMMA ExitHolds ==
  ASSUME TypeOK, MixInv, NEW By, DoExit(By)
  PROVE  /\ app' = app /\ pend' = pend
         /\ \A p \in Panels : pend[p] # NoImage => held'[p]
BY DEF DoExit, TypeOK, MixInv

\* The end of a run, which is committed with every panel held or not at all.
LEMMA RunEnds ==
  ASSUME TypeOK, MixInv, Full, pc # "idle", pc' = "idle", UNCHANGED committed,
         \/ UNCHANGED panel
         \/ ~committed /\ \E By : DoExit(By)
  PROVE  MixInv'
<1>1. CASE UNCHANGED panel
  <2>1. UNCHANGED <<app, pend, held>>
    BY <1>1 DEF panel
  <2>2. committed => AllHeld
    BY DEF MixInv, Full, AllHeld
  <2>3. committed' => AllHeld'
    BY <2>1, <2>2 DEF AllHeld
  <2>4. ~committed' => Agree'
    BY <2>1, AgreeKept DEF MixInv
  <2>5. \A p \in Panels : pend'[p] # NoImage => held'[p]
    BY <2>1 DEF MixInv
  <2> QED
    BY <2>3, <2>4, <2>5 DEF MixInv, Sending
<1>2. ASSUME NEW By, ~committed, DoExit(By) PROVE MixInv'
  <2>1. Agree'
    BY <1>2, ExitHolds, AgreeKept DEF MixInv
  <2>2. \A p \in Panels : pend'[p] # NoImage => held'[p]
    BY <1>2, ExitHolds
  <2> QED
    BY <1>2, <2>1, <2>2 DEF MixInv, Sending
<1> QED
  BY <1>1, <1>2

\* A step of a run that leaves the panels held.
LEMMA RunGoesOn ==
  ASSUME TypeOK, MixInv, Full, UNCHANGED <<held, present, targets, committed>>,
         pc \in Sending \cup {"begin", "waitReceiving"},
         pc' \in Sending \cup {"waitReceiving", "release"},
         committed => pc = "waitInstalled" /\ pc' \in {"waitInstalled", "release"},
         pc' = "waitInstalled" => committed,
         ~committed => app' = app,
         \A p \in Panels : pend'[p] # NoImage => pend[p] # NoImage \/ held[p]
  PROVE  MixInv'
<1>1. present = Panels /\ targets = Panels /\ AllHeld
  BY DEF Full, MixInv, Sending, AllHeld
<1>2. AllHeld' /\ targets' = Panels /\ present' = Panels
  BY <1>1 DEF AllHeld
<1>3. ~committed' => Agree'
  BY AgreeKept DEF MixInv
<1> QED
  BY <1>2, <1>3 DEF MixInv, AllHeld, Sending

LEMMA MixStep ==
  ASSUME UpdateAssumption, "reset" \notin Faults, TypeOK, RunInv, MixInv, Full, Full',
         [Next]_vars, [pc = "idle" /\ pc' = "hold" => Agree]_vars
  PROVE  MixInv'
<1>1. ASSUME NEW i, StartRun(i) PROVE MixInv'
  <2>1. Agree
    BY <1>1 DEF StartRun, vars
  <2>2. UNCHANGED <<app, pend, held>> /\ \A p \in Panels : late'[p] = <<>>
    BY <1>1 DEF StartRun, panel
  <2>3. Agree'
    BY <2>1, <2>2, AgreeKept
  <2> QED
    BY <1>1, <2>2, <2>3 DEF StartRun, MixInv, Sending
<1>2. ASSUME NEW By \in SUBSET Panels, Hold(By) PROVE MixInv'
  <2>1. Agree'
    BY <1>2, HoldKeeps, AgreeKept DEF Hold, MixInv
  <2>2. \A p \in Panels : pend'[p] # NoImage => held'[p]
    BY <1>2, HoldKeeps DEF MixInv
  <2>3. present' = {} /\ \A p \in Panels : late'[p] = <<>>
    BY <1>2 DEF MixInv, Hold
  <2> QED
    BY <1>2, <2>1, <2>2, <2>3 DEF Hold, MixInv, Sending
<1>3. ASSUME NEW p \in Panels, Survey(p) PROVE MixInv'
  <2>1. UNCHANGED <<app, pend, held, pc, committed>> /\ pc = "survey"
    BY <1>3 DEF Survey, panel
  <2>2. Replies(p) # <<>> => held[p]
    BY <2>1 DEF Replies, MixInv
  <2>3. late' = [late EXCEPT ![p] = late'[p]] /\ (late'[p] # <<>> => held[p])
    <3>1. CASE Reads(p)
      BY <2>2, <3>1 DEF Reads, TypeOK
    <3>2. CASE held[p] /\ late' = [late EXCEPT ![p] = Replies(p)]
      BY <3>2 DEF TypeOK
    <3>3. CASE TimesOut(p)
      BY <2>1, <3>3 DEF TimesOut, TypeOK, MixInv
    <3> QED
      BY <1>3, <3>1, <3>2, <3>3 DEF Survey
  <2>4. present' = present \/ (held[p] /\ present' = present \cup {p})
    BY <1>3, <2>2 DEF Survey, Reads
  <2>5. \A q \in Panels : late'[q] # <<>> => held'[q]
    BY <2>1, <2>3 DEF MixInv, TypeOK
  <2>6. \A q \in present' : held'[q]
    BY <2>1, <2>4 DEF MixInv
  <2>7. Agree'
    BY <2>1, AgreeKept DEF MixInv
  <2> QED
    BY <2>1, <2>5, <2>6, <2>7 DEF MixInv, Sending
<1>4. ASSUME NEW force, EndSurvey(force) PROVE MixInv'
  <2>1. /\ pc = "survey" /\ UNCHANGED <<app, pend, held, img, present, committed>>
        /\ pc' \in {"release", "begin"} /\ (pc' = "begin" => targets' # {})
    BY <1>4 DEF EndSurvey, panel
  <2>2. present = Panels /\ ~committed /\ Agree
    BY <2>1 DEF Full, MixInv
  <2>3. targets' \in {present, {p \in present : app[p] # img}}
    BY <1>4 DEF EndSurvey
  <2>4. pc' = "begin" => targets' = Panels
    <3>1. SUFFICES ASSUME NEW p \in targets', NEW q \in Panels PROVE q \in targets'
      BY <2>1, <2>2, <2>3
    <3>2. app[q] = app[p]
      BY <2>2, <2>3 DEF Agree
    <3> QED
      BY <2>2, <2>3, <3>1, <3>2
  <2>5. Agree'
    BY <2>1, <2>2, AgreeKept
  <2>6. \A p \in present' : held'[p]
    BY <2>1 DEF MixInv
  <2> QED
    BY <2>1, <2>2, <2>4, <2>5, <2>6 DEF MixInv, Sending
<1>5. ASSUME NEW By \in SUBSET targets, Begin(By) PROVE MixInv'
  <2>1. UNCHANGED <<app, pend, held, present, targets, committed>>
        /\ pc = "begin" /\ pc' = "waitReceiving"
    BY <1>5 DEF Begin, DoBegin
  <2> QED
    BY <2>1, RunGoesOn DEF MixInv
<1>6. ASSUME NEW By, Stream(By) PROVE MixInv'
  <2>1. UNCHANGED <<app, pend, held, present, targets, committed>>
        /\ pc = "stream" /\ pc' = "waitStaged"
    BY <1>6 DEF Stream, DoData
  <2> QED
    BY <2>1, RunGoesOn DEF MixInv, Sending
<1>7. ASSUME NEW By \in SUBSET targets, Commit(By) PROVE MixInv'
  <2>1. /\ pc = "commit" /\ pc' = "waitInstalled" /\ committed'
        /\ UNCHANGED <<present, targets>> /\ \E Bad : Activate(targets, By, Bad)
    BY <1>7 DEF Commit
  <2>2. targets' = Panels /\ \A p \in present' : held[p]
    BY <2>1 DEF MixInv, Sending
  <2>3. held' = held /\ \A p \in Panels : pend'[p] # NoImage => held'[p]
    BY <2>1, ActivateHolds DEF MixInv
  <2> QED
    BY <2>1, <2>2, <2>3 DEF MixInv
<1>8. ASSUME NEW p \in Panels, PollDone(p) PROVE MixInv'
  <2>1. UNCHANGED <<app, pend, held, present, targets, committed>>
        /\ pc \in {"waitReceiving", "waitStaged", "waitInstalled"}
        /\ pc' \in {pc, After(pc)}
    BY <1>8 DEF PollDone, Polled, panel
  <2>2. /\ After("waitReceiving") = "stream" /\ After("waitStaged") = "commit"
        /\ After("waitInstalled") = "release"
    BY DEF After
  <2> QED
    BY <2>1, <2>2, RunGoesOn DEF MixInv, Sending
<1>9. ASSUME NEW p \in Panels, PollResend(p) PROVE MixInv'
  <2>1. UNCHANGED <<pc, present, targets, committed>>
        /\ pc \in {"waitReceiving", "waitStaged", "waitInstalled"}
    BY <1>9 DEF PollResend, Polled
  <2>2. CASE \E By, Bad : pc = "waitInstalled" /\ Activate({p}, By, Bad)
    <3>1. held' = held /\ \A q \in Panels : pend'[q] # NoImage => pend[q] # NoImage \/ held[q]
      BY <2>2, ActivateHolds
    <3>2. targets' = Panels /\ \A q \in present' : held'[q]
      BY <2>1, <2>2, <3>1 DEF MixInv, Sending
    <3>3. CASE committed
      BY <2>1, <2>2, <3>1, <3>3, RunGoesOn DEF Sending
    <3>4. CASE ~committed
      BY <2>2, <3>4 DEF MixInv
    <3> QED
      BY <3>3, <3>4
  <2>3. CASE ~ \E By, Bad : pc = "waitInstalled" /\ Activate({p}, By, Bad)
    <3>1. UNCHANGED <<app, pend, held>>
      BY <1>9, <2>3 DEF PollResend, DoBegin, DoData, panel
    <3> QED
      BY <2>1, <3>1, RunGoesOn DEF MixInv, Sending
  <2> QED
    BY <2>2, <2>3
<1>10. ASSUME NEW p \in Panels, PollSilent(p) PROVE MixInv'
  <2>1. UNCHANGED <<app, pend, held, pc, present, targets, committed>>
        /\ pc \in {"waitReceiving", "waitStaged", "waitInstalled"}
    BY <1>10 DEF PollSilent, Polled, panel
  <2> QED
    BY <2>1, RunGoesOn DEF MixInv, Sending
<1>11. ASSUME NEW By, Fails(By) \/ GivesUp(By) \/ Deadline(By) PROVE MixInv'
  <2>1. pc # "idle" /\ Abandon(By)
    BY <1>11 DEF Fails, GivesUp, Deadline, Polled
  <2> QED
    BY <2>1, RunEnds DEF Abandon
<1>12. ASSUME NEW By, Interrupt(By) PROVE MixInv'
  BY <1>12, RunEnds DEF Interrupt
<1>13. ASSUME NEW By, Release(By) PROVE MixInv'
  <2>1. pc = "release" /\ pc' = "idle" /\ DoExit(By) /\ UNCHANGED committed
    BY <1>13 DEF Release
  <2>2. committed => Agree
    BY <2>1 DEF MixInv, RunInv, Done, Whole, Agree
  <2>3. Agree'
    BY <2>1, <2>2, ExitHolds, AgreeKept DEF MixInv
  <2>4. \A p \in Panels : pend'[p] # NoImage => held'[p]
    BY <2>1, ExitHolds
  <2> QED
    BY <2>1, <2>3, <2>4 DEF MixInv, Sending
<1>14. CASE UNCHANGED vars
  BY <1>14, AgreeKept DEF vars, MixInv, AllHeld
<1>15. ASSUME NEW p \in Panels, PanelReset(p) PROVE FALSE
  BY <1>15 DEF PanelReset
<1> QED
  BY <1>1, <1>2, <1>3, <1>4, <1>5, <1>6, <1>7, <1>8, <1>9, <1>10, <1>11, <1>12, <1>13,
     <1>14, <1>15 DEF Next, Tool

\* "The pad never ends up half old and half new" (FIELD_UPDATE.md): however many runs and
\* whatever is lost, late, interrupted or fails to copy, as long as no panel is reset
\* meanwhile, every survey finds every panel, and no run is begun on a pad that the one
\* before, failing after its 'A', has left half new.
THEOREM NeverMixedUnlessRerun ==
  ASSUME UpdateAssumption, "reset" \notin Faults
  PROVE  Spec /\ SurveysFindAll /\ RunsOnAgreeing => []NeverMixed
<1>1. Init => MixInv
  BY DEF Init, MixInv, Agree, Sending
<1>2. /\ TypeOK /\ RunInv /\ MixInv /\ Full /\ Full' /\ [Next]_vars
      /\ [pc = "idle" /\ pc' = "hold" => Agree]_vars
      => MixInv'
  BY MixStep
<1>3. TypeOK /\ MixInv /\ Full => NeverMixed
  <2> SUFFICES ASSUME TypeOK, MixInv, Full, \A p \in Panels : ~held[p], Panels # {} PROVE Agree
    BY DEF NeverMixed, Agree
  <2>1. CASE ~committed
    BY <2>1 DEF MixInv
  <2>2. CASE committed
    BY <2>2 DEF MixInv, Full, AllHeld
  <2> QED
    BY <2>1, <2>2
<1> QED
  BY <1>1, <1>2, <1>3, InvKept, PTL DEF Spec, SurveysFindAll, RunsOnAgreeing

\* Before its first run the pad has one application.
FirstInv == runs = 0 => pc = "idle" /\ Agree

\* Where every frame of the survey is heard it finds every panel.
SurveyInv ==
  /\ pc = "hold" => seen = {} /\ \A p \in Panels : late[p] = <<>>
  /\ pc = "survey" => \A p \in Panels : held[p] /\ late[p] = <<>>
  /\ pc = "survey" => seen \subseteq present
  /\ Full

LEMMA SurveyFull ==
  ASSUME UpdateAssumption, {"B", "Q", "q", "reset"} \cap Faults = {}, TypeOK, TypeOK',
         SurveyInv, [Next]_vars
  PROVE  SurveyInv'
<1>1. ASSUME NEW i, StartRun(i) PROVE SurveyInv'
  BY <1>1 DEF StartRun, SurveyInv, Full
<1>2. ASSUME NEW By \in SUBSET Panels, Hold(By) PROVE SurveyInv'
  <2>1. By = Panels
    BY <1>2 DEF Hold, Heard
  <2>2. Restart({p \in Panels : ~held[p]}, TRUE, {})
    BY <1>2, <2>1 DEF Hold
  <2>3. \A p \in Panels : held'[p]
    BY <2>2 DEF Restart
  <2>4. pc = "hold" /\ pc' = "survey" /\ late' = late /\ seen' = seen /\ present' = present
    BY <1>2 DEF Hold
  <2> QED
    BY <2>3, <2>4 DEF SurveyInv, Full
<1>3. ASSUME NEW p \in Panels, Survey(p) PROVE SurveyInv'
  <2>0. pc = "survey" /\ pc' = pc /\ held' = held /\ seen' = seen \cup {p}
    BY <1>3 DEF Survey, panel
  <2>1. held[p] /\ late[p] = <<>> /\ Replies(p) = Append(<<>>, Status(p))
    BY <2>0 DEF SurveyInv, Replies
  <2>2. ~TimesOut(p)
    BY <2>1 DEF TimesOut
  <2>3. present' = present \cup {p} /\ late' = [late EXCEPT ![p] = Tail(Replies(p))]
    BY <1>3, <2>0, <2>2 DEF Survey, Reads
  <2>4. Tail(Replies(p)) = <<>>
    BY <2>1, RepliesType
  <2>5. \A q \in Panels : late'[q] = <<>>
    BY <2>0, <2>3, <2>4 DEF SurveyInv, TypeOK
  <2> QED
    BY <2>0, <2>3, <2>5 DEF SurveyInv, Full
<1>4. ASSUME NEW force, EndSurvey(force) PROVE SurveyInv'
  <2>1. pc = "survey" /\ pc' \in {"release", "begin"} /\ seen = Panels /\ present' = present
    BY <1>4 DEF EndSurvey
  <2>2. present' = Panels
    BY <2>1 DEF SurveyInv, TypeOK
  <2> QED
    BY <2>1, <2>2 DEF SurveyInv, Full
<1>5. ASSUME UNCHANGED present, pc' \notin {"hold", "survey"},
             pc' = "idle" \/ pc \notin {"idle", "hold", "survey"}
      PROVE  SurveyInv'
  BY <1>5 DEF SurveyInv, Full
<1>6. ASSUME NEW p \in Panels, PollDone(p) \/ PollResend(p) \/ PollSilent(p) PROVE SurveyInv'
  <2>1. UNCHANGED present /\ pc \in {"waitReceiving", "waitStaged", "waitInstalled"}
        /\ pc' \in {pc, After(pc)}
    BY <1>6 DEF PollDone, PollResend, PollSilent, Polled
  <2>2. pc' \notin {"idle", "hold", "survey"}
    BY <2>1 DEF After
  <2> QED
    BY <1>5, <2>1, <2>2
<1>7. ASSUME NEW By, \/ Begin(By) \/ Stream(By) \/ Commit(By) \/ Fails(By) \/ GivesUp(By) \/ Deadline(By)
                     \/ Interrupt(By) \/ Release(By)
      PROVE  SurveyInv'
  BY <1>7, <1>5 DEF Begin, Stream, Commit, Fails, GivesUp, Deadline, Abandon, Interrupt, Release
<1>8. ASSUME NEW p \in Panels, PanelReset(p) PROVE FALSE
  BY <1>8 DEF PanelReset
<1>9. CASE UNCHANGED vars
  BY <1>9 DEF vars, SurveyInv, Full
<1> QED
  BY <1>1, <1>2, <1>3, <1>4, <1>6, <1>7, <1>8, <1>9 DEF Next, Tool

LEMMA FirstStep ==
  ASSUME "reset" \notin Faults, TypeOK, FirstInv, [Next]_vars
  PROVE  FirstInv'
<1> SUFFICES ASSUME runs' = 0 PROVE pc' = "idle" /\ Agree'
  BY DEF FirstInv
<1>1. ASSUME NEW i, StartRun(i) PROVE FALSE
  BY <1>1 DEF StartRun, TypeOK
<1>2. CASE UNCHANGED vars
  BY <1>2, AgreeKept DEF vars, FirstInv
<1>3. CASE Tool \/ (\E By \in SUBSET Panels : Interrupt(By))
  <2>1. runs = 0
    BY <1>3 DEF Tool, Hold, Survey, EndSurvey, Begin, Commit, Stream, PollDone, PollResend,
                PollSilent, Fails, GivesUp, Deadline, Abandon, Release, Interrupt
  <2>2. pc # "idle"
    BY <1>3 DEF Tool, Hold, Survey, EndSurvey, Begin, Commit, Stream, PollDone, PollResend,
                PollSilent, Polled, Fails, GivesUp, Deadline, Release, Interrupt
  <2> QED
    BY <2>1, <2>2 DEF FirstInv
<1> QED
  BY <1>1, <1>2, <1>3 DEF Next, PanelReset

\* A single run, its 'B' and its questions heard and no panel reset, leaves no pad half new
\* whatever else goes wrong in it.
THEOREM OneRunNeverMixes ==
  ASSUME UpdateAssumption, {"B", "Q", "q", "reset"} \cap Faults = {}, MaxRuns <= 1
  PROVE  Spec => []NeverMixed
<1>1. Init => FirstInv /\ SurveyInv
  BY DEF Init, FirstInv, SurveyInv, Full, Agree
<1>2. TypeOK /\ TypeOK' /\ SurveyInv /\ [Next]_vars => SurveyInv'
  BY SurveyFull
<1>3. TypeOK /\ FirstInv /\ [Next]_vars => FirstInv'
  BY FirstStep
<1>4. SurveyInv => Full
  BY DEF SurveyInv
<1>5. TypeOK /\ FirstInv /\ [Next]_vars => [pc = "idle" /\ pc' = "hold" => Agree]_vars
  <2> SUFFICES ASSUME TypeOK, FirstInv, Next, pc = "idle", pc' = "hold" PROVE Agree
    OBVIOUS
  <2>1. \E i \in Images : StartRun(i)
    BY DEF Next, Tool, Hold, Survey, EndSurvey, Begin, Commit, Stream, PollDone, PollResend,
           PollSilent, Polled, Fails, GivesUp, Deadline, Abandon, Release, Interrupt, PanelReset
  <2>2. runs < MaxRuns /\ runs \in Nat /\ MaxRuns \in Nat
    BY <2>1 DEF StartRun, TypeOK, UpdateAssumption
  <2> QED
    BY <2>2 DEF FirstInv
<1>6. Spec => SurveysFindAll
  BY <1>1, <1>2, <1>4, TypeCorrect, PTL DEF Spec, SurveysFindAll
<1>7. Spec => RunsOnAgreeing
  BY <1>1, <1>3, <1>5, TypeCorrect, PTL DEF Spec, RunsOnAgreeing
<1>8. Spec /\ SurveysFindAll /\ RunsOnAgreeing => []NeverMixed
  BY NeverMixedUnlessRerun
<1> QED
  BY <1>6, <1>7, <1>8
=============================================================================
