----------------------------- MODULE FieldUpdate -----------------------------
(***************************************************************************)
(* The update of a whole pad over the bus: tools/panel_update.py, run as   *)
(* often as its operator likes and with whatever image, against the held   *)
(* bootloaders of every panel (bootloader/main.c).                         *)
(*                                                                         *)
(* The bus is half duplex and one frame long: a frame is heard at once or  *)
(* not at all, also because the panel is busy with its flash and throws    *)
(* away what came meanwhile.  A reply may come after the host has given    *)
(* up on it, and is then taken for the answer to its next question.        *)
(*                                                                         *)
(* A panel's install is a single step here, which is what PanelBoot keeps  *)
(* of AtomicInstall, or it fails and leaves no application to run: the     *)
(* record then says that it is pending, and the next boot tries again.  A  *)
(* CRC tells any two images apart, but two images may agree in some of     *)
(* their blocks.                                                           *)
(***************************************************************************)
EXTENDS Integers, FiniteSets, Sequences

CONSTANTS
  Panels,      \* the panels on the bus, all of them asked for
  Images,      \* application images
  Factory,     \* the image every panel starts with
  NoImage,     \* no 'U' has been heard
  Blocks,      \* blocks of an image
  Content,     \* what an image has in a block
  NoData,      \* a block that has not come
  Restream,    \* with more blocks missing than this all are sent again (256)
  Window,      \* answers that must show progress (6)
  Faults,      \* what may go wrong: kinds of frame lost ("q": or late), "copy"
               \* (flash does not program), "reset", "interrupt"
  MaxTrouble,  \* bound: lost or late frames, failed copies, aborts and resets
  MaxRuns      \* bound: runs of the tool

AllFaults == {"B", "Q", "q", "U", "D", "A", "X", "copy", "reset",
              "interrupt"}
Data  == {Content[i][b] : i \in Images, b \in Blocks}

ASSUME UpdateAssumption ==
  /\ Factory \in Images
  /\ NoImage \notin Images
  /\ NoData \notin Data
  /\ Restream \in Nat
  /\ Window \in Nat \ {0}
  /\ Faults \subseteq AllFaults
  /\ MaxTrouble \in Nat
  /\ MaxRuns \in Nat
  /\ IsFiniteSet(Blocks)
  /\ Content \in [Images -> [Blocks -> Data]]

VARIABLES
  app,        \* panel, flash: the application the record names
  pend,       \* panel, flash: the pending install, whose copy has failed
  held,       \* panel: it is in the bootloader, held
  st,         \* panel, RAM: g_state
  up,         \* panel, RAM: the image 'U' announced
  got,        \* panel, flash: the blocks in staging
  pc,         \* host: where run() is
  img,        \* host: the image
  present,    \* host: panels that answered the survey
  targets,    \* host: panels to update
  seen,       \* host: panels the loop under way is through with
  history,    \* host: the counts of missing blocks last told, by panel
  committed,  \* host: 'A' may have gone out
  late,       \* replies the host has not read, oldest first, by panel
  trouble,    \* what has gone wrong so far
  runs        \* runs so far

panel == <<app, pend, held, st, up, got>>
vars  == <<app, pend, held, st, up, got, pc, img, present, targets, seen,
           history, committed, late, trouble, runs>>

States == {"IDLE", "RECEIVING", "STAGED", "CRC_FAIL", "INSTALLED", "COPY_FAIL"}
Pcs == {"idle", "hold", "survey", "begin", "waitReceiving", "stream",
        "waitStaged", "commit", "waitInstalled", "release"}

NoBlocks == [b \in Blocks |-> NoData]
NoHistory == [p \in Panels |-> <<>>]

Init ==
  /\ app = [p \in Panels |-> Factory]
  /\ pend = [p \in Panels |-> NoImage]
  /\ held = [p \in Panels |-> FALSE]
  /\ st = [p \in Panels |-> "IDLE"]
  /\ up = [p \in Panels |-> NoImage]
  /\ got = [p \in Panels |-> NoBlocks]
  /\ pc = "idle"
  /\ img = Factory
  /\ present = {}
  /\ targets = {}
  /\ seen = {}
  /\ history = NoHistory
  /\ committed = FALSE
  /\ late = [p \in Panels |-> <<>>]
  /\ trouble = 0
  /\ runs = 0

-----------------------------------------------------------------------------
(* The bus *)

Costs == trouble < MaxTrouble /\ trouble' = trouble + 1

\* Of the frames of a kind that make up All, those in Got are heard.
Heard(kind, All, Got) ==
  \/ Got = All /\ UNCHANGED trouble
  \/ Got # All /\ kind \in Faults /\ Costs

-----------------------------------------------------------------------------
(* The panels: handle() of a held bootloader *)

\* RAM is lost: what had been staged cannot be installed any more.
Forget(By) ==
  /\ st' = [p \in Panels |-> IF p \in By THEN "IDLE" ELSE st[p]]
  /\ up' = [p \in Panels |-> IF p \in By THEN NoImage ELSE up[p]]
  /\ UNCHANGED got

\* The pending install has its source in staging.
Resumable(p) == pend[p] # NoImage /\ got[p] = Content[pend[p]]

\* The panels in By boot: a pending install is redone, unless it fails again
\* (Bad), and with none left the application is valid and runs.
Restart(By, hold, Bad) ==
  LET redone(p) == p \in By \ Bad /\ Resumable(p) IN
  /\ app' = [p \in Panels |-> IF redone(p) THEN pend[p] ELSE app[p]]
  /\ pend' = [p \in Panels |-> IF redone(p) THEN NoImage ELSE pend[p]]
  /\ held' = [p \in Panels |-> IF p \in By THEN hold \/ pend'[p] # NoImage
                                ELSE held[p]]
  /\ Forget(By)

\* 'U' for the host's image, heard by the panels in By.
DoBegin(By) ==
  LET hears(p) == p \in By /\ held[p] IN
  /\ st' = [p \in Panels |-> IF hears(p) THEN "RECEIVING" ELSE st[p]]
  /\ up' = [p \in Panels |-> IF hears(p) THEN img ELSE up[p]]
  /\ got' = [p \in Panels |-> IF hears(p) THEN NoBlocks ELSE got[p]]
  /\ UNCHANGED <<app, pend, held>>

Missing(g) == {b \in Blocks : g[b] = NoData}

\* 'D' for the host's blocks, heard as the pairs <<panel, block>> in By.  A
\* panel that is not receiving drops them, and one block counts once; the last
\* one missing has the CRC of the staged image looked at.
DoData(By) ==
  LET hears(p) == held[p] /\ st[p] = "RECEIVING"
      g(p) == [b \in Blocks |->
                 IF hears(p) /\ <<p, b>> \in By /\ got[p][b] = NoData
                 THEN Content[img][b] ELSE got[p][b]]
  IN
  /\ got' = [p \in Panels |-> g(p)]
  /\ st' = [p \in Panels |->
              IF ~hears(p) \/ Missing(g(p)) # {} THEN st[p]
              ELSE IF g(p) = Content[up[p]] THEN "STAGED" ELSE "CRC_FAIL"]
  /\ UNCHANGED <<app, pend, held, up>>

\* Mutant: 'A' installs whatever is staged.
ActivatesAny(p) == held[p] /\ st[p] = "STAGED"

\* 'A' counts on a panel that has staged the image it names.
Activates(p) == held[p] /\ st[p] = "STAGED" /\ up[p] = img

\* It is heard by the panels in By; of those that install, the copy of those
\* in Bad fails.
DoActivate(By, Bad) ==
  LET copies(p) == p \in By /\ Activates(p)
      fails(p)  == copies(p) /\ p \in Bad
  IN
  /\ app' = [p \in Panels |-> IF copies(p) /\ ~fails(p) THEN up[p] ELSE app[p]]
  /\ pend' = [p \in Panels |-> IF fails(p) THEN up[p]
                                ELSE IF copies(p) THEN NoImage ELSE pend[p]]
  /\ st' = [p \in Panels |-> IF fails(p) THEN "COPY_FAIL"
                              ELSE IF copies(p) THEN "INSTALLED" ELSE st[p]]
  /\ UNCHANGED <<held, up, got>>

\* 'A' goes to the panels in All, those in By hear it.
Activate(All, By, Bad) ==
  /\ Bad \subseteq By
  /\ \/ By = All /\ Bad = {} /\ UNCHANGED trouble
     \/ /\ By # All \/ Bad # {}
        /\ By # All => "A" \in Faults
        /\ Bad # {} => "copy" \in Faults
        /\ Costs
  /\ DoActivate(By, Bad)

\* 'X': an installed application that is valid runs, else the panel stays.
DoExit(By) ==
  LET hears == {p \in By : held[p]} IN
  /\ held' = [p \in Panels |-> held[p] /\ ~(p \in hears /\ pend[p] = NoImage)]
  /\ Forget(hears)
  /\ UNCHANGED <<app, pend>>

\* A panel loses power, or something resets it.
PanelReset(p) ==
  /\ "reset" \in Faults
  /\ Costs
  /\ \E Bad \in SUBSET {p} : Restart({p}, FALSE, Bad)
  /\ UNCHANGED <<pc, img, present, targets, seen, history, committed, late, runs>>

-----------------------------------------------------------------------------
(* query(): one question to panel p.  (A reply names the first sixteen     *)
(* missing blocks and counts them all; here it names them all.)            *)

Status(p) == [st |-> st[p],
              missing |-> IF st[p] = "RECEIVING" THEN Missing(got[p]) ELSE {}]

\* What the host finds if the question and the reply to it come through.
Replies(p) == IF held[p] THEN Append(late[p], Status(p)) ELSE late[p]

\* It takes the oldest, whatever question that belongs to.
Reads(p) ==
  /\ Replies(p) # <<>>
  /\ late' = [late EXCEPT ![p] = Tail(Replies(p))]
Answer(p) == Head(Replies(p))

\* It finds nothing: nobody answers, a frame was lost, or the reply is late.
TimesOut(p) ==
  \/ /\ Replies(p) = <<>>
     /\ UNCHANGED <<late, trouble>>
  \/ /\ held[p]
     /\ late[p] = <<>>
     /\ Costs
     /\ \/ {"Q", "q"} \cap Faults # {} /\ UNCHANGED late
        \/ "q" \in Faults /\ late' = [late EXCEPT ![p] = Replies(p)]

-----------------------------------------------------------------------------
(* run() *)

StartRun(i) ==
  /\ pc = "idle"
  /\ runs < MaxRuns
  /\ runs' = runs + 1
  /\ pc' = "hold"
  /\ img' = i
  /\ present' = {}
  /\ targets' = {}
  /\ seen' = {}
  /\ committed' = FALSE
  /\ late' = [p \in Panels |-> <<>>]
  /\ UNCHANGED <<panel, history, trouble>>

\* 'B', often enough for a running application to reboot and to be held.
Hold(By) ==
  /\ pc = "hold"
  /\ Heard("B", Panels, By)
  /\ Restart({p \in By : ~held[p]}, TRUE, {})
  /\ pc' = "survey"
  /\ UNCHANGED <<img, present, targets, seen, history, committed, late, runs>>

\* Three tries; a late reply to one is read in the next, whose own stays.
Survey(p) ==
  /\ pc = "survey"
  /\ p \notin seen
  /\ seen' = seen \cup {p}
  /\ \/ /\ Reads(p)
        /\ present' = present \cup {p}
        /\ UNCHANGED trouble
     \/ /\ held[p]
        /\ "q" \in Faults
        /\ Costs
        /\ present' = present \cup {p}
        /\ late' = [late EXCEPT ![p] = Replies(p)]
     \/ TimesOut(p) /\ UNCHANGED present
  /\ UNCHANGED <<panel, pc, img, targets, history, committed, runs>>

\* The tool updates what does not report the image, or everything (--force).
EndSurvey(force) ==
  /\ pc = "survey"
  /\ seen = Panels
  /\ present # {}
  /\ targets' = IF force THEN present ELSE {p \in present : app[p] # img}
  /\ pc' = IF targets' = {} THEN "release" ELSE "begin"
  /\ seen' = {}
  /\ UNCHANGED <<panel, img, present, history, committed, late, trouble, runs>>

\* 'U', addressed to each target.
Begin(By) ==
  /\ pc = "begin"
  /\ Heard("U", targets, By)
  /\ DoBegin(By)
  /\ pc' = "waitReceiving"
  /\ UNCHANGED <<img, present, targets, seen, history, committed, late, runs>>

\* Every block once, broadcast: whoever is receiving takes it.
Stream(By) ==
  /\ pc = "stream"
  /\ Heard("D", Panels \X Blocks, By)
  /\ DoData(By)
  /\ pc' = "waitStaged"
  /\ UNCHANGED <<img, present, targets, seen, history, committed, late, runs>>

\* 'A', addressed to each target.
Commit(By) ==
  /\ pc = "commit"
  /\ committed' = TRUE
  /\ \E Bad \in SUBSET By : Activate(targets, By, Bad)
  /\ pc' = "waitInstalled"
  /\ UNCHANGED <<img, present, targets, seen, history, late, runs>>

\* wait_state: what is waited for, and what follows.
Want(c) == CASE c = "waitReceiving" -> "RECEIVING"
             [] c = "waitStaged" -> "STAGED"
             [] c = "waitInstalled" -> "INSTALLED"
After(c) == CASE c = "waitReceiving" -> "stream"
              [] c = "waitStaged" -> "commit"
              [] c = "waitInstalled" -> "release"

\* Panel p is polled.
Polled(p) ==
  /\ pc \in {"waitReceiving", "waitStaged", "waitInstalled"}
  /\ p \in targets \ seen

PollSilent(p) ==
  /\ Polled(p)
  /\ TimesOut(p)
  /\ UNCHANGED <<panel, pc, img, present, targets, seen, history, committed, runs>>

\* Mutant: one panel that has got there is enough.
AnyDone(p) == TRUE

AllDone(p) == seen \cup {p} = targets

PollDone(p) ==
  /\ Polled(p)
  /\ Reads(p)
  /\ Answer(p).st = Want(pc)
  /\ IF AllDone(p) THEN pc' = After(pc) /\ seen' = {} /\ history' = NoHistory
     ELSE pc' = pc /\ seen' = seen \cup {p} /\ history' = history
  /\ UNCHANGED <<panel, img, present, targets, committed, trouble, runs>>

\* Mutant: with too many blocks missing none are sent again.
FillFew(p, missing) ==
  IF Cardinality(missing) > Restream THEN {} ELSE {p} \X missing

\* The blocks sent to fill the gaps of panel p: to p alone, or to everyone.
Fill(p, missing) ==
  IF Cardinality(missing) > Restream THEN Panels \X Blocks ELSE {p} \X missing

Failed == {"CRC_FAIL", "COPY_FAIL"}

\* The counts panel p has told of, with one more: as many as are looked at.
Counted(p, missing) ==
  LET h == Append(history[p], Cardinality(missing))
  IN  IF Len(h) > Window + 1 THEN Tail(h) ELSE h

\* Filling gets nowhere: as many are missing as were Window answers ago, the
\* last among them.
Stuck(h) == Len(h) > Window /\ h[Len(h)] >= h[Len(h) - Window + 1]

\* It has not got there: the frame that should take it there goes out again.
PollResend(p) ==
  LET r == Answer(p) IN
  /\ Polled(p)
  /\ Reads(p)
  /\ r.st \notin {Want(pc)} \cup Failed
  /\ \/ /\ pc = "waitReceiving"
        /\ \E By \in SUBSET {p} : Heard("U", {p}, By) /\ DoBegin(By)
        /\ UNCHANGED history
     \/ /\ pc = "waitStaged"
        /\ r.st = "RECEIVING"
        /\ history' = [history EXCEPT ![p] = Counted(p, r.missing)]
        /\ ~Stuck(history'[p])
        /\ \E By \in SUBSET Fill(p, r.missing) :
             Heard("D", Fill(p, r.missing), By) /\ DoData(By)
     \/ /\ pc = "waitInstalled"
        /\ r.st = "STAGED"
        /\ \E By \in SUBSET {p} : \E Bad \in SUBSET By : Activate({p}, By, Bad)
        /\ UNCHANGED history
     \/ /\ \/ pc = "waitStaged" /\ r.st # "RECEIVING"
           \/ pc = "waitInstalled" /\ r.st # "STAGED"
        /\ UNCHANGED <<panel, history, trouble>>
  /\ UNCHANGED <<pc, img, present, targets, seen, committed, runs>>

\* The end of a run that failed: 'X', heard by some, unless 'A' may be out.
Abandon(By) ==
  /\ pc' = "idle"
  /\ history' = NoHistory
  /\ IF committed THEN UNCHANGED <<panel, trouble>> /\ By = {}
     ELSE Heard("X", Panels, By) /\ DoExit(By)
  /\ UNCHANGED <<img, present, targets, seen, committed, runs>>

\* An answer that no waiting will mend, or none from anybody.
Fails(By) ==
  /\ \/ /\ pc = "survey"
        /\ seen = Panels
        /\ present = {}
        /\ UNCHANGED late
     \/ \E p \in targets :
          /\ Polled(p)
          /\ Reads(p)
          /\ Answer(p).st \in Failed
  /\ Abandon(By)

\* Gaps that filling does not close.
GivesUp(By) ==
  /\ \E p \in targets :
       /\ Polled(p)
       /\ Reads(p)
       /\ pc = "waitStaged"
       /\ Answer(p).st = "RECEIVING"
       /\ Stuck(Counted(p, Answer(p).missing))
  /\ Abandon(By)

\* The deadline: panel p does not answer, or the frame sent again and again
\* does nothing for it, and nothing still to be read of it says otherwise.
Hopeless(p) ==
  \/ ~held[p]
  \/ pc = "waitStaged" /\ st[p] \notin {"RECEIVING", "STAGED"} \cup Failed
  \/ pc = "waitInstalled" /\ st[p] \notin {"INSTALLED"} \cup Failed /\ ~Activates(p)

Deadline(By) ==
  /\ \E p \in Panels :
       /\ Polled(p) /\ Hopeless(p)
       /\ \A i \in DOMAIN late[p] : held[p] /\ late[p][i] = Status(p)
  /\ Abandon(By)
  /\ UNCHANGED late

\* ^C, a deadline met by delays alone, or the tool or the cable going away:
\* then 'X' is not even sent, which its loss stands for.
Interrupt(By) ==
  /\ pc # "idle"
  /\ "interrupt" \in Faults
  /\ Costs
  /\ pc' = "idle"
  /\ history' = NoHistory
  /\ \/ /\ committed
        /\ By = {}
        /\ UNCHANGED panel
     \/ /\ ~committed
        /\ By = Panels \/ "X" \in Faults
        /\ DoExit(By)
  /\ UNCHANGED <<img, present, targets, seen, committed, late, runs>>

\* Every target has the image, or every panel had it: 'X'.
Release(By) ==
  /\ pc = "release"
  /\ Heard("X", Panels, By)
  /\ DoExit(By)
  /\ pc' = "idle"
  /\ UNCHANGED <<img, present, targets, seen, history, committed, late, runs>>

-----------------------------------------------------------------------------
Tool ==
  \/ \E By \in SUBSET Panels : Hold(By)
  \/ \E p \in Panels : Survey(p)
  \/ \E force \in BOOLEAN : EndSurvey(force)
  \/ \E By \in SUBSET targets : Begin(By) \/ Commit(By)
  \/ \E By \in SUBSET (Panels \X Blocks) : Stream(By)
  \/ \E p \in Panels : PollDone(p) \/ PollResend(p)
  \/ \E p \in Panels : PollSilent(p)
  \/ \E By \in SUBSET Panels : Fails(By) \/ GivesUp(By) \/ Deadline(By) \/ Release(By)

Next ==
  \/ \E i \in Images : StartRun(i)
  \/ Tool
  \/ \E By \in SUBSET Panels : Interrupt(By)
  \/ \E p \in Panels : PanelReset(p)

Spec == Init /\ [][Next]_vars

\* The tool goes on by itself and polls every panel it waits for; it needs its
\* operator only to be started.
Fairness ==
  /\ WF_vars(Tool)
  /\ \A p \in Panels : WF_vars(PollDone(p) \/ PollResend(p))
FairSpec == Spec /\ Fairness

-----------------------------------------------------------------------------
(* Properties *)

\* Every variable keeps its type.
TypeOK ==
  /\ app \in [Panels -> Images]
  /\ pend \in [Panels -> Images \cup {NoImage}]
  /\ held \in [Panels -> BOOLEAN]
  /\ st \in [Panels -> States]
  /\ up \in [Panels -> Images \cup {NoImage}]
  /\ got \in [Panels -> [Blocks -> Data \cup {NoData}]]
  /\ pc \in Pcs
  /\ img \in Images
  /\ present \subseteq Panels
  /\ targets \subseteq present
  /\ seen \subseteq Panels
  /\ history \in [Panels -> Seq(Nat)]
  /\ committed \in BOOLEAN
  /\ late \in [Panels -> Seq([st : States, missing : SUBSET Blocks])]
  /\ trouble \in Nat
  /\ runs \in Nat

\* A panel that has staged an image, whatever came of its copy, or has been
\* reset since, which leaves one whose copy has failed in the bootloader.
Ready(p) ==
  \/ st[p] \in {"STAGED", "INSTALLED", "COPY_FAIL"}
  \/ ~held[p]
  \/ st[p] = "IDLE" /\ pend[p] # NoImage

\* "Nothing is installed anywhere until every participating panel holds a
\* verified copy" (FIELD_UPDATE.md), in what the tool can see of it: a copy is
\* begun only of the tool's image, on a target, when every other target has
\* staged an image with the CRC announced to it, or has been reset since.  And
\* no application changes but by that copy, or by the boot that redoes it.
InstallsWhenAllReady ==
  [][\A p \in Panels :
       /\ st[p] = "STAGED" /\ st'[p] \in {"INSTALLED", "COPY_FAIL"} =>
            p \in targets /\ up[p] = img /\ \A t \in targets : Ready(t)
       /\ app'[p] # app[p] =>
            app'[p] = IF st'[p] = "INSTALLED" THEN img ELSE pend[p]]_vars

\* The same with the image itself: every target has the one that is installed.
InstallsWhenAllHaveImage ==
  [][\A p \in Panels : app'[p] # app[p] =>
       \A t \in targets : held[t] => up[t] = img]_vars

\* When the tool reports success, every panel it updated has the image, whole,
\* whatever replies came late and whatever was reset, lost or failed to copy
\* on the way.
SuccessMeansInstalled ==
  pc = "release" => \A t \in targets : app[t] = img /\ pend[t] = NoImage

\* "The pad never ends up half old and half new": when every panel of the pad
\* runs its application they all run the same.
NeverMixed ==
  (\A p \in Panels : ~held[p]) => \A p, q \in Panels : app[p] = app[q]

\* The run is over and the panels in Which run its image.
Over(Which) == pc = "idle" /\ \A p \in Which : ~held[p] /\ app[p] = img

\* Every target is receiving the image or past that, with whatever gaps.
UnderWay ==
  /\ pc \in {"stream", "waitStaged", "commit", "waitInstalled"}
  /\ \A t \in targets : held[t] /\ up[t] = img /\ st[t] \notin Failed

\* Filling once more, and what is still to be read of panel p, will not use up
\* the tool's patience.
Patient(p) == Len(history[p]) + Len(late[p]) < Window

\* The record of no panel whose copy has failed names the tool's image: the
\* tool would go by that and pass over a panel that cannot run it.
NoneMisread == \A p \in Panels : pend[p] # NoImage => app[p] # img

\* Nothing more goes wrong.  A reset of a panel that runs its application
\* changes nothing else, so what the bound leaves can be used up at any time.
Calm == trouble = MaxTrouble

\* "They stay reachable and the update can simply be re-run" (panel_update.py):
\* a run in which nothing goes wrong ends with every panel running its image,
\* whatever the runs before it have left, failed copies included (but for
\* NoneMisread); one in which nothing more goes wrong fills all the gaps and
\* ends so for every target, unless it was already out of patience; and no run
\* goes on for ever.
RunFinishes ==
  /\ (pc = "hold" /\ Calm /\ NoneMisread) ~> Over(Panels)
  /\ (UnderWay /\ Calm /\ \A t \in targets : Patient(t)) ~> Over(targets)
  /\ (pc # "idle") ~> (pc = "idle")
=============================================================================
