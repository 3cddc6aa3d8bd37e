--------------------------- MODULE AppEntryProofs ---------------------------
(***************************************************************************)
(* What the app entry thread and main may rely on, for any number of       *)
(* devices and applications.                                               *)
(*                                                                         *)
(* The argument is about who has seen what.  Once main has read a REMOVE   *)
(* and freed the table, nothing is shown until main reads an ADD; before,  *)
(* a REMOVE that is still to be read excuses what is shown.  Main reads an *)
(* action with the mutex, at a point of the frame where a thread it has    *)
(* signalled has run: so the thread sleeps until main posts again, and the *)
(* slides of the browser are over by then.                                 *)
(***************************************************************************)
EXTENDS AppEntry, TLAPS

Quiet == ~lostRemove /\ ~clobbered

\* The second half of TableAgrees.
TablesApart ==
    /\ view \subseteq all
    /\ mpc \in {"remove", "delete"} /\ Quiet => ~loading

\* Between a removal and the end of the load of another device.
NothingLoaded == active = NoDev \/ aePc \in {"prefer", "any", "load"}

\* Where the thread is, and what it has in hand.
ThreadOrder ==
    /\ loading <=> aePc = "load"
    /\ aePc \in {"mount", "mountprefered"} => active = NoDev /\ marg # NoDev
    /\ aePc = "load" => active # NoDev
    /\ aePc = "load" /\ action = "REMOVE" => lostRemove

\* Where main is, and what the thread may do there.
MainOrder ==
    /\ mpc \in {"remove", "add", "delete", "loadapp", "upload", "extract", "refresh",
                "options"} => vcur = "browser"
    /\ mpc \in {"top", "input"} => Woke
    /\ mpc \in {"remove", "add"} => aePc \in {"wait", "done"}
    /\ mpc = "add" => active # NoDev
    /\ mpc \in {"extract", "refresh"} /\ active = NoDev => action = "REMOVE"

\* What is not loaded, and not about to be removed, is not shown.
NothingShown ==
    Quiet /\ NothingLoaded /\ action # "REMOVE" /\ mpc # "remove" =>
        /\ page = {} /\ view = {}
        /\ vcur # "detail" /\ mpc \notin {"delete", "loadapp"}

IInv ==
    /\ TypeOK /\ TablesApart /\ HideBeforeFree /\ OneVolume /\ ActionIsCurrent
    /\ ThreadOrder /\ MainOrder /\ NothingShown

\* The part of TypeOK about flags, which the provers take by itself.
Flags == {running, umount, loading, lostRemove, clobbered} \subseteq BOOLEAN

---------------------------------------------------------------------------
\* Before the thread has started.
LEMMA InitIInv == Init => IInv
<1> SUFFICES ASSUME Init PROVE IInv
  OBVIOUS
<1> USE ConstAssumption DEF Init, Flags, IInv, TypeOK, TablesApart, HideBeforeFree,
   OneVolume, ActionIsCurrent, ThreadOrder, MainOrder, NothingShown, NothingLoaded, Quiet,
   Devices, NoDev, Pointer, AePcs, MPcs, ae, ta, dev, table, ui, hist
<1>1. Flags
  OBVIOUS
<1>2. TypeOK
  BY <1>1
<1>3. TablesApart /\ HideBeforeFree /\ OneVolume /\ ActionIsCurrent
  OBVIOUS
<1>4. ThreadOrder /\ MainOrder /\ NothingShown
  BY DEF Woke
<1> QED
  BY <1>2, <1>3, <1>4

\* The thread.
LEMMA AeKeepsIInv == IInv /\ AeNext => IInv'
<1> SUFFICES ASSUME IInv, AeNext PROVE IInv'
  OBVIOUS
<1> USE ConstAssumption DEF Flags, IInv, TypeOK, TablesApart, HideBeforeFree, OneVolume,
   ActionIsCurrent, ThreadOrder, MainOrder, NothingShown, NothingLoaded, Quiet, Devices,
   NoDev, Pointer, AePcs, MPcs, ae, ta, dev, table, ui, hist, Woke
<1>f. Flags
  OBVIOUS
<1>1. CASE AeStart
  BY <1>1 DEF AeStart, LoopTop
<1>2. CASE AeWake
  <2> USE <1>2 DEF AeWake
  <2>1. Flags'
    BY <1>f
  <2>2. TypeOK'
    BY <2>1
  <2>3. TablesApart'
    OBVIOUS
  <2>4. HideBeforeFree'
    OBVIOUS
  <2>5. OneVolume'
    OBVIOUS
  <2>6. ActionIsCurrent'
    OBVIOUS
  <2>7. ThreadOrder'
    OBVIOUS
  <2>8. MainOrder'
    OBVIOUS
  <2>9. NothingShown'
    OBVIOUS
  <2> QED
    BY <2>2, <2>3, <2>4, <2>5, <2>6, <2>7, <2>8, <2>9
<1>3. CASE AeScanActive
  <2> USE <1>3 DEF AeScanActive, LoopTop
  <2>1. Flags'
    BY <1>f
  <2>2. TypeOK'
    BY <2>1
  <2>3. TablesApart'
    OBVIOUS
  <2>4. HideBeforeFree'
    OBVIOUS
  <2>5. OneVolume'
    OBVIOUS
  <2>6. ActionIsCurrent'
    OBVIOUS
  <2>7. ThreadOrder'
    OBVIOUS
  <2>8. MainOrder'
    OBVIOUS
  <2>9. NothingShown'
    OBVIOUS
  <2> QED
    BY <2>2, <2>3, <2>4, <2>5, <2>6, <2>7, <2>8, <2>9
<1>4. CASE AeUnmount
  BY <1>4 DEF AeUnmount, LoopTop
<1>5. CASE AeScanMount
  BY <1>5 DEF AeScanMount
<1>6. CASE AeMount
  <2> USE <1>6 DEF AeMount, Switched
  <2>1. Flags'
    BY <1>f
  <2>2. TypeOK'
    <3>1. /\ mounted' \subseteq Devices /\ active' \in Devices \union {NoDev}
          /\ switched' \subseteq Devices
      <4> HIDE DEF Devices, NoDev
      <4>1. CASE marg \in plugged
        BY <4>1
      <4>2. CASE ~(marg \in plugged)
        BY <4>2
      <4> QED
        BY <4>1, <4>2
    <3>2. /\ aePc' \in AePcs /\ marg' \in Devices \union {NoDev} /\ scanIdx' \in 0..NDev
          /\ mount' \in Devices \union {NoDev}
      OBVIOUS
    <3> QED
      BY <2>1, <3>1, <3>2
  <2>3. TablesApart'
    OBVIOUS
  <2>4. HideBeforeFree'
    OBVIOUS
  <2>5. OneVolume'
    <3>1. CASE marg \in plugged
      <4>1. mounted' = mounted \union {marg} /\ active = NoDev
        BY <3>1
      <4>2. active' = mount /\ switched' = Switched(mount)
        BY <3>1
      <4> QED
        BY <4>1, <4>2
    <3>2. CASE ~(marg \in plugged)
      <4>1. UNCHANGED <<mounted, active, switched, mpc>>
        BY <3>2
      <4> QED
        BY <4>1
    <3> QED
      BY <3>1, <3>2
  <2>6. ActionIsCurrent'
    OBVIOUS
  <2>7. ThreadOrder'
    OBVIOUS
  <2>8. MainOrder'
    OBVIOUS
  <2>9. NothingShown'
    OBVIOUS
  <2> QED
    BY <2>2, <2>3, <2>4, <2>5, <2>6, <2>7, <2>8, <2>9
<1>7. CASE AePrefer
  BY <1>7 DEF AePrefer
<1>8. CASE AeMountPrefered
  <2> USE <1>8 DEF AeMountPrefered, Switched
  <2>1. Flags'
    BY <1>f
  <2>2. TypeOK'
    <3>1. /\ mounted' \subseteq Devices /\ active' \in Devices \union {NoDev}
          /\ switched' \subseteq Devices
      <4> HIDE DEF Devices, NoDev
      <4>1. CASE marg \in plugged
        BY <4>1
      <4>2. CASE ~(marg \in plugged)
        BY <4>2
      <4> QED
        BY <4>1, <4>2
    <3>2. /\ aePc' \in AePcs /\ marg' \in Devices \union {NoDev} /\ scanIdx' \in 0..NDev
          /\ mount' \in Devices \union {NoDev}
      OBVIOUS
    <3> QED
      BY <2>1, <3>1, <3>2
  <2>3. TablesApart'
    OBVIOUS
  <2>4. HideBeforeFree'
    OBVIOUS
  <2>5. OneVolume'
    <3>1. CASE marg \in plugged
      <4>1. mounted' = mounted \union {marg} /\ active = NoDev
        BY <3>1
      <4>2. active' = prefered /\ switched' = Switched(prefered)
        BY <3>1
      <4> QED
        BY <4>1, <4>2
    <3>2. CASE ~(marg \in plugged)
      <4>1. UNCHANGED <<mounted, active, switched, mpc>>
        BY <3>2
      <4> QED
        BY <4>1
    <3> QED
      BY <3>1, <3>2
  <2>6. ActionIsCurrent'
    OBVIOUS
  <2>7. ThreadOrder'
    OBVIOUS
  <2>8. MainOrder'
    OBVIOUS
  <2>9. NothingShown'
    OBVIOUS
  <2> QED
    BY <2>2, <2>3, <2>4, <2>5, <2>6, <2>7, <2>8, <2>9
<1>9. CASE AeMountAny
  <2> USE <1>9 DEF AeMountAny
  <2>1. Flags'
    BY <1>f
  <2>2. TypeOK'
    <3>1. /\ mounted' \subseteq Devices /\ active' \in Devices \union {NoDev}
          /\ switched' \subseteq Devices
      <4> HIDE DEF Devices, NoDev
      <4>1. CASE scanIdx \in plugged
        BY <4>1
      <4>2. CASE ~(scanIdx \in plugged)
        BY <4>2
      <4> QED
        BY <4>1, <4>2
    <3>2. /\ aePc' \in AePcs /\ marg' \in Devices \union {NoDev} /\ scanIdx' \in 0..NDev
          /\ mount' \in Devices \union {NoDev}
      OBVIOUS
    <3> QED
      BY <2>1, <3>1, <3>2
  <2>3. TablesApart'
    OBVIOUS
  <2>4. HideBeforeFree'
    OBVIOUS
  <2>5. OneVolume'
    <3>1. CASE scanIdx \in plugged
      <4>1. mounted' = mounted \union {scanIdx} /\ active = NoDev
        BY <3>1
      <4>2. active' = scanIdx /\ switched' = switched \ {scanIdx}
        BY <3>1
      <4> QED
        BY <4>1, <4>2
    <3>2. CASE ~(scanIdx \in plugged)
      <4>1. UNCHANGED <<mounted, active, switched, mpc>>
        BY <3>2
      <4> QED
        BY <4>1
    <3> QED
      BY <3>1, <3>2
  <2>6. ActionIsCurrent'
    OBVIOUS
  <2>7. ThreadOrder'
    OBVIOUS
  <2>8. MainOrder'
    OBVIOUS
  <2>9. NothingShown'
    OBVIOUS
  <2> QED
    BY <2>2, <2>3, <2>4, <2>5, <2>6, <2>7, <2>8, <2>9
<1>10. CASE AeNothingFound
  BY <1>10 DEF AeNothingFound, LoopTop
<1>11. CASE AeLoadFree
  <2> USE <1>11 DEF AeLoadFree, FreePointers, Dangle
  <2>1. Flags'
    BY <1>f
  <2>2. TypeOK'
    BY <2>1
  <2>3. TablesApart'
    OBVIOUS
  <2>4. HideBeforeFree'
    OBVIOUS
  <2>5. OneVolume'
    OBVIOUS
  <2>6. ActionIsCurrent'
    OBVIOUS
  <2>7. ThreadOrder'
    OBVIOUS
  <2>8. MainOrder'
    OBVIOUS
  <2>9. NothingShown'
    OBVIOUS
  <2> QED
    BY <2>2, <2>3, <2>4, <2>5, <2>6, <2>7, <2>8, <2>9
<1>12. CASE AeLoadEntry
  BY <1>12 DEF AeLoadEntry
<1>13. CASE AeLoadDone
  <2> USE <1>13 DEF AeLoadDone, LoopTop
  <2>1. Flags'
    BY <1>f
  <2>2. TypeOK'
    BY <2>1
  <2>3. TablesApart'
    OBVIOUS
  <2>4. HideBeforeFree'
    OBVIOUS
  <2>5. OneVolume'
    OBVIOUS
  <2>6. ActionIsCurrent'
    OBVIOUS
  <2>7. ThreadOrder'
    OBVIOUS
  <2>8. MainOrder'
    OBVIOUS
  <2>9. NothingShown'
    OBVIOUS
  <2> QED
    BY <2>2, <2>3, <2>4, <2>5, <2>6, <2>7, <2>8, <2>9
<1>14. CASE AePoll
  BY <1>14 DEF AePoll, LoopTop
<1> HIDE DEF Flags, IInv
<1> QED
  BY <1>1, <1>2, <1>3, <1>4, <1>5, <1>6, <1>7, <1>8, <1>9, <1>10, <1>11, <1>12, <1>13, <1>14
     DEF AeNext

\* The frames of main.
LEMMA LoopKeepsIInv == IInv /\ Loop => IInv'
<1> SUFFICES ASSUME IInv, Loop PROVE IInv'
  OBVIOUS
<1> USE ConstAssumption DEF Flags, IInv, TypeOK, TablesApart, HideBeforeFree, OneVolume,
   ActionIsCurrent, ThreadOrder, MainOrder, NothingShown, NothingLoaded, Quiet, Devices,
   NoDev, Pointer, AePcs, MPcs, ae, ta, dev, table, ui, hist, Woke
<1>f. Flags
  OBVIOUS
<1>1. CASE MStart
  BY <1>1 DEF MStart
<1>2. CASE MFrame
  <2> USE <1>2 DEF MFrame, ScanAndPlot, Polls, MutexFree, app_entry_post, Signal
  <2>1. Flags'
    BY <1>f
  <2>2. TypeOK'
    BY <2>1
  <2>3. TablesApart'
    OBVIOUS
  <2>4. HideBeforeFree'
    OBVIOUS
  <2>5. OneVolume'
    OBVIOUS
  <2>6. ActionIsCurrent'
    OBVIOUS
  <2>7. ThreadOrder'
    OBVIOUS
  <2>8. MainOrder'
    OBVIOUS
  <2>9. NothingShown'
    OBVIOUS
  <2> QED
    BY <2>2, <2>3, <2>4, <2>5, <2>6, <2>7, <2>8, <2>9
<1>3. CASE MRemoveSeen
  BY <1>3 DEF MRemoveSeen, Polls, MutexFree
<1>4. CASE MRemove
  <2> USE <1>4 DEF MRemove, ScanAndPlot, Dangle, app_entry_post, Signal, MutexFree
  <2>1. Flags'
    BY <1>f
  <2>2. TypeOK'
    BY <2>1
  <2>3. TablesApart'
    OBVIOUS
  <2>4. HideBeforeFree'
    OBVIOUS
  <2>5. OneVolume'
    OBVIOUS
  <2>6. ActionIsCurrent'
    OBVIOUS
  <2>7. ThreadOrder'
    OBVIOUS
  <2>8. MainOrder'
    OBVIOUS
  <2>9. NothingShown'
    OBVIOUS
  <2> QED
    BY <2>2, <2>3, <2>4, <2>5, <2>6, <2>7, <2>8, <2>9
<1>5. CASE MAddSeen
  BY <1>5 DEF MAddSeen, Polls, MutexFree
<1>6. CASE MAdd
  <2> USE <1>6 DEF MAdd, ScanAndPlot, app_entry_post, Signal, MutexFree
  <2>1. Flags'
    BY <1>f
  <2>2. TypeOK'
    BY <2>1
  <2>3. TablesApart'
    OBVIOUS
  <2>4. HideBeforeFree'
    OBVIOUS
  <2>5. OneVolume'
    OBVIOUS
  <2>6. ActionIsCurrent'
    OBVIOUS
  <2>7. ThreadOrder'
    OBVIOUS
  <2>8. MainOrder'
    OBVIOUS
  <2>9. NothingShown'
    OBVIOUS
  <2> QED
    BY <2>2, <2>3, <2>4, <2>5, <2>6, <2>7, <2>8, <2>9
<1>7. CASE MPlot
  BY <1>7 DEF MPlot
<1> HIDE DEF Flags, IInv
<1> QED
  BY <1>1, <1>2, <1>3, <1>4, <1>5, <1>6, <1>7 DEF Loop

\* What the user does.
LEMMA UserKeepsIInv == IInv /\ User => IInv'
<1> SUFFICES ASSUME IInv, User PROVE IInv'
  OBVIOUS
<1> USE ConstAssumption DEF Flags, IInv, TypeOK, TablesApart, HideBeforeFree, OneVolume,
   ActionIsCurrent, ThreadOrder, MainOrder, NothingShown, NothingLoaded, Quiet, Devices,
   NoDev, Pointer, AePcs, MPcs, ae, ta, dev, table, ui, hist, Woke
<1>f. Flags
  OBVIOUS
<1>1. CASE Idle
  BY <1>1 DEF Idle
<1>2. CASE Menu
  BY <1>2 DEF Menu
<1>3. CASE TurnPage
  BY <1>3 DEF TurnPage, Frame
<1>4. CASE OpenDetail
  BY <1>4 DEF OpenDetail, Frame
<1>5. CASE CloseDetail
  BY <1>5 DEF CloseDetail, Frame
<1>6. CASE MDelete
  BY <1>6 DEF MDelete
<1>7. CASE MLoaded
  BY <1>7 DEF MLoaded
<1>8. CASE Upload
  BY <1>8 DEF Upload, Frame
<1>9. CASE MExtract
  BY <1>9 DEF MExtract
<1>10. CASE MUploaded
  <2>0. PICK a \in Apps, ok \in BOOLEAN :
            /\ all' = IF ok THEN all \union {a} ELSE all \ {a}
            /\ view' = IF ok \/ a \in all THEN all' ELSE view
            /\ page' = {Dangle(p, all \intersect {a}) : p \in page}
            /\ clobbered' = (clobbered \/ a \in all \/ ~MutexFree)
            /\ mpc' = IF ok THEN "refresh" ELSE "top"
    BY <1>10 DEF MUploaded
  <2> USE <1>10 DEF MUploaded, MutexFree, Dangle
  <2>1. Flags'
    BY <1>f
  <2>2. TypeOK'
    BY <2>1
  <2>3. TablesApart'
    OBVIOUS
  <2>4. HideBeforeFree'
    <3>1. a \notin all => page' = page
      <4>1. a \notin all => \A p : Dangle(p, all \intersect {a}) = p
        OBVIOUS
      <4> QED
        BY <2>0, <4>1
    <3>2. UNCHANGED <<lostRemove, vcur, appSel>> /\ mpc' \in {"refresh", "top"}
      BY <2>0
    <3>3. ~clobbered' => ~clobbered /\ a \notin all
      BY <2>0
    <3> QED
      BY <3>1, <3>2, <3>3
  <2>5. OneVolume'
    OBVIOUS
  <2>6. ActionIsCurrent'
    OBVIOUS
  <2>7. ThreadOrder'
    OBVIOUS
  <2>8. MainOrder'
    OBVIOUS
  <2>9. NothingShown'
    OBVIOUS
  <2> QED
    BY <2>2, <2>3, <2>4, <2>5, <2>6, <2>7, <2>8, <2>9
<1>11. CASE MRefresh
  BY <1>11 DEF MRefresh, MutexFree
<1>12. CASE Options
  <2> USE <1>12 DEF Options, app_entry_post, Frame, Signal, MutexFree
  <2>1. Flags'
    BY <1>f
  <2>2. TypeOK'
    BY <2>1
  <2>3. TablesApart'
    OBVIOUS
  <2>4. HideBeforeFree'
    OBVIOUS
  <2>5. OneVolume'
    OBVIOUS
  <2>6. ActionIsCurrent'
    OBVIOUS
  <2>7. ThreadOrder'
    OBVIOUS
  <2>8. MainOrder'
    OBVIOUS
  <2>9. NothingShown'
    OBVIOUS
  <2> QED
    BY <2>2, <2>3, <2>4, <2>5, <2>6, <2>7, <2>8, <2>9
<1>13. CASE OptionsDone
  <2> USE <1>13 DEF OptionsDone
  <2>1. Flags'
    BY <1>f
  <2>2. TypeOK'
    BY <2>1
  <2>3. TablesApart'
    OBVIOUS
  <2>4. HideBeforeFree'
    OBVIOUS
  <2>5. OneVolume'
    OBVIOUS
  <2>6. ActionIsCurrent'
    OBVIOUS
  <2>7. ThreadOrder'
    OBVIOUS
  <2>8. MainOrder'
    OBVIOUS
  <2>9. NothingShown'
    OBVIOUS
  <2> QED
    BY <2>2, <2>3, <2>4, <2>5, <2>6, <2>7, <2>8, <2>9
<1> HIDE DEF Flags, IInv
<1> QED
  BY <1>1, <1>2, <1>3, <1>4, <1>5, <1>6, <1>7, <1>8, <1>9, <1>10, <1>11, <1>12, <1>13 DEF
     User

\* Leaving.
LEMMA LeaveKeepsIInv == IInv /\ Leave => IInv'
<1> SUFFICES ASSUME IInv, Leave PROVE IInv'
  OBVIOUS
<1> USE ConstAssumption DEF Flags, IInv, TypeOK, TablesApart, HideBeforeFree, OneVolume,
   ActionIsCurrent, ThreadOrder, MainOrder, NothingShown, NothingLoaded, Quiet, Devices,
   NoDev, Pointer, AePcs, MPcs, ae, ta, dev, table, ui, hist, Woke
<1>f. Flags
  OBVIOUS
<1>1. CASE ShouldExit
  BY <1>1 DEF ShouldExit
<1>2. CASE MExit
  BY <1>2 DEF MExit
<1>3. CASE MTryExit
  BY <1>3 DEF MTryExit, Signal, MutexFree
<1>4. CASE MGiveUp
  BY <1>4 DEF MGiveUp, MutexFree
<1>5. CASE MJoin
  <2> USE <1>5 DEF MJoin, FreePointers, Dangle
  <2>1. Flags'
    BY <1>f
  <2>2. TypeOK'
    BY <2>1
  <2>3. TablesApart'
    OBVIOUS
  <2>4. HideBeforeFree'
    OBVIOUS
  <2>5. OneVolume'
    OBVIOUS
  <2>6. ActionIsCurrent'
    OBVIOUS
  <2>7. ThreadOrder'
    OBVIOUS
  <2>8. MainOrder'
    OBVIOUS
  <2>9. NothingShown'
    OBVIOUS
  <2> QED
    BY <2>2, <2>3, <2>4, <2>5, <2>6, <2>7, <2>8, <2>9
<1>6. CASE MUmount
  BY <1>6 DEF MUmount
<1> HIDE DEF Flags, IInv
<1> QED
  BY <1>1, <1>2, <1>3, <1>4, <1>5, <1>6 DEF Leave

\* Every step of the thread, of main and of the user's hands.
LEMMA NextIInv == IInv /\ [Next]_vars => IInv'
<1> SUFFICES ASSUME IInv, [Next]_vars PROVE IInv'
  OBVIOUS
<1>1. CASE UNCHANGED vars
  BY <1>1 DEF vars, Woke, Flags, IInv, TypeOK, TablesApart, HideBeforeFree, OneVolume,
     ActionIsCurrent, ThreadOrder, MainOrder, NothingShown, NothingLoaded, Quiet, Devices,
     NoDev, Pointer, AePcs, MPcs, ae, ta, dev, table, ui, hist
<1>2. CASE Plug
  <2> USE <1>2 DEF Plug, Woke, Flags, IInv, TypeOK, TablesApart, HideBeforeFree, OneVolume,
     ActionIsCurrent, ThreadOrder, MainOrder, NothingShown, NothingLoaded, Quiet, Devices,
     NoDev, Pointer, AePcs, MPcs, ae, ta, dev, table, ui, hist
  <2>1. TypeOK'
    OBVIOUS
  <2>2. TablesApart' /\ HideBeforeFree' /\ OneVolume' /\ ActionIsCurrent'
    OBVIOUS
  <2>3. ThreadOrder' /\ MainOrder' /\ NothingShown'
    OBVIOUS
  <2> QED
    BY <2>1, <2>2, <2>3
<1> QED
  BY <1>1, <1>2, AeKeepsIInv, LoopKeepsIInv, UserKeepsIInv, LeaveKeepsIInv
     DEF Next, MainNext, Halted

\* The thread and main keep IInv in every order of their steps.
THEOREM Invariance == Spec => []IInv
  BY InitIInv, NextIInv, PTL DEF Spec

\* Types, with the bounds of the counters.
THEOREM TypeCorrect == Spec => []TypeOK
<1>1. IInv => TypeOK
  BY DEF IInv
<1> QED
  BY <1>1, Invariance, PTL

\* Nothing that was freed is drawn or used, but in the two windows of
\* HideBeforeFree.
THEOREM NothingFreedIsUsed == Spec => []HideBeforeFree
<1>1. IInv => HideBeforeFree
  BY DEF IInv
<1> QED
  BY <1>1, Invariance, PTL

\* The active volume is mounted and no other, but for the two that the options
\* dialog exchanges during a mount, until the thread mounts or unmounts them again.
THEOREM OneVolumeMounted == Spec => []OneVolume
<1>1. IInv => OneVolume
  BY DEF IInv
<1> QED
  BY <1>1, Invariance, PTL

\* An action that waits for main is still true.
THEOREM ActionsAreCurrent == Spec => []ActionIsCurrent
<1>1. IInv => ActionIsCurrent
  BY DEF IInv
<1> QED
  BY <1>1, Invariance, PTL

\* The two tables agree, and main does not free one the thread is loading.
THEOREM TablesAgree == Spec => []TableAgrees
<1>1. IInv => TableAgrees
  BY DEF IInv, TablesApart, TableAgrees, Quiet
<1> QED
  BY <1>1, Invariance, PTL
=============================================================================
