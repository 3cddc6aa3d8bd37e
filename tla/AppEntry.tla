------------------------------ MODULE AppEntry ------------------------------
(***************************************************************************)
(* The app entry thread (appentry.c), which mounts storage devices and     *)
(* reads the list of applications, and the part of the main loop (main.c,  *)
(* browser.c, dialogs.c) that shows the list and acts on it.               *)
(*                                                                         *)
(* They talk through ta_ae: main posts a command and signals the condition *)
(* variable, the thread runs it holding cmutex and leaves an action (ADD,  *)
(* REMOVE) that main picks up once per frame, in the browser view only.    *)
(* Main never waits for cmutex: it tries the lock and gives up.  The table *)
(* of entries has no lock of its own.                                      *)
(*                                                                         *)
(* A C pointer to an app_entry is the directory name of the entry, NoApp   *)
(* for NULL, or Freed once the entry it points to has been freed.          *)
(*                                                                         *)
(* Scheduling.  libogc runs the highest-priority ready thread; main (64)   *)
(* is above the app entry thread (62), so an action of Main is a stretch   *)
(* of its code between two blocking calls, and a thread that was just      *)
(* signalled gets to run before main's next blocking call returns (Woke).  *)
(* Device I/O blocks, so each of the thread's I/O calls is a step.         *)
(***************************************************************************)
EXTENDS Integers, FiniteSets

CONSTANTS
    NDev,        \* DEVICE_COUNT
    Apps,        \* application directories
    NoApp, Freed,
    ScanEvery,   \* frames between two scans (30)
    Tries        \* attempts to lock cmutex in app_entry_deinit (25)

ASSUME ConstAssumption ==
    /\ NDev \in Nat \ {0} /\ ScanEvery \in Nat \ {0} /\ Tries \in Nat
    /\ NoApp \notin Apps /\ Freed \notin Apps /\ NoApp # Freed

Devices == 0..(NDev - 1)
NoDev == -1
Pointer == Apps \union {NoApp, Freed}

VARIABLES
    plugged,     \* devices that hold a FAT volume right now (the user's hands)
    mounted,     \* volumes libfat has mounted
    aePc,        \* where the thread is
    marg,        \* the device the running _mount() call was given
    scanIdx,     \* the thread's loop counter i
    running, cmd, action, umount, mount, loading,   \* ta_ae
    active, prefered,                               \* device_active, device_prefered
    all, view,   \* entries_all, entries
    mpc,         \* where main is
    vcur, vlast, frame,
    appSel,      \* app_sel, while the detail dialog draws it or main acts on it
                 \* (elsewhere it is only compared, and stands as NoApp)
    page,        \* the entries the browser's widgets draw
    tries,
    lostRemove, clobbered, switched   \* history, see the properties

ae == <<aePc, marg, scanIdx>>
ta == <<running, cmd, action, umount, mount, loading>>
dev == <<mounted, active, prefered>>
table == <<all, view>>
ui == <<mpc, vcur, vlast, frame, appSel, page, tries>>
hist == <<lostRemove, clobbered, switched>>
vars == <<plugged, ae, ta, dev, table, ui, hist>>

Init ==
    /\ plugged \in SUBSET Devices
    /\ mounted = {} /\ active = NoDev /\ prefered \in Devices \union {NoDev}
    /\ aePc = "start" /\ marg = NoDev /\ scanIdx = 0
    /\ running = FALSE /\ cmd = "IDLE" /\ action = "NONE"
    /\ umount = FALSE /\ mount = NoDev /\ loading = FALSE
    /\ all = {} /\ view = {}
    /\ mpc = "start" /\ vcur = "browser" /\ vlast = "browser" /\ frame = 0
    /\ appSel = NoApp /\ page = {} /\ tries = 0
    /\ lostRemove = FALSE /\ clobbered = FALSE /\ switched = {}

---------------------------------------------------------------------------
(* The table.  Freeing entries leaves every pointer to them dangling.      *)

Dangle(p, dead) == IF p \in dead THEN Freed ELSE p

FreePointers(dead) ==
    /\ appSel' = Dangle(appSel, dead)
    /\ page' = {Dangle(p, dead) : p \in page}

---------------------------------------------------------------------------
(* The thread.  It holds cmutex except in the condition wait, when just    *)
(* signalled, before its first lock and after its end.                     *)

MutexFree == aePc \in {"start", "wait", "woken", "done"}

LoopTop == aePc' = "wait" /\ cmd' = "IDLE"

AeStart ==
    /\ aePc = "start"
    /\ running' = TRUE
    /\ LoopTop
    /\ UNCHANGED <<plugged, marg, scanIdx, action, umount, mount, loading, dev, table, ui, hist>>

AeWake ==
    /\ aePc = "woken"
    /\ \/ cmd = "EXIT" /\ aePc' = "done" /\ running' = FALSE
       \/ cmd = "SCAN" /\ aePc' = "scan" /\ UNCHANGED running
       \/ cmd = "POLLSTATUS" /\ aePc' = "poll" /\ UNCHANGED running
    /\ UNCHANGED <<plugged, marg, scanIdx, cmd, action, umount, mount, loading,
                   dev, table, ui, hist>>

\* AE_CMD_SCAN with a device in use: keep it, or start to give it up.
AeScanActive ==
    /\ aePc = "scan" /\ active # NoDev
    /\ \/ ~umount /\ active \in plugged /\ LoopTop /\ UNCHANGED umount
       \/ (umount \/ active \notin plugged) /\ umount' = FALSE
            /\ aePc' = "unmount" /\ UNCHANGED cmd
    /\ UNCHANGED <<plugged, marg, scanIdx, running, action, mount, loading,
                   dev, table, ui, hist>>

\* A faulty version: the volume is forgotten, not unmounted.
AeUnmountForgets ==
    /\ aePc = "unmount"
    /\ active' = NoDev /\ action' = "REMOVE" /\ LoopTop
    /\ UNCHANGED <<plugged, marg, scanIdx, running, umount, mount, loading, mounted,
                   prefered, table, ui, hist>>

\* A faulty version: main is not told that the device is gone.
AeUnmountSilent ==
    /\ aePc = "unmount"
    /\ mounted' = mounted \ {active} /\ active' = NoDev /\ LoopTop
    /\ switched' = switched \ {active}
    /\ UNCHANGED <<plugged, marg, scanIdx, running, action, umount, mount, loading,
                   prefered, table, ui, lostRemove, clobbered>>

AeUnmount ==
    /\ aePc = "unmount"
    /\ mounted' = mounted \ {active}
    /\ active' = NoDev
    /\ switched' = switched \ {active}
    /\ action' = "REMOVE"
    /\ LoopTop
    /\ UNCHANGED <<plugged, marg, scanIdx, running, umount, mount, loading, prefered,
                   table, ui, lostRemove, clobbered>>

\* AE_CMD_SCAN without a device: the one the user chose is tried first.
AeScanMount ==
    /\ aePc = "scan" /\ active = NoDev
    /\ marg' = mount
    /\ aePc' = IF mount # NoDev THEN "mount" ELSE "prefer"
    /\ UNCHANGED <<plugged, scanIdx, ta, dev, table, ui, hist>>

\* marg has been mounted, and d is what the variable it was read from holds now.
Switched(d) == IF d = marg THEN switched \ {marg} ELSE switched \union ({marg, d} \ {NoDev})

\* _mount(ta->mount) has returned: ta->mount is read again, without a lock
\* that app_entry_set_device would respect.
AeMount ==
    /\ aePc = "mount"
    /\ IF marg \in plugged
       THEN /\ mounted' = mounted \union {marg}
            /\ active' = mount
            /\ switched' = Switched(mount)
       ELSE UNCHANGED <<mounted, active, switched>>
    /\ mount' = NoDev /\ marg' = NoDev
    /\ aePc' = "prefer"
    /\ UNCHANGED <<plugged, scanIdx, running, cmd, action, umount, loading, prefered,
                   table, ui, lostRemove, clobbered>>

AePrefer ==
    /\ aePc = "prefer"
    /\ IF active = NoDev /\ prefered # NoDev
       THEN aePc' = "mountprefered" /\ marg' = prefered
       ELSE aePc' = "any" /\ UNCHANGED marg
    /\ UNCHANGED <<plugged, scanIdx, ta, dev, table, ui, hist>>

AeMountPrefered ==
    /\ aePc = "mountprefered"
    /\ IF marg \in plugged
       THEN /\ mounted' = mounted \union {marg}
            /\ active' = prefered
            /\ switched' = Switched(prefered)
       ELSE UNCHANGED <<mounted, active, switched>>
    /\ aePc' = "any" /\ marg' = NoDev
    /\ UNCHANGED <<plugged, scanIdx, ta, prefered, table, ui, lostRemove, clobbered>>

AeMountAny ==
    /\ aePc = "any" /\ active = NoDev /\ scanIdx < NDev
    /\ IF scanIdx \in plugged
       THEN /\ mounted' = mounted \union {scanIdx} /\ active' = scanIdx
            /\ switched' = switched \ {scanIdx}
       ELSE UNCHANGED <<mounted, active, switched>>
    /\ scanIdx' = scanIdx + 1
    /\ UNCHANGED <<plugged, aePc, marg, ta, prefered, table, ui, lostRemove, clobbered>>

AeNothingFound ==
    /\ aePc = "any" /\ active = NoDev /\ scanIdx = NDev
    /\ scanIdx' = 0
    /\ LoopTop
    /\ UNCHANGED <<plugged, marg, running, action, umount, mount, loading,
                   dev, table, ui, hist>>

\* A faulty version of AeLoadFree: entries keeps what entries_all loses.
AeLoadFreeAllOnly ==
    /\ aePc = "any" /\ active # NoDev
    /\ loading' = TRUE /\ all' = {}
    /\ FreePointers(all)
    /\ lostRemove' = (lostRemove \/ action = "REMOVE")
    /\ aePc' = "load" /\ scanIdx' = 0
    /\ UNCHANGED <<plugged, marg, running, cmd, action, umount, mount, dev, view,
                   mpc, vcur, vlast, frame, tries, clobbered, switched>>

\* app_entry_load_all: app_entries_free, one entry per directory read, filter.
AeLoadFree ==
    /\ aePc = "any" /\ active # NoDev
    /\ loading' = TRUE
    /\ all' = {} /\ view' = {}
    /\ FreePointers(all)
    /\ lostRemove' = (lostRemove \/ action = "REMOVE")
    /\ aePc' = "load" /\ scanIdx' = 0
    /\ UNCHANGED <<plugged, marg, running, cmd, action, umount, mount, dev,
                   mpc, vcur, vlast, frame, tries, clobbered, switched>>

AeLoadEntry ==
    /\ aePc = "load"
    /\ \E a \in Apps \ all : all' = all \union {a}
    /\ UNCHANGED <<plugged, ae, ta, dev, view, ui, hist>>

\* A faulty version of AeLoadDone: main is not told of the new entries.
AeLoadDoneSilent ==
    /\ aePc = "load"
    /\ view' = all /\ loading' = FALSE
    /\ LoopTop
    /\ UNCHANGED <<plugged, marg, scanIdx, running, action, umount, mount, dev, all, ui,
                   hist>>

AeLoadDone ==
    /\ aePc = "load"
    /\ view' = all
    /\ loading' = FALSE
    /\ action' = "ADD"
    /\ LoopTop
    /\ UNCHANGED <<plugged, marg, scanIdx, running, umount, mount, dev, all, ui, hist>>

\* AE_CMD_POLLSTATUS: the status lights have no other effect than this one.
AePoll ==
    /\ aePc = "poll"
    /\ umount' = (umount \/ (active # NoDev /\ active \notin plugged))
    /\ LoopTop
    /\ UNCHANGED <<plugged, marg, scanIdx, running, action, mount, loading,
                   dev, table, ui, hist>>

AeNext ==
    \/ AeStart \/ AeWake \/ AeScanActive \/ AeUnmount \/ AeScanMount \/ AeMount
    \/ AePrefer \/ AeMountPrefered \/ AeMountAny \/ AeNothingFound
    \/ AeLoadFree \/ AeLoadEntry \/ AeLoadDone \/ AePoll

---------------------------------------------------------------------------
(* Main's side of the protocol.                                            *)

Woke == aePc \notin {"start", "woken"}

\* A faulty version of Signal: nobody is woken.
SignalNobody(c) == cmd' = c /\ UNCHANGED aePc

\* Every command is posted the same way.
Signal(c) == cmd' = c /\ aePc' = IF aePc = "wait" THEN "woken" ELSE aePc

app_entry_post(c) ==
    IF running /\ MutexFree THEN Signal(c) ELSE UNCHANGED <<cmd, aePc>>

\* The end of a frame's first part: app_entry_scan, if due, then view_plot.
ScanAndPlot ==
    /\ IF frame = 0 THEN app_entry_post("SCAN") ELSE UNCHANGED <<cmd, aePc>>
    /\ mpc' = "plot"

\* view_fade blocks for 32 frames before the loop starts.
MStart ==
    /\ mpc = "start" /\ Woke
    /\ mpc' = "top"
    /\ UNCHANGED <<plugged, ae, ta, dev, table, vcur, vlast, frame, appSel, page,
                   tries, hist>>

Polls == vcur = "browser" /\ running /\ MutexFree

MFrame ==
    /\ mpc = "top"
    /\ ~Polls \/ action = "NONE"
    /\ ScanAndPlot
    /\ UNCHANGED <<plugged, marg, scanIdx, running, action, umount, mount, loading, dev,
                   table, vcur, vlast, frame, appSel, page, tries, hist>>

\* A faulty version of MRemoveSeen: the table is freed while the widgets that
\* draw it still slide out.
MRemoveSeenFrees ==
    /\ mpc = "top" /\ Polls /\ action = "REMOVE"
    /\ action' = "NONE" /\ mpc' = "remove"
    /\ all' = {} /\ view' = {} /\ FreePointers(all)
    /\ UNCHANGED <<plugged, ae, running, cmd, umount, mount, loading, dev,
                   vcur, vlast, frame, tries, hist>>

\* AE_ACT_REMOVE: the browser slides its widgets out (20 frames) ...
MRemoveSeen ==
    /\ mpc = "top" /\ Polls /\ action = "REMOVE"
    /\ action' = "NONE"
    /\ mpc' = "remove"
    /\ UNCHANGED <<plugged, ae, running, cmd, umount, mount, loading, dev, table,
                   vcur, vlast, frame, appSel, page, tries, hist>>

\* ... and frees the table, without the mutex.
MRemove ==
    /\ mpc = "remove" /\ Woke
    /\ all' = {} /\ view' = {}
    /\ appSel' = Dangle(appSel, all)
    /\ page' = {}
    /\ lostRemove' = FALSE /\ clobbered' = FALSE
    /\ ScanAndPlot
    /\ UNCHANGED <<plugged, marg, scanIdx, running, action, umount, mount, loading, dev,
                   vcur, vlast, frame, tries, switched>>

\* AE_ACT_ADD: app_entry_find, then the new widgets slide in.
MAddSeen ==
    /\ mpc = "top" /\ Polls /\ action = "ADD"
    /\ action' = "NONE"
    /\ mpc' = "add"
    /\ UNCHANGED <<plugged, ae, running, cmd, umount, mount, loading, dev, table,
                   vcur, vlast, frame, appSel, page, tries, hist>>

MAdd ==
    /\ mpc = "add" /\ Woke
    /\ page' = view
    /\ lostRemove' = FALSE /\ clobbered' = FALSE
    /\ ScanAndPlot
    /\ UNCHANGED <<plugged, marg, scanIdx, running, action, umount, mount, loading, dev,
                   table, vcur, vlast, frame, appSel, tries, switched>>

MPlot ==
    /\ mpc = "plot" /\ Woke
    /\ mpc' = "input"
    /\ vlast' = vcur
    /\ frame' = IF vlast # vcur THEN 0 ELSE (frame + 1) % ScanEvery
    /\ UNCHANGED <<plugged, ae, ta, dev, table, vcur, appSel, page, tries, hist>>

---------------------------------------------------------------------------
(* What the user does with a frame.                                        *)

Frame(v) == mpc = "input" /\ vcur = v

Idle ==
    /\ mpc = "input"
    /\ mpc' = "top"
    /\ UNCHANGED <<plugged, ae, ta, dev, table, vcur, vlast, frame, appSel, page,
                   tries, hist>>

\* HOME opens the menu and closes it.
Menu ==
    /\ mpc = "input" /\ vcur \in {"browser", "menu"}
    /\ vcur' = IF vcur = "browser" THEN "menu" ELSE "browser"
    /\ mpc' = "top"
    /\ UNCHANGED <<plugged, ae, ta, dev, table, vlast, frame, appSel, page, tries, hist>>

\* Another page, or the other layout: the widgets are made from entries again.
TurnPage ==
    /\ Frame("browser") /\ view # {}
    /\ page' = view
    /\ mpc' = "top"
    /\ UNCHANGED <<plugged, ae, ta, dev, table, vcur, vlast, frame, appSel, tries, hist>>

\* A on a widget: browser_sel indexes entries with the widget's number.
OpenDetail ==
    /\ Frame("browser") /\ page # {}
    /\ \E a \in view : appSel' = a
    /\ vcur' = "detail" /\ mpc' = "top"
    /\ UNCHANGED <<plugged, ae, ta, dev, table, vlast, frame, page, tries, hist>>

CloseDetail ==
    /\ Frame("detail")
    /\ vcur' = "browser"
    /\ \/ mpc' = "top" /\ appSel' = NoApp /\ UNCHANGED page   \* back, or no deletion
       \/ mpc' = "delete" /\ page' = {} /\ UNCHANGED appSel   \* BA_REMOVE
       \/ mpc' = "loadapp" /\ UNCHANGED <<appSel, page>>      \* loader_load(app_sel)
    /\ UNCHANGED <<plugged, ae, ta, dev, table, vlast, frame, tries, hist>>

\* manage_run has deleted the directory, or failed; BA_REFRESH follows.
MDelete ==
    /\ mpc = "delete" /\ Woke
    /\ \/ /\ all' = all \ {appSel}
          /\ view' = IF appSel \in all THEN all \ {appSel} ELSE view
       \/ UNCHANGED <<all, view>>
    /\ appSel' = NoApp
    /\ page' = view'
    /\ mpc' = "top"
    /\ UNCHANGED <<plugged, ae, ta, dev, vcur, vlast, frame, tries, hist>>

\* loader_load returns: to the loop, or with an executable to start.
MLoaded ==
    /\ mpc = "loadapp" /\ Woke
    /\ mpc' \in {"top", "exit"}
    /\ appSel' = NoApp
    /\ UNCHANGED <<plugged, ae, ta, dev, table, vcur, vlast, frame, page, tries, hist>>

\* A zip arrives over the network ...
Upload ==
    /\ Frame("browser")
    /\ mpc' = "upload"
    /\ UNCHANGED <<plugged, ae, ta, dev, table, vcur, vlast, frame, appSel, page,
                   tries, hist>>

\* ... and is extracted, if there is a device and the user agrees.
MExtract ==
    /\ mpc = "upload" /\ Woke
    /\ mpc' \in (IF active = NoDev THEN {"top"} ELSE {"top", "extract"})
    /\ UNCHANGED <<plugged, ae, ta, dev, table, vcur, vlast, frame, appSel, page,
                   tries, hist>>

\* app_entry_add: the old entry of that directory goes, a new one may come.
MUploaded ==
    /\ mpc = "extract" /\ Woke
    /\ \E a \in Apps, ok \in BOOLEAN :
          /\ all' = IF ok THEN all \union {a} ELSE all \ {a}
          /\ view' = IF ok \/ a \in all THEN all' ELSE view
          /\ page' = {Dangle(p, all \intersect {a}) : p \in page}
          /\ clobbered' = (clobbered \/ a \in all \/ ~MutexFree)
          /\ mpc' = IF ok THEN "refresh" ELSE "top"
    /\ UNCHANGED <<plugged, ae, ta, dev, vcur, vlast, frame, appSel, tries, lostRemove, switched>>

\* BA_REFRESH: the old widgets are drawn until the slide is over.
MRefresh ==
    /\ mpc = "refresh" /\ Woke
    /\ page' = view
    /\ clobbered' = (clobbered /\ ~MutexFree)
    /\ mpc' = "top"
    /\ UNCHANGED <<plugged, ae, ta, dev, table, vcur, vlast, frame, appSel, tries,
                   lostRemove, switched>>

\* The options dialog asks for the device lights when it opens and every 30
\* frames; nothing else is posted while it is open.
Options ==
    /\ Frame("browser") \/ (mpc = "options" /\ Woke)
    /\ app_entry_post("POLLSTATUS")
    /\ mpc' = "options"
    /\ UNCHANGED <<plugged, marg, scanIdx, running, action, umount, mount, loading, dev,
                   table, vcur, vlast, frame, appSel, page, tries, hist>>

\* dialog_options_result is never initialised: unless the user picks a
\* device its value is arbitrary, and "confirmed" is arbitrary after Back.
\* app_entry_set_device ignores a number that is no device's,
\* app_entry_set_prefered takes it as "none".
OptionsDone ==
    /\ mpc = "options" /\ Woke
    /\ \/ UNCHANGED <<umount, mount, prefered>>
       \/ \E d \in Devices : umount' = TRUE /\ mount' = d /\ prefered' = d
       \/ prefered' = NoDev /\ UNCHANGED <<umount, mount>>
    /\ mpc' = "top"
    /\ UNCHANGED <<plugged, ae, running, cmd, action, loading, mounted, active, table,
                   vcur, vlast, frame, appSel, page, tries, hist>>

---------------------------------------------------------------------------
(* Leaving: power or reset button, menu, or a loaded executable.           *)

ShouldExit ==
    /\ mpc = "top"
    /\ mpc' = "exit"
    /\ UNCHANGED <<plugged, ae, ta, dev, table, vcur, vlast, frame, appSel, page,
                   tries, hist>>

\* The fades, browser_sel and the other deinits come before app_entry_deinit.
MExit ==
    /\ mpc = "exit" /\ Woke
    /\ tries' = Tries
    /\ mpc' = IF running THEN "deinit" ELSE "halt"
    /\ UNCHANGED <<plugged, ae, ta, dev, table, vcur, vlast, frame, appSel, page, hist>>

MTryExit ==
    /\ mpc = "deinit" /\ tries > 0
    /\ IF MutexFree
       THEN Signal("EXIT") /\ mpc' = "join" /\ UNCHANGED tries
       ELSE tries' = tries - 1 /\ UNCHANGED <<cmd, aePc, mpc>>
    /\ UNCHANGED <<plugged, marg, scanIdx, running, action, umount, mount, loading, dev,
                   table, vcur, vlast, frame, appSel, page, hist>>

MGiveUp ==
    /\ mpc = "deinit" /\ tries = 0
    /\ mpc' = "umount"
    /\ UNCHANGED <<plugged, ae, ta, dev, table, vcur, vlast, frame, appSel, page,
                   tries, hist>>

\* LWP_JoinThread returns, app_entries_free.
MJoin ==
    /\ mpc = "join" /\ aePc = "done"
    /\ all' = {} /\ view' = {}
    /\ FreePointers(all)
    /\ mpc' = "umount"
    /\ UNCHANGED <<plugged, ae, ta, dev, vcur, vlast, frame, tries, hist>>

MUmount ==
    /\ mpc = "umount"
    /\ mounted' = mounted \ {active}
    /\ mpc' = "halt"
    /\ UNCHANGED <<plugged, ae, ta, active, prefered, table, vcur, vlast, frame, appSel,
                   page, tries, hist>>

Loop == MStart \/ MFrame \/ MRemoveSeen \/ MRemove \/ MAddSeen \/ MAdd \/ MPlot

User ==
    \/ Idle \/ Menu \/ TurnPage \/ OpenDetail \/ CloseDetail \/ MDelete \/ MLoaded
    \/ Upload \/ MExtract \/ MUploaded \/ MRefresh \/ Options \/ OptionsDone

Leave == ShouldExit \/ MExit \/ MTryExit \/ MGiveUp \/ MJoin \/ MUmount

MainNext == Loop \/ User \/ Leave

\* Cards and sticks come and go.
Plug ==
    /\ \E d \in Devices :
          plugged' = IF d \in plugged THEN plugged \ {d} ELSE plugged \union {d}
    /\ UNCHANGED <<ae, ta, dev, table, ui, hist>>

Halted == mpc = "halt" /\ UNCHANGED vars

Next == AeNext \/ MainNext \/ Plug \/ Halted

\* Both threads run whenever they can; nothing is assumed of the user.
Spec == Init /\ [][Next]_vars /\ WF_vars(AeNext) /\ WF_vars(MainNext)

---------------------------------------------------------------------------
AePcs == {"start", "wait", "woken", "scan", "unmount", "mount", "prefer", "mountprefered",
          "any", "load", "poll", "done"}
MPcs == {"start", "top", "remove", "add", "plot", "input", "delete", "loadapp", "upload",
         "extract", "refresh", "options", "exit", "deinit", "join", "umount", "halt"}

TypeOK ==
    /\ plugged \subseteq Devices /\ mounted \subseteq Devices
    /\ aePc \in AePcs
    /\ marg \in Devices \union {NoDev} /\ scanIdx \in 0..NDev
    /\ running \in BOOLEAN /\ cmd \in {"IDLE", "EXIT", "SCAN", "POLLSTATUS"}
    /\ action \in {"NONE", "REMOVE", "ADD"}
    /\ umount \in BOOLEAN /\ mount \in Devices \union {NoDev} /\ loading \in BOOLEAN
    /\ active \in Devices \union {NoDev} /\ prefered \in Devices \union {NoDev}
    /\ all \subseteq Apps /\ view \subseteq Apps
    /\ mpc \in MPcs
    /\ vcur \in {"browser", "detail", "menu"} /\ vlast \in {"browser", "detail", "menu"}
    /\ frame \in 0..(ScanEvery - 1)
    /\ appSel \in Pointer /\ page \subseteq Pointer
    /\ tries \in 0..Tries
    /\ lostRemove \in BOOLEAN /\ clobbered \in BOOLEAN /\ switched \subseteq Devices

\* Main draws and uses only entries that have not been freed, but for two
\* windows: a reload has overwritten a REMOVE main was not in the browser to
\* read (lostRemove), or app_entry_add has freed an entry that is on the
\* screen or touched the table while the thread was scanning (clobbered).
\* Each lasts until the browser's next ADD or REFRESH.
HideBeforeFree ==
    (~lostRemove /\ ~clobbered /\ mpc \notin {"join", "umount", "halt"}) =>
        /\ Freed \notin page
        /\ vcur = "detail" \/ mpc \in {"delete", "loadapp"} => appSel # Freed

\* entries never shows an entry that entries_all has lost, and main frees or
\* edits the table for a REMOVE or a deletion only while the thread is not
\* loading it: nothing else keeps the two apart, the table has no lock.
TableAgrees ==
    /\ TypeOK
    /\ view \subseteq all
    /\ (mpc \in {"remove", "delete"} /\ ~lostRemove /\ ~clobbered) => ~loading

\* libfat has the active device mounted and no other.  A device the user chose
\* while the thread was in _mount() for another one, and that other one, are
\* left out (switched: ta->mount and device_prefered are read again after the
\* call, so the one is active and the other mounted), each until the thread
\* has mounted it for itself or unmounted it; the rest of the devices never
\* suffer from it.
OneVolume ==
    mpc # "halt" => \A d \in Devices \ switched : d \in mounted <=> d = active

\* The action main has not read yet describes the present: an ADD means
\* there is a device, a REMOVE that there is none or that a new one is being
\* loaded, however often the devices changed since main last looked.
ActionIsCurrent ==
    /\ action = "ADD" => active # NoDev
    /\ action = "REMOVE" => active = NoDev \/ aePc \in {"prefer", "any", "load"}

\* Leaving always ends, with or without the thread: the exit command reaches
\* it and nothing replaces it, so main can join it without a time limit ("the
\* tcp thread is the only one that can block after the exit command is sent",
\* main.c).
ExitEnds == (mpc = "exit") ~> (mpc = "halt")

Browsing == vcur = "browser" /\ mpc \in {"top", "plot", "input", "remove", "add"}

\* Once the devices stay as they are and the user stays in the browser, the
\* browser ends up showing just what is on an inserted device, or nothing:
\* no scan, removal or load that main or the thread missed is missed for
\* good.  An upload that freed the old entry and could not read the new one
\* is left out: nothing refreshes the page after it (clobbered).
BrowserCatchesUp ==
    \A S \in SUBSET Devices :
        <>[](plugged = S /\ Browsing /\ ~clobbered) =>
            <>[](/\ page = all /\ view = all
                 /\ IF S = {} THEN active = NoDev /\ all = {} ELSE active \in S)
=============================================================================
