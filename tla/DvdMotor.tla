------------------------------ MODULE DvdMotor ------------------------------
(***************************************************************************)
(* dvd.c: the chain of callbacks that stops the motor of the DVD drive and *)
(* WiiDVD_ShutDown, which main calls on exit whatever the chain has come   *)
(* to.  A callback runs in an interrupt, between any two steps of          *)
(* WiiDVD_ShutDown; nothing interrupts a callback.                         *)
(***************************************************************************)
EXTENDS Integers

CONSTANT DvdFds   \* what opening /dev/di may give

ASSUME DvdAssumption == DvdFds \subseteq Nat /\ DvdFds # {}

VARIABLES
    dvd_fd,       \* _dvd_fd
    dvd_state,    \* _state
    asked_dvd,    \* requests of the chain that IOS has not answered
    open_dvd,     \* the handles IOS has given out and not taken back
    dPc,          \* WiiDVD_ShutDown: "up", "clear", "kill", "close", "killed" or "gone"
    fd,           \* its local copy
    late_stop     \* history: the motor was stopped after the chain was killed

dvdVars == <<dvd_fd, dvd_state, asked_dvd, open_dvd, dPc, fd, late_stop>>

DvdInit ==
    /\ dvd_fd = -1 /\ dvd_state = "OPEN" /\ asked_dvd = {[op |-> "open", fd |-> -1]}
    /\ open_dvd = {} /\ dPc = "up" /\ fd = -1 /\ late_stop = FALSE

\* A request of the chain, which IOS may be unable to queue; its callback
\* then never comes.
Send(op, f) == \E queued \in BOOLEAN : asked_dvd' = IF queued THEN {[op |-> op, fd |-> f]} ELSE {}

\* IOS opens the drive, or not, and the callback learns of it.
Opened ==
    /\ \E r \in asked_dvd : r.op = "open"
    /\ dvd_state = "OPEN"
    /\ \/ \E f \in DvdFds :
             /\ open_dvd' = open_dvd \cup {f} /\ dvd_fd' = f /\ dvd_state' = "STOP" /\ Send("stop", f)
             /\ late_stop' = (late_stop \/ dPc \in {"close", "killed"})
       \/ dvd_fd' = -1 /\ asked_dvd' = {} /\ UNCHANGED <<open_dvd, dvd_state, late_stop>>
    /\ UNCHANGED <<dPc, fd>>

\* The motor has stopped: the handle, or what is left of it, is closed.
Stopped ==
    /\ \E r \in asked_dvd : r.op = "stop"
    /\ IF dvd_state = "STOP"
       THEN dvd_state' = "CLOSE" /\ Send("close", dvd_fd)
       ELSE asked_dvd' = {} /\ UNCHANGED dvd_state
    /\ UNCHANGED <<dvd_fd, open_dvd, dPc, fd, late_stop>>

\* IOS takes the handle back, if it is one it has given out.
Closed ==
    /\ \E r \in asked_dvd : r.op = "close" /\ open_dvd' = open_dvd \ {r.fd}
    /\ asked_dvd' = {}
    /\ IF dvd_state = "CLOSE" THEN dvd_fd' = -1 /\ dvd_state' = "DONE" ELSE UNCHANGED <<dvd_fd, dvd_state>>
    /\ UNCHANGED <<dPc, fd, late_stop>>

DvdChain == Opened \/ Stopped \/ Closed

---------------------------------------------------------------------------
(* WiiDVD_ShutDown, step by step.                                          *)

\* Zero counts as no handle.
ShutDown ==
    /\ dPc = "up"
    /\ fd' = dvd_fd
    /\ dPc' = IF dvd_fd > 0 THEN "clear" ELSE "gone"
    /\ UNCHANGED <<dvd_fd, dvd_state, asked_dvd, open_dvd, late_stop>>

ClearFd ==
    /\ dPc = "clear" /\ dPc' = "kill" /\ dvd_fd' = -1
    /\ UNCHANGED <<dvd_state, asked_dvd, open_dvd, fd, late_stop>>

SetDone ==
    /\ dPc = "kill" /\ dPc' = "close" /\ dvd_state' = "DONE"
    /\ UNCHANGED <<dvd_fd, asked_dvd, open_dvd, fd, late_stop>>

\* A faulty version: the chain is killed before it could close the handle.
CloseFdLeft ==
    /\ dPc = "close" /\ dPc' = "killed"
    /\ UNCHANGED <<dvd_fd, dvd_state, asked_dvd, open_dvd, fd, late_stop>>

CloseFd ==
    /\ dPc = "close" /\ dPc' = "killed" /\ open_dvd' = open_dvd \ {fd}
    /\ UNCHANGED <<dvd_fd, dvd_state, asked_dvd, fd, late_stop>>

\* The system goes on to the application, or away.
DvdOver == dPc \in {"gone", "killed"} /\ asked_dvd = {} /\ UNCHANGED dvdVars

DvdNext == DvdChain \/ ShutDown \/ ClearFd \/ SetDone \/ CloseFd \/ DvdOver

DvdSpec == DvdInit /\ [][DvdNext]_dvdVars

---------------------------------------------------------------------------
DvdTypeOK ==
    /\ dvd_fd \in DvdFds \cup {-1} /\ fd \in DvdFds \cup {-1}
    /\ dvd_state \in {"OPEN", "STOP", "CLOSE", "DONE"}
    /\ asked_dvd \in SUBSET [op : {"open", "stop", "close"}, fd : DvdFds \cup {-1}]
    /\ open_dvd \subseteq DvdFds
    /\ dPc \in {"up", "clear", "kill", "close", "killed", "gone"} /\ late_stop \in BOOLEAN

\* However the callbacks fall between the steps of WiiDVD_ShutDown, and
\* whatever request IOS does not take, a chain that is killed leaves no
\* handle of the drive open and does not stop the motor any more, so the
\* application that is started finds the drive free.  A chain that was not
\* killed, as it had no handle above zero yet, is left to run to its end.
DvdQuiet ==
    /\ DvdTypeOK
    /\ ~late_stop
    /\ dPc = "killed" => open_dvd = {} /\ dvd_fd = -1 /\ dvd_state = "DONE"
    /\ asked_dvd = {} => open_dvd \subseteq {dvd_fd, fd}
=============================================================================
