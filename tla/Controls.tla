------------------------------ MODULE Controls ------------------------------
(***************************************************************************)
(* Which remote points at the screen, and whose motor runs (controls.c and *)
(* the rumble of view_plot in view.c).                                     *)
(*                                                                         *)
(* A step is one frame.  Between two frames a remote may be switched on    *)
(* or off, and turned to the screen or away from it.  The motor of a       *)
(* remote that is off is off.                                              *)
(***************************************************************************)
EXTENDS Integers, FiniteSets

CONSTANTS WPAD_MAX_WIIMOTES, RUMBLE_TIME, RUMBLE_DELAY

ASSUME ControlsAssumption ==
    {WPAD_MAX_WIIMOTES, RUMBLE_TIME, RUMBLE_DELAY} \subseteq Nat \ {0}

Remotes == 0..(WPAD_MAX_WIIMOTES - 1)
Nobody == -1

VARIABLES
    wpads,           \* each remote: "off", "away" from the screen or "pointing"
    pointer_owner,   \* the remote whose pointer is shown, or Nobody
    rumbling,        \* whether a motor is thought to run
    motor,           \* whether it does, of each remote
    rumble_timeout   \* frames until it must stop, then until it may start again

controlsVars == <<wpads, pointer_owner, rumbling, motor, rumble_timeout>>

\* What WPAD_ScanPads and WPAD_Probe may find in a frame.
Probed == [Remotes -> {"off", "away", "pointing"}]

Points(w, r) == r # Nobody /\ w[r] = "pointing"

\* Whether there is a pointer, and so whether it may come upon a widget.
controls_ir(w, owner) == Points(w, owner)

\* WPAD_Rumble: a remote that is off, or no remote at all, is left alone.
WPAD_Rumble(m, w, r, on) ==
    [q \in Remotes |-> IF q = r /\ w[q] # "off" THEN on ELSE m[q]]

\* The pointer stays with its owner until it stops pointing, then goes to
\* the first remote that does.
Owner_(w) ==
    LET pointing == {r \in Remotes : Points(w, r)}
    IN  CASE Points(w, pointer_owner) -> pointer_owner
          [] pointing = {} -> Nobody
          [] OTHER -> CHOOSE r \in pointing : \A q \in pointing : r <= q

\* A faulty version: the new owner's motor is started, the old one's not stopped.
PassedOn(m, w, o) == WPAD_Rumble(m, w, o, TRUE)

\* What controls_scan does with the motors when the pointer gets a new owner.
Handed(m, w, o) == WPAD_Rumble(WPAD_Rumble(m, w, pointer_owner, FALSE), w, o, TRUE)

\* controls_rumble: the motor of the owner, if there is one.
controls_rumble(m, w, owner, on) == WPAD_Rumble(m, w, owner, on)

\* view_plot: scan; the pointer may have come upon a widget that rumbles;
\* the time is counted down and the motor stopped when it is over.
Frame ==
    \E w \in Probed, upon \in BOOLEAN :
        LET o == Owner_(w)
            left == [r \in Remotes |-> motor[r] /\ w[r] # "off"]
            scanned == IF pointer_owner \notin {Nobody, o} /\ rumbling THEN Handed(left, w, o) ELSE left
            starts == upon /\ controls_ir(w, o) /\ rumble_timeout = -RUMBLE_DELAY
            time == IF starts THEN RUMBLE_TIME ELSE rumble_timeout
            next == IF time > -RUMBLE_DELAY THEN time - 1 ELSE time
            started == IF starts THEN controls_rumble(scanned, w, o, TRUE) ELSE scanned
        IN  /\ wpads' = w /\ pointer_owner' = o
            /\ rumble_timeout' = next
            /\ rumbling' = ((rumbling \/ starts) /\ next >= 1)
            /\ motor' = IF next < 1 THEN controls_rumble(started, w, o, FALSE) ELSE started

ControlsInit ==
    /\ wpads = [r \in Remotes |-> "off"] /\ pointer_owner = Nobody
    /\ rumbling = FALSE /\ motor = [r \in Remotes |-> FALSE]
    /\ rumble_timeout = -RUMBLE_DELAY

ControlsSpec == ControlsInit /\ [][Frame]_controlsVars

\* At most one motor runs, that of the remote whose pointer is shown, and
\* only while its time is counted down: whatever remotes are turned, switched
\* off and on, none is left running.
RumbleEnds ==
    /\ rumble_timeout \in (-RUMBLE_DELAY)..RUMBLE_TIME
    /\ \A r \in Remotes : motor[r] =>
          r = pointer_owner /\ wpads[r] = "pointing" /\ rumbling /\ rumble_timeout >= 1
=============================================================================
