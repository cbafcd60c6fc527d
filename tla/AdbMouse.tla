------------------------------ MODULE AdbMouse ------------------------------
(***************************************************************************)
(* The mouse of the ADB (clem_adb.c).  Motion waits as events in a short   *)
(* queue; 60 times a second one of them goes to the register that the      *)
(* guest reads at C024, X and Y in turn.  When the host sends positions    *)
(* and the guest has its Toolbox running, every poll also puts the last    *)
(* position into the memory of the firmware and queues what is missing to  *)
(* the next, so that the two cursors stay together.                        *)
(*                                                                         *)
(* One axis is modelled, and an event is its distance on that axis.  The   *)
(* firmware (not part of this code) adds what it reads to its cursor and   *)
(* keeps that on the screen.                                               *)
(***************************************************************************)
EXTENDS Integers, Sequences

CONSTANTS
    Widest,               \* the positions are from 0 to this
    Farthest,             \* 63: the longest distance of an event
    MOUSE_BUFFER_LIMIT    \* 8, CLEM_ADB_KEYB_BUFFER_LIMIT

Positions == 0 .. Widest

MouseAssumption == Widest \in Nat /\ Farthest \in Nat /\ MOUSE_BUFFER_LIMIT \in Nat \ {0}

VARIABLES
    toolbox,      \* whether the clamp values in memory are valid
    cursor,       \* of the firmware
    here, before, \* mx and mx0
    tracking,     \* tracking_enabled
    clamped,      \* valid_clamp_box, of the last poll
    events,       \* mouse.pos
    register,     \* mouse_reg[0]
    full, y_next, \* MOUSE_FULL and MOUSE_Y of C027
    polled,       \* AUTOPOLL_MOUSE
    half          \* history: the guest has read X; "torn" if the register changed since

host == <<here, before, tracking>>
c027 == <<full, y_next>>
vars == <<toolbox, cursor, host, clamped, events, register, c027, polled, half>>

Distances == -Farthest .. Farthest

TypeOK ==
    /\ toolbox \in BOOLEAN /\ tracking \in BOOLEAN /\ clamped \in BOOLEAN
    /\ full \in BOOLEAN /\ y_next \in BOOLEAN /\ polled \in BOOLEAN
    /\ cursor \in Positions /\ here \in Positions /\ before \in Positions
    /\ events \in Seq(Distances) /\ Len(events) <= MOUSE_BUFFER_LIMIT
    /\ register \in Distances /\ half \in {"none", "x", "torn"}

Init ==
    /\ toolbox = FALSE /\ tracking = FALSE /\ clamped = FALSE
    /\ full = FALSE /\ y_next = FALSE /\ polled = TRUE
    /\ here = 0 /\ before = 0 /\ cursor = 0
    /\ events = << >> /\ register = 0 /\ half = "none"
-----------------------------------------------------------------------------
(* The host: a distance, which is cut to what an event can hold, a button  *)
(* (a distance of 0), or a position.                                       *)
queue_mouse(q, d) == IF Len(q) < MOUSE_BUFFER_LIMIT THEN Append(q, d) ELSE q

MouseMove(d) ==
    /\ tracking' = FALSE /\ events' = queue_mouse(events, d)
    /\ UNCHANGED <<toolbox, cursor, here, before, clamped, register, c027, polled, half>>

MouseButton ==
    /\ events' = queue_mouse(events, 0)
    /\ UNCHANGED <<toolbox, cursor, host, clamped, register, c027, polled, half>>

(* At the start of tracking mx0 is assigned twice, the second time from my,*)
(* and my0 not at all: on either axis the last position is any.            *)
MouseMoveAbsolute(p) ==
    /\ here' = p
    /\ IF ~tracking /\ clamped
       THEN before' \in Positions /\ tracking' = TRUE
       ELSE UNCHANGED <<before, tracking>>
    /\ UNCHANGED <<toolbox, cursor, clamped, events, register, c027, polled, half>>
-----------------------------------------------------------------------------
(* The poll.                                                               *)
Tracked == tracking /\ toolbox

(* Mutant of Sets: only when there is a distance to go. *)
SetsOnMoves == Tracked /\ here # before
Sets == Tracked

Far == here - before \notin Distances

mouse_tracking ==
    /\ clamped' = toolbox
    /\ cursor' = IF ~Sets THEN cursor ELSE IF Far THEN here ELSE before
    /\ before' = IF Tracked THEN here ELSE before

Moved == IF Tracked /\ ~Far /\ here # before THEN queue_mouse(events, here - before) ELSE events

(* An event leaves the queue whether the register has been read or not.    *)
(* Mutant of Loads: the register is written all the same. *)
LoadsAlways == Moved # << >>
Loads == Moved # << >> /\ ~full

mouse_talk ==
    /\ events' = IF Moved = << >> THEN << >> ELSE Tail(Moved)
    /\ IF Loads
       THEN register' = Head(Moved) /\ full' = TRUE /\ half' = (IF half = "x" THEN "torn" ELSE half)
       ELSE UNCHANGED <<register, full, half>>

Poll ==
    /\ polled
    /\ mouse_tracking /\ mouse_talk
    /\ UNCHANGED <<toolbox, here, tracking, y_next, polled>>
-----------------------------------------------------------------------------
(* The guest.                                                              *)
Toolbox ==      \* starts, or stops
    /\ toolbox' = ~toolbox
    /\ UNCHANGED <<cursor, host, clamped, events, register, c027, polled, half>>

ReadX ==
    /\ full /\ ~y_next
    /\ y_next' = TRUE /\ half' = "x"
    /\ UNCHANGED <<toolbox, cursor, host, clamped, events, register, full, polled>>

Clamp(c) == IF c < 0 THEN 0 ELSE IF c > Widest THEN Widest ELSE c

(* It has both now.                                                        *)
ReadY ==
    /\ y_next
    /\ y_next' = FALSE /\ full' = FALSE /\ half' = "none"
    /\ cursor' = IF half = "x" THEN Clamp(cursor + register) ELSE cursor
    /\ UNCHANGED <<toolbox, host, clamped, events, register, polled>>

set_mode_flags ==      \* whatever it was
    /\ polled' = FALSE
    /\ register' = 0 /\ full' = FALSE /\ half' = "none"
    /\ UNCHANGED <<toolbox, cursor, host, clamped, events, y_next>>

clear_mode_flags ==
    /\ polled' = TRUE
    /\ UNCHANGED <<toolbox, cursor, host, clamped, events, register, c027, half>>

Reset ==      \* leaves the register
    /\ polled' = TRUE /\ events' = << >> /\ tracking' = FALSE /\ clamped' = FALSE
    /\ full' = FALSE /\ y_next' = FALSE /\ half' = "none"
    /\ UNCHANGED <<toolbox, cursor, here, before, register>>

Next ==
    \/ \E d \in Distances : MouseMove(d)
    \/ MouseButton
    \/ \E p \in Positions : MouseMoveAbsolute(p)
    \/ Poll \/ Toolbox \/ ReadX \/ ReadY
    \/ set_mode_flags \/ clear_mode_flags \/ Reset

Spec == Init /\ [][Next]_vars /\ WF_vars(Poll)
-----------------------------------------------------------------------------
(* The X and the Y that the guest reads belong together, whenever the      *)
(* polls come, unless it turns them off between the two.                   *)
PairsWhole == half # "torn"

(* A mouse that comes to rest over a guest that follows it leaves the two  *)
(* cursors at one place, whatever events were dropped on the way, and with *)
(* the start of tracking as it is.                                         *)
CursorFollows ==
    \A p \in Positions :
        <>[](Tracked /\ polled /\ here = p) => <>[](cursor = p)
=============================================================================
