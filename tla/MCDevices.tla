----------------------------- MODULE MCDevices -----------------------------
(* The three parts of the ADB and the SmartPort bus side by side: a        *)
(* behaviour belongs to one of them, and the others rest, so that their    *)
(* states add up instead of multiplying.  (What the parts of the ADB share *)
(* is in the modules: the keyboard's queue in AdbGlu, polls that the guest *)
(* turns off and on in all of them.)                                       *)
EXTENDS AdbGlu, SmartPortBus, FiniteSets

CONSTANTS Parts,
          Modifiers, Letters, Silent, RESET, Texts, Plain, Width, Encoded,
          CLIPBOARD_BUFFER_LIMIT,
          Widest, Farthest, MOUSE_BUFFER_LIMIT

VARIABLES part,
          states, queue, modifiers, repeating, reset_key, latch, strobe, asciikey,
          clipboard, text, missed, whole, got, lost,
          toolbox, cursor, here, before, tracking, clamped, events, register, full,
          y_next, polled, half

Keyboard == INSTANCE AdbKeyboard
Mouse == INSTANCE AdbMouse

ASSUME DevicesAssumption ==
    Keyboard!KeyboardAssumption /\ Mouse!MouseAssumption /\ BusAssumption

keyboardVars == <<states, queue, modifiers, repeating, reset_key, latch, strobe, asciikey,
                  clipboard, text, missed, whole, got, lost>>
mouseVars == <<toolbox, cursor, here, before, tracking, clamped, events, register, full,
               y_next, polled, half>>

MCInit == part \in Parts /\ Init /\ Keyboard!Init /\ Mouse!Init /\ BusInit

MCNext ==
    /\ UNCHANGED part
    /\ \/ part = "glu" /\ Next /\ UNCHANGED <<keyboardVars, mouseVars, busVars>>
       \/ part = "keyboard" /\ Keyboard!Next /\ UNCHANGED <<vars, mouseVars, busVars>>
       \/ part = "mouse" /\ Mouse!Next /\ UNCHANGED <<vars, keyboardVars, busVars>>
       \/ part = "bus" /\ BusNext /\ UNCHANGED <<vars, keyboardVars, mouseVars>>

MCSpec ==
    /\ MCInit /\ [][MCNext]_<<part, vars, keyboardVars, mouseVars, busVars>>
    /\ WF_vars(part = "glu" /\ Sync)
    /\ WF_mouseVars(part = "mouse" /\ Mouse!Poll)

KeysFollowUser == Keyboard!KeysFollowUser
PasteInOrderOnce == Keyboard!PasteInOrderOnce
PlainTextSurvives == Keyboard!PlainTextSurvives
PairsWhole == Mouse!PairsWhole
CursorFollows == Mouse!CursorFollows
-----------------------------------------------------------------------------
MCCommands == {"SET_MODES", "CLEAR_MODES", "READ_MEM", "DISABLE_SRQ", "POLL_0", "FLUSH",
               "SEND_ADB_KEYCODE"}
MCArguments == {{}, {"KEYB"}, {"DESK"}}

(* Two Shift keys and one Control.                                         *)
MCModifiers == [L |-> "SHIFT", R |-> "SHIFT", C |-> "CTRL"]

(* A plain text with a \r in it; and one with an e acute (two bytes, C3    *)
(* and A9, of which the second looks like the first of three).             *)
MCTexts == {<<"a", "CR", "b", "c", "d", "e">>}
MCAccents == {<<"a", "C3", "A9", "b", "c", "d", "e">>}
MCPlain == {"a", "b", "c", "d", "e"}
MCWidth == [b \in MCPlain \union {"CR", "C3", "A9"} |->
               CASE b = "C3" -> 2 [] b = "A9" -> 3 [] OTHER -> 1]
MCEncoded == [b \in DOMAIN MCWidth |->
                 CASE b = "CR" -> << >>
                   [] b = "C3" -> <<"%", ">", "9">>
                   [] b = "A9" -> [i \in 1 .. 12 |-> "%"]
                   [] OTHER -> <<b>>]

(* Requests of all kinds, of a block that is not there and to a unit that  *)
(* is not, and writes to two blocks of a blank disk.                       *)
Request(op, dest, block, data) == [op |-> op, dest |-> dest, block |-> block, data |-> data]
MCDisks == {[b \in Blocks |-> "blank"]}
MCRequests ==
    {Request("INIT", 1, 0, "blank"), Request("INIT", 2, 0, "blank"),
     Request("STATUS", 1, 0, "blank"), Request("STATUS", 1, 1, "blank"),
     Request("UNKNOWN", 1, 0, "blank"),
     Request("READBLOCK", 1, 0, "blank"), Request("READBLOCK", 1, 2, "blank"),
     Request("WRITEBLOCK", 1, 0, "written"), Request("WRITEBLOCK", 1, 1, "written"),
     Request("WRITEBLOCK", 2, 1, "written")}

(* Two keys at a time, and beside a text only one that types.              *)
Active == states \union Keyboard!Waiting \union missed
Bound ==
    /\ Cardinality(Active) <= 2
    /\ whole # << >> =>
          /\ Active \subseteq Letters /\ missed = {} /\ modifiers = {} /\ ~reset_key
          /\ Len(queue) <= 1
=============================================================================
