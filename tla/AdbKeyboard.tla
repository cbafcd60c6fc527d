---------------------------- MODULE AdbKeyboard ----------------------------
(***************************************************************************)
(* From the keys of the host to C000 (clem_adb.c): the events of the host  *)
(* wait in a short queue; 60 times a second, and whenever the guest asks,  *)
(* the keyboard hands two of them over, and with autopoll they also reach  *)
(* the latch that old software reads at C000 and clears at C010.  A text   *)
(* that the user pastes trickles into the same latch, one byte at a time,  *)
(* through a short buffer that the backend refills at every VBL.           *)
(*                                                                         *)
(* Of a character only its origin matters: typed, or which byte of the     *)
(* text.  The times of auto-repeat are not modelled: a key that is due to  *)
(* repeat may do so at every poll.  Left out are keypad, Caps Lock and the *)
(* repeat bit of C025, and KEY_FULL of C027, which follows the latch.      *)
(***************************************************************************)
EXTENDS Integers, SequencesExt

CONSTANTS
    Modifiers,                 \* function: the modifier keys, and what each one is
    Letters, Silent,           \* the keys that type; those of them that do not with Control
    RESET,                     \* the Reset key
    Texts,                     \* what the user may paste, each of different bytes
    Plain,                     \* the ASCII bytes of the texts, but for \r
    Width,                     \* function: the length of an atom, by its first byte
    Encoded,                   \* function: what becomes of an atom, by its first byte
    KEYB_BUFFER_LIMIT,         \* 8
    CLIPBOARD_BUFFER_LIMIT,    \* 8
    None

Keys == DOMAIN Modifiers \union Letters \union {RESET}
Events == [key : Keys, down : BOOLEAN]
Release(k) == [key |-> k, down |-> FALSE]
Press(k) == [key |-> k, down |-> TRUE]

KeyboardAssumption ==
    /\ RESET \notin DOMAIN Modifiers \union Letters
    /\ \A k \in DOMAIN Modifiers : Modifiers[k] # None
    /\ DOMAIN Modifiers \intersect Letters = {} /\ Silent \subseteq Letters
    /\ \A t \in Texts : t \in Seq(DOMAIN Width) /\ IsInjective(t)
    /\ \A b \in DOMAIN Width : Width[b] \in Nat
    /\ DOMAIN Encoded = DOMAIN Width /\ Plain \subseteq DOMAIN Width /\ None \notin Plain
    /\ \A b \in Plain : Width[b] = 1 /\ Encoded[b] = <<b>>
    /\ \A b \in DOMAIN Width \ Plain : Encoded[b] \in Seq(Range(Encoded[b]) \ (Plain \union {None}))
    /\ KEYB_BUFFER_LIMIT \in Nat \ {0} /\ CLIPBOARD_BUFFER_LIMIT \in Nat \ {0}

VARIABLES
    states,       \* keyb.states: the keys that the user holds
    queue,        \* keyb.keys
    modifiers,    \* of keyb_reg[2]
    repeating,    \* last_a2_key_down
    reset_key,
    latch,        \* io_key_last_ascii: the byte of the text, or None if it was typed
    strobe,       \* its bit 7
    asciikey,     \* is_asciikey_down
    clipboard,    \* the buffer
    text,         \* clipboardText_ from clipboardHead_
    missed,       \* history: keys of which an event has never taken effect
    whole,        \* history: the text that was sent
    got,          \* history: what the guest has read of it
    lost          \* history: what a typed key overwrote or a reset cleared

vars == <<states, queue, modifiers, repeating, reset_key, latch, strobe, asciikey,
          clipboard, text, missed, whole, got, lost>>

ModifierOf(k) == IF k \in DOMAIN Modifiers THEN Modifiers[k] ELSE None

TypeOK ==
    /\ states \subseteq Keys /\ missed \subseteq Keys
    /\ \A i \in DOMAIN queue : queue[i] \in Events
    /\ Len(queue) <= KEYB_BUFFER_LIMIT /\ Len(clipboard) <= CLIPBOARD_BUFFER_LIMIT
    /\ modifiers \subseteq {ModifierOf(k) : k \in DOMAIN Modifiers}
    /\ repeating \in Letters \union {None}
    /\ reset_key \in BOOLEAN /\ strobe \in BOOLEAN /\ asciikey \in BOOLEAN

Init ==
    /\ states = {} /\ queue = << >> /\ modifiers = {} /\ repeating = None
    /\ reset_key = FALSE /\ latch = None /\ strobe = FALSE /\ asciikey = FALSE
    /\ clipboard = << >> /\ text = << >>
    /\ missed = {} /\ whole = << >> /\ got = << >> /\ lost = {}
-----------------------------------------------------------------------------
(* What the handlers change, as one record r.                              *)
Now == [queue |-> queue, modifiers |-> modifiers, repeating |-> repeating,
        reset |-> reset_key, latch |-> latch, strobe |-> strobe, asciikey |-> asciikey,
        clipboard |-> clipboard, missed |-> missed, lost |-> lost]

Becomes(r) ==
    /\ queue' = r.queue /\ modifiers' = r.modifiers /\ repeating' = r.repeating
    /\ reset_key' = r.reset /\ latch' = r.latch /\ strobe' = r.strobe
    /\ asciikey' = r.asciikey /\ clipboard' = r.clipboard
    /\ missed' = r.missed /\ lost' = r.lost

Pasted(r) == IF r.strobe /\ r.latch # None THEN {r.latch} ELSE {}

Full(r) == Len(r.queue) >= KEYB_BUFFER_LIMIT

Repeats(r, e) ==
    IF e.key \notin Letters THEN r.repeating
    ELSE IF e.down THEN e.key
    ELSE IF e.key = r.repeating THEN None ELSE r.repeating

queue_key(r, e) ==      \* drops what it has no room for
    IF Full(r) THEN r
    ELSE [r EXCEPT !.queue = Append(@, e), !.repeating = Repeats(r, e)]

keyb_parse(r, e) ==     \* the modifiers
    LET m == ModifierOf(e.key)
    IN IF m = None THEN r
       ELSE [r EXCEPT !.modifiers = IF e.down THEN @ \union {m} ELSE @ \ {m}]

Types(r, k) == k \in Letters /\ ~(k \in Silent /\ "CTRL" \in r.modifiers)

keyb_send_to_host(r, e) ==
    IF ~Types(r, e.key) THEN r
    ELSE IF ~e.down THEN [r EXCEPT !.asciikey = FALSE]
    ELSE [r EXCEPT !.latch = None, !.strobe = TRUE, !.asciikey = TRUE,
                   !.lost = @ \union Pasted(r)]

unqueue_key(r) == [r EXCEPT !.queue = Tail(@)]

HandOver(r, send_to_host) ==
    LET parsed == keyb_parse(unqueue_key(r), Head(r.queue))
    IN IF send_to_host THEN keyb_send_to_host(parsed, Head(r.queue)) ELSE parsed

(* Mutant of HandOverSecond: it reaches the register and nothing else. *)
HandOverUnparsed(r, send_to_host) == unqueue_key(r)
HandOverSecond(r, send_to_host) == HandOver(r, send_to_host)

(* Reset takes the register for itself when its event comes first; as the  *)
(* second event only its press is kept for later.                          *)
keyb_talk(r, send_to_host) ==
    IF r.queue = << >> THEN r
    ELSE IF Head(r.queue).key = RESET
    THEN [unqueue_key(r) EXCEPT
             !.reset = @ \/ (Head(r.queue) = Release(RESET) /\ "CTRL" \in r.modifiers)]
    ELSE LET first == HandOver(r, send_to_host)
         IN IF first.queue # << >> /\ Head(first.queue) # Press(RESET)
            THEN HandOverSecond(first, send_to_host)
            ELSE first

MayPaste(r) == ~r.strobe /\ ~r.asciikey

clipboard_paste(r) ==
    IF ~MayPaste(r) THEN r
    ELSE [r EXCEPT !.latch = Head(r.clipboard), !.strobe = TRUE, !.clipboard = Tail(@)]
-----------------------------------------------------------------------------
(* The host.  A key is taken for pressed or released whether there was     *)
(* room for the event or not.  (An event that does get through makes up    *)
(* for one of its key that did not.)                                       *)
device_input(e) ==
    /\ (e.key \in states) # e.down
    /\ Becomes([queue_key(Now, e) EXCEPT
                   !.missed = IF Full(Now) THEN @ \union {e.key} ELSE @ \ {e.key}])
    /\ states' = IF e.down THEN states \union {e.key} ELSE states \ {e.key}
    /\ UNCHANGED <<text, whole, got>>

SendText(t) ==      \* onCommandSendText; here once
    /\ whole = << >>
    /\ text' = t /\ whole' = t
    /\ UNCHANGED <<states, queue, modifiers, repeating, reset_key, latch, strobe, asciikey,
                   clipboard, missed, got, lost>>

(* At the VBL the backend offers the rest of the text, and one atom of it  *)
(* is taken.  Of an atom of several bytes all but the last are taken.      *)
(* Mutant of Room: the buffer is filled up. *)
RoomAlways == TRUE
Room == 2 * Len(clipboard) <= CLIPBOARD_BUFFER_LIMIT

Least(a, b) == IF a < b THEN a ELSE b

push_utf8_atom ==
    /\ text # << >> /\ Room
    /\ LET w == Width[Head(text)]
           filled == clipboard \o Encoded[Head(text)]
       IN IF w = 0 \/ w > Len(text)
          THEN text' = << >> /\ UNCHANGED clipboard
          ELSE /\ clipboard' = SubSeq(filled, 1, Least(Len(filled), CLIPBOARD_BUFFER_LIMIT))
               /\ text' = SubSeq(text, (IF w = 1 THEN 2 ELSE w), Len(text))
    /\ UNCHANGED <<states, queue, modifiers, repeating, reset_key, latch, strobe, asciikey,
                   missed, whole, got, lost>>
-----------------------------------------------------------------------------
(* The polls of clem_adb_glu_sync.  The guest may turn autopoll off and on *)
(* between any two of them.                                                *)
Repeated(r) == IF r.repeating = None THEN r ELSE queue_key(r, Press(r.repeating))

Poll(autopoll, due) ==
    LET r == IF clipboard # << >> THEN clipboard_paste(Now)
             ELSE IF due THEN Repeated(Now) ELSE Now
    IN /\ Becomes(IF autopoll THEN keyb_talk(r, TRUE) ELSE r)
       /\ UNCHANGED <<states, text, whole, got>>

POLL_0 ==      \* the guest asks for the register
    /\ Becomes(keyb_talk(Now, FALSE))
    /\ UNCHANGED <<states, text, whole, got>>

SEND_ADB_KEYCODE(e) ==      \* it types itself
    /\ Becomes(keyb_send_to_host(Now, e))
    /\ UNCHANGED <<states, text, whole, got>>

SYSTEM_RESET ==
    /\ Becomes([Now EXCEPT !.reset = TRUE])
    /\ UNCHANGED <<states, text, whole, got>>

key_strobe ==      \* C010
    /\ strobe /\ strobe' = FALSE
    /\ got' = IF latch = None THEN got ELSE Append(got, latch)
    /\ UNCHANGED <<states, queue, modifiers, repeating, reset_key, latch, asciikey,
                   clipboard, text, missed, whole, lost>>

Waiting == {queue[i].key : i \in DOMAIN queue}

(* clem_adb_reset: neither the states nor the modifiers nor the latch.     *)
Reset ==
    /\ Becomes([Now EXCEPT
           !.queue = << >>, !.repeating = None, !.reset = FALSE, !.clipboard = << >>,
           !.missed = @ \union Waiting,
           !.lost = @ \union {clipboard[i] : i \in DOMAIN clipboard}])
    /\ UNCHANGED <<states, text, whole, got>>

Next ==
    \/ \E e \in Events : device_input(e)
    \/ \E t \in Texts : SendText(t)
    \/ push_utf8_atom
    \/ \E autopoll, due \in BOOLEAN : Poll(autopoll, due)
    \/ POLL_0 \/ SYSTEM_RESET \/ key_strobe \/ Reset
    \/ \E k \in Letters : SEND_ADB_KEYCODE(Press(k)) \/ SEND_ADB_KEYCODE(Release(k))

Spec == Init /\ [][Next]_vars
-----------------------------------------------------------------------------
Settled(k) == k \notin missed /\ k \notin Waiting

(* What the machine takes for pressed is what the user holds.  A modifier  *)
(* is on only if a key of its kind is held, it is on if the only key of    *)
(* its kind is, and only a held key repeats: as long as no event of the    *)
(* key waits, was dropped by a full queue or was cleared by a reset.  (Of  *)
(* two Shift keys the first that is released turns Shift off.)             *)
KeysFollowUser ==
    /\ \A m \in modifiers :
          LET kind == {k \in Keys : ModifierOf(k) = m}
          IN (\A k \in kind : Settled(k)) => kind \intersect states # {}
    /\ \A k \in states \intersect DOMAIN Modifiers :
          Settled(k) /\ (\A j \in Keys : ModifierOf(j) = ModifierOf(k) => j = k)
            => ModifierOf(k) \in modifiers
    /\ repeating # None => repeating \in states \union missed

(* The text, as far as it has come: read by the guest, in the latch, in    *)
(* the buffer, or still to come.                                           *)
Latched == IF strobe /\ latch # None THEN <<latch>> ELSE << >>
Stream == got \o Latched \o clipboard \o text

(* The sequences s and t have the same elements of kept, in the order of t *)
(* (whose elements differ).                                                *)
KeptAs(s, t, kept) ==
    /\ Range(s) \intersect kept = Range(t) \intersect kept
    /\ \A i, j \in DOMAIN s : i < j /\ {s[i], s[j]} \subseteq kept =>
          \E k, l \in DOMAIN t : k < l /\ t[k] = s[i] /\ t[l] = s[j]

PlainBytesKept == KeptAs(Stream, whole, Plain \ lost)

(* A text of plain bytes reaches the guest whole, each byte once and in    *)
(* order, however slowly the guest reads: but for bytes that a typed key   *)
(* overwrote or a reset cleared.                                           *)
PasteInOrderOnce == (\A i \in DOMAIN whole : Width[whole[i]] = 1) => PlainBytesKept

(* The comment at emulator_mmio.c:405 has every other character converted  *)
(* or percent-encoded.  The byte at which such an atom ends is taken for   *)
(* the start of the next, which eats plain bytes or ends the text.         *)
PlainTextSurvives == PlainBytesKept
=============================================================================
