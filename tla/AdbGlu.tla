------------------------------- MODULE AdbGlu -------------------------------
(***************************************************************************)
(* The command interface of the ADB microcontroller (clem_adb.c): the      *)
(* guest writes commands and their arguments to C026 and reads answers and *)
(* notices there, C027 tells it what there is to do, and two interrupt     *)
(* lines call it.  clem_adb_glu_sync runs between any two instructions: it *)
(* polls the devices 60 times a second and executes commands.              *)
(*                                                                         *)
(* A status byte is the set of its bits.  A byte of data is byte n of the  *)
(* answer to a command, or an argument, of which only the meaning matters  *)
(* that set_modes and send_keycode give it.  Of the keyboard there is its  *)
(* queue (AdbKeyboard has the rest, AdbMouse what concerns the mouse); an  *)
(* event is "desk" when it is the Escape of Control-Apple-Escape.  The     *)
(* guest is any program that waits for CMD_FULL to clear before it writes. *)
(***************************************************************************)
EXTENDS Integers, Sequences

CONSTANTS
    Commands,                \* the commands that the guest gives, of those below
    Arguments,               \* the meanings of the arguments it gives them
    KEYB_BUFFER_LIMIT,       \* 8
    None

(* The bytes that each command takes, and those that answer it.            *)
Takes == [ABORT |-> 0, SET_MODES |-> 1, CLEAR_MODES |-> 1, SET_CONFIG |-> 3, SYNC |-> 8,
          WRITE_RAM |-> 2, READ_MEM |-> 2, READ_MODES |-> 0, VERSION |-> 0,
          SYSTEM_RESET |-> 0, SEND_ADB_KEYCODE |-> 1, UNDOCUMENTED |-> 2,
          DISABLE_SRQ |-> 0, XMIT_2 |-> 2, POLL_0 |-> 0, POLL_3 |-> 0]

(* Their codes are known, or in part, but nothing is expected after them.  *)
Ignored == {"ENABLE_SRQ", "FLUSH", "POLL_1", "POLL_2", "OTHER"}

Direct == {"READ_MEM", "READ_MODES", "VERSION"}       \* result_init
OfDevice == {"DISABLE_SRQ", "XMIT_2", "POLL_0", "POLL_3"}   \* device_response

Length(c) == CASE c \in Direct -> 1
               [] c \in {"POLL_0", "POLL_3"} -> 2
               [] OTHER -> 0
Reply(c) == [n \in 1 .. Length(c) |-> [of |-> c, n |-> n, means |-> {}]]

Meanings == {"KEYB", "DESK"}
Argument(m) == [of |-> None, n |-> 0, means |-> m]
Nothing == Argument({})      \* what cmd_data holds before anything is written

ASSUME AdbAssumption ==
    /\ Commands \subseteq DOMAIN Takes \union Ignored
    /\ Arguments \subseteq SUBSET Meanings
    /\ KEYB_BUFFER_LIMIT \in Nat
    /\ None \notin DOMAIN Takes \union Ignored

VARIABLES
    state, cmd_reg,
    cmd_data,                \* 16 bytes, here only the first 8
    sent, recv, limit,       \* cmd_data_sent, _recv and _limit
    cmd_status,              \* C027
    cmd_flags,               \* C026 when it is not data
    irq_line,
    autopoll,                \* AUTOPOLL_KEYB of mode_flags
    srq,                     \* MASK_SRQ of keyb_reg[3]
    keys,                    \* the queue of the keyboard
    torn                     \* history: a reset has cut a command or an answer in two

protocol == <<state, cmd_reg, cmd_data, sent, recv, limit>>
signals == <<cmd_status, cmd_flags, irq_line>>
devices == <<autopoll, srq, keys>>
vars == <<protocol, signals, devices, torn>>

StatusBits == {"CMD_FULL", "DATA_FULL", "DATA_IRQ"}
FlagBits == {"RECV_READY", "DESK_MGR", "SRQ"}
Lines == {"DATA", "KEYB_SRQ"}
Bytes == [of : {None}, n : {0}, means : SUBSET Meanings]
         \union [of : DOMAIN Takes, n : {1, 2}, means : {{}}]

(* The counters stay within what the command at hand takes or answers.     *)
TypeOK ==
    /\ state \in {"READY", "CMD_DATA", "RESULT_DATA"}
    /\ cmd_reg \in Commands \union {None}
    /\ cmd_data \in [0 .. 7 -> Bytes]
    /\ limit \in 0 .. 8 /\ sent \in 0 .. limit /\ recv \in 0 .. sent
    /\ cmd_status \subseteq StatusBits /\ cmd_flags \subseteq FlagBits /\ irq_line \subseteq Lines
    /\ autopoll \in BOOLEAN /\ srq \in BOOLEAN /\ torn \in BOOLEAN
    /\ keys \in Seq({"key", "desk"}) /\ Len(keys) <= KEYB_BUFFER_LIMIT

Init ==     \* memset to zero and clem_adb_reset
    /\ state = "READY" /\ cmd_reg = None /\ cmd_data = [i \in 0 .. 7 |-> Nothing]
    /\ sent = 0 /\ recv = 0 /\ limit = 0
    /\ cmd_status = {} /\ cmd_flags = {} /\ irq_line = {}
    /\ autopoll = TRUE /\ srq = FALSE /\ keys = << >> /\ torn = FALSE
-----------------------------------------------------------------------------
(* An event from the host: one that finds the queue full is dropped.       *)
Key(e) ==
    /\ keys' = IF Len(keys) < KEYB_BUFFER_LIMIT THEN Append(keys, e) ELSE keys
    /\ UNCHANGED <<protocol, signals, autopoll, srq, torn>>
-----------------------------------------------------------------------------
(* The guest at C026 and C027.                                             *)
expect_data(n) == state' = "CMD_DATA" /\ sent' = 0 /\ recv' = 0 /\ limit' = n

(* A new command takes the announcement of an answer back, but not its     *)
(* DATA_FULL.                                                              *)
start_cmd(c) ==
    /\ cmd_reg' = c
    /\ cmd_flags' = cmd_flags \ {"RECV_READY"}
    /\ IF c \in Ignored THEN UNCHANGED <<state, sent, recv, limit>> ELSE expect_data(Takes[c])

WriteCommand(c) ==
    /\ "CMD_FULL" \notin cmd_status /\ state = "READY"
    /\ cmd_status' = cmd_status \union {"CMD_FULL"}
    /\ start_cmd(c)
    /\ UNCHANGED <<cmd_data, irq_line, devices, torn>>

(* add_data asserts that there is room, and else drops the byte.           *)
WriteArgument(m) ==
    /\ "CMD_FULL" \notin cmd_status /\ state = "CMD_DATA"
    /\ cmd_status' = cmd_status \union {"CMD_FULL"}
    /\ IF sent < limit
       THEN cmd_data' = [cmd_data EXCEPT ![sent] = Argument(m)] /\ sent' = sent + 1
       ELSE UNCHANGED <<cmd_data, sent>>
    /\ UNCHANGED <<state, cmd_reg, recv, limit, cmd_flags, irq_line, devices, torn>>

(* A byte written while an answer is read is lost.                         *)
(* Mutant of WriteWhileAnswering: it is taken as an argument. *)
WriteTaken(m) ==
    /\ "CMD_FULL" \notin cmd_status /\ state = "RESULT_DATA"
    /\ cmd_data' = [cmd_data EXCEPT ![recv] = Argument(m)]
    /\ UNCHANGED <<state, cmd_reg, sent, recv, limit, signals, devices, torn>>

WriteWhileAnswering(m) ==
    /\ "CMD_FULL" \notin cmd_status /\ state = "RESULT_DATA"
    /\ UNCHANGED vars

(* Reading C026 takes the notices, and when they announce an answer that   *)
(* is what it reads from now on.                                           *)
ReadNotices ==
    /\ state = "READY"
    /\ cmd_status' = cmd_status \ {"CMD_FULL"}
    /\ cmd_flags' = {}
    /\ IF "RECV_READY" \in cmd_flags
       THEN state' = "RESULT_DATA" /\ irq_line' = irq_line \ {"KEYB_SRQ"}
       ELSE UNCHANGED state /\ irq_line' = irq_line \ {"KEYB_SRQ", "DATA"}
    /\ UNCHANGED <<cmd_reg, cmd_data, sent, recv, limit, devices, torn>>

command_done == state' = "READY" /\ sent' = 0 /\ recv' = 0 /\ limit' = 0 /\ torn' = FALSE

ReadData ==
    /\ state = "RESULT_DATA"
    /\ LET next == IF sent > recv THEN recv + 1 ELSE recv
       IN /\ IF sent = next
             THEN cmd_status' = cmd_status \ {"DATA_FULL"} /\ irq_line' = irq_line \ {"DATA"}
             ELSE UNCHANGED <<cmd_status, irq_line>>
          /\ IF next >= limit
             THEN command_done
             ELSE recv' = next /\ UNCHANGED <<state, sent, limit, torn>>
    /\ UNCHANGED <<cmd_reg, cmd_data, cmd_flags, devices>>

WriteStatus(wanted) ==     \* whether data is to interrupt
    /\ IF wanted THEN cmd_status' = cmd_status \union {"DATA_IRQ"} /\ UNCHANGED irq_line
       ELSE cmd_status' = cmd_status \ {"DATA_IRQ"} /\ irq_line' = irq_line \ {"DATA"}
    /\ UNCHANGED <<protocol, cmd_flags, devices, torn>>
-----------------------------------------------------------------------------
(* The parts of clem_adb_glu_sync work in turn on a record of what they    *)
(* change; "dispatch" is irq_dispatch, which joins irq_line at the end.    *)
Now == [status |-> cmd_status, flags |-> cmd_flags, line |-> irq_line, dispatch |-> {},
        autopoll |-> autopoll, srq |-> srq, keys |-> keys]

irq_dispatch(r, line) ==
    IF \/ line = "DATA" /\ "DATA_IRQ" \in r.status
       \/ line = "KEYB_SRQ" /\ r.srq
    THEN [r EXCEPT !.dispatch = @ \union {line}]
    ELSE r

DeskRequest(r) == irq_dispatch([r EXCEPT !.flags = @ \union {"DESK_MGR"}], "DATA")

(* Two events at most go into the register, and to C000 when it polls.     *)
keyb_talk(r, send_to_host) ==
    LET n == IF Len(r.keys) < 2 THEN Len(r.keys) ELSE 2
        popped == [r EXCEPT !.keys = SubSeq(@, n + 1, Len(@))]
    IN IF send_to_host /\ \E i \in 1 .. n : r.keys[i] = "desk" THEN DeskRequest(popped) ELSE popped

Polled(r) ==
    IF r.autopoll THEN keyb_talk(r, TRUE)
    ELSE IF r.srq /\ r.keys # << >> THEN irq_dispatch(r, "KEYB_SRQ")
    ELSE r

set_mode_flags(r, m) == IF "KEYB" \in m THEN [r EXCEPT !.autopoll = FALSE, !.srq = TRUE] ELSE r

clear_mode_flags(r, m) ==
    IF "KEYB" \in m /\ ~r.autopoll THEN [r EXCEPT !.autopoll = TRUE, !.srq = FALSE] ELSE r

disable_srq(r) == [r EXCEPT !.srq = FALSE, !.line = @ \ {"KEYB_SRQ"}]

(* What a command does to the devices and their signals.                   *)
Effect(r, c) ==
    LET m == cmd_data[0].means
    IN CASE c \in {"SET_MODES", "SYNC"} -> set_mode_flags(r, m)
         [] c = "CLEAR_MODES" -> clear_mode_flags(r, m)
         [] c = "SEND_ADB_KEYCODE" -> IF "DESK" \in m THEN DeskRequest(r) ELSE r
         [] c = "DISABLE_SRQ" -> disable_srq(r)
         [] c = "POLL_0" -> keyb_talk(r, FALSE)
         [] OTHER -> r

(* Mutant of Answered: the bytes are not announced. *)
AnsweredSilently(r, c) == r

Answered(r, c) ==
    LET told == IF c \in OfDevice THEN [r EXCEPT !.flags = @ \union {"RECV_READY"}] ELSE r
    IN IF Length(c) = 0 THEN told
       ELSE irq_dispatch([told EXCEPT !.status = @ \union {"DATA_FULL"}], "DATA")

glu_command(c) ==
    IF c \notin Direct \union OfDevice THEN command_done /\ UNCHANGED cmd_data
    ELSE /\ state' = IF c \in Direct THEN "RESULT_DATA" ELSE "READY"
         /\ recv' = 0 /\ limit' = Length(c) /\ sent' = Length(c)
         /\ cmd_data' = [i \in 0 .. 7 |-> IF i < Length(c) THEN Reply(c)[i + 1] ELSE cmd_data[i]]
         /\ torn' = (torn /\ c \in Direct)

SyncEnds(r) ==
    LET line == r.line \union r.dispatch
    IN /\ irq_line' = line
       /\ cmd_status' = r.status
       /\ cmd_flags' = IF "KEYB_SRQ" \in line THEN r.flags \union {"SRQ"} ELSE r.flags
       /\ autopoll' = r.autopoll /\ srq' = r.srq /\ keys' = r.keys
       /\ UNCHANGED cmd_reg

After(poll) == IF poll THEN Polled(Now) ELSE Now

Rest(poll) ==       \* no command under way
    /\ state # "CMD_DATA"
    /\ SyncEnds(After(poll))
    /\ UNCHANGED <<state, cmd_data, sent, recv, limit, torn>>

Received == IF sent > recv THEN recv + 1 ELSE recv

(* Mutant of Due: the count is that of before. *)
DueLate == recv >= limit
Due == Received >= limit

(* The register is empty once all that was written has been received.      *)
(* Mutant of Emptied: it stays full. *)
EmptiedNever(r) == r
Emptied(r) == IF sent = Received THEN [r EXCEPT !.status = @ \ {"CMD_FULL"}] ELSE r

Receive(poll) ==
    /\ state = "CMD_DATA" /\ ~Due
    /\ recv' = Received
    /\ SyncEnds(Emptied(After(poll)))
    /\ UNCHANGED <<state, cmd_data, sent, limit, torn>>

Execute(poll) ==
    /\ state = "CMD_DATA" /\ Due
    /\ SyncEnds(Answered(Effect(Emptied(After(poll)), cmd_reg), cmd_reg))
    /\ glu_command(cmd_reg)

Sync == \E poll \in BOOLEAN : Rest(poll) \/ Receive(poll) \/ Execute(poll)

(* clem_adb_reset leaves the command and its bytes as they are.            *)
Reset ==
    /\ cmd_status' = {} /\ cmd_flags' = {} /\ irq_line' = {}
    /\ autopoll' = TRUE /\ srq' = FALSE /\ keys' = << >>
    /\ torn' = (state # "READY")
    /\ UNCHANGED protocol

Next ==
    \/ \E e \in {"key", "desk"} : Key(e)
    \/ \E c \in Commands : WriteCommand(c)
    \/ \E m \in Arguments : WriteArgument(m) \/ WriteWhileAnswering(m)
    \/ ReadNotices \/ ReadData
    \/ \E wanted \in BOOLEAN : WriteStatus(wanted)
    \/ Sync \/ Reset

Spec == Init /\ [][Next]_vars /\ WF_vars(Sync)
-----------------------------------------------------------------------------
(* What the state of the counters means for the guest.                     *)
request == IF state = "CMD_DATA" THEN cmd_reg ELSE None
answer ==
    IF state = "RESULT_DATA" \/ "RECV_READY" \in cmd_flags
    THEN [n \in 1 .. sent - recv |-> cmd_data[recv + n - 1]]
    ELSE << >>
begun == state = "RESULT_DATA" /\ recv < sent

Answers == INSTANCE AdbAnswers WITH Commands <- Commands \ Ignored

(* The bytes that the guest reads at C026 are those of its answer, each    *)
(* once and in order, though arguments and answers share one buffer and    *)
(* one pair of counters: the microcontroller implements AdbAnswers.        *)
ImplementsAnswers == Answers!Spec

Shown == "DATA_FULL" \in cmd_status \/ cmd_flags # {}     \* at C027

(* C027 and the interrupt lines tell the truth.  An answer that the guest  *)
(* has not read shows at C027; the line for data is up only as long as     *)
(* something shows there, and that of the keyboard as long as C026 says so.*)
(* There are two exceptions.  A reset clears the status of an answer that  *)
(* it does not take back; and when the guest reads the notice of a command *)
(* that has no answer together with one of the desk manager, the line      *)
(* stays up with nothing to show until it reads C026 once more.            *)
StatusTells ==
    /\ answer # << >> /\ ~torn => Shown
    /\ "DATA" \in irq_line => Shown \/ (state = "RESULT_DATA" /\ limit = 0)
    /\ "KEYB_SRQ" \in irq_line => "SRQ" \in cmd_flags

(* A guest that waits for CMD_FULL to clear never sends a byte for which   *)
(* there is no room, which add_data asserts.  (A reset clears CMD_FULL and *)
(* leaves the bytes.)                                                      *)
NeverOverruns ==
    state = "CMD_DATA" /\ "CMD_FULL" \notin cmd_status /\ ~torn => sent < limit

(* And it does not wait for ever, unless for a command that the GLU does   *)
(* not know: there nothing ever clears CMD_FULL but a read of C026.        *)
GuestNotKeptWaiting ==
    "CMD_FULL" \in cmd_status /\ cmd_reg \notin Ignored ~> "CMD_FULL" \notin cmd_status
=============================================================================
