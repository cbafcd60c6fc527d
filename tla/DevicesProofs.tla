--------------------------- MODULE DevicesProofs ---------------------------
(***************************************************************************)
(* The devices that the guest talks to.  First the command interface of    *)
(* the ADB: what it promises the guest, for all commands, arguments and    *)
(* lengths of the keyboard's queue.  Then the SmartPort bus: the unit is a *)
(* block device, for every set of blocks, data and requests.  Then the     *)
(* keyboard, whose modifiers and repeats follow the keys held, the mouse,  *)
(* whose register the guest reads in pairs, and the text that is pasted:   *)
(* for all keys, queues, distances and texts.                              *)
(***************************************************************************)
EXTENDS MCDevices, SequenceTheorems, TLAPS

-----------------------------------------------------------------------------
(* The parts of a sync work on a record; this is what it may be, and what  *)
(* no part but the command itself does to it: DATA_FULL and the notice of  *)
(* an answer stay as they are, and the line for data is raised with a      *)
(* notice of the desk manager only.                                        *)
KeyQueues == {q \in Seq({"key", "desk"}) : Len(q) <= KEYB_BUFFER_LIMIT}

Work == [status : SUBSET StatusBits, flags : SUBSET FlagBits, line : SUBSET Lines,
         dispatch : SUBSET Lines, autopoll : BOOLEAN, srq : BOOLEAN, keys : KeyQueues]

Up(r) == "DATA" \in r.line \union r.dispatch

Quiet(r, s) ==
    /\ s \in Work
    /\ s.status = r.status
    /\ r.flags \subseteq s.flags
    /\ "RECV_READY" \in s.flags => "RECV_READY" \in r.flags
    /\ Up(s) => Up(r) \/ "DESK_MGR" \in s.flags

LEMMA QuietTwice ==
    ASSUME NEW r \in Work, NEW s, NEW t, Quiet(r, s), Quiet(s, t)
    PROVE  Quiet(r, t)
BY DEF Quiet

LEMMA KeyboardLineQuiet ==
    ASSUME NEW r \in Work
    PROVE  Quiet(r, irq_dispatch(r, "KEYB_SRQ"))
BY DEF Quiet, irq_dispatch, Work, Up, Lines

LEMMA DeskQuiet ==
    ASSUME NEW r \in Work
    PROVE  Quiet(r, DeskRequest(r))
<1> DEFINE s == [r EXCEPT !.flags = @ \union {"DESK_MGR"}]
<1>1. s \in Work /\ s.status = r.status /\ s.flags = r.flags \union {"DESK_MGR"}
      /\ s.line = r.line /\ s.dispatch = r.dispatch
  BY DEF Work, FlagBits
<1> HIDE DEF s
<1>2. /\ irq_dispatch(s, "DATA") \in Work
      /\ irq_dispatch(s, "DATA").status = s.status
      /\ irq_dispatch(s, "DATA").flags = s.flags
  BY <1>1 DEF irq_dispatch, Work, Lines
<1>3. DeskRequest(r) = irq_dispatch(s, "DATA")
  BY DEF DeskRequest, s
<1> QED
  BY <1>1, <1>2, <1>3 DEF Quiet

LEMMA TalkQuiet ==
    ASSUME NEW r \in Work, NEW send \in BOOLEAN
    PROVE  Quiet(r, keyb_talk(r, send))
<1> DEFINE n == IF Len(r.keys) < 2 THEN Len(r.keys) ELSE 2
           rest == SubSeq(r.keys, n + 1, Len(r.keys))
           popped == [r EXCEPT !.keys = rest]
<1>1. r.keys \in Seq({"key", "desk"}) /\ Len(r.keys) \in Nat /\ Len(r.keys) <= KEYB_BUFFER_LIMIT
  BY DEF Work, KeyQueues
<1>2. rest \in Seq({"key", "desk"}) /\ Len(rest) = Len(r.keys) - n /\ n \in 0 .. Len(r.keys)
  <2>1. n \in 0 .. Len(r.keys)
    BY <1>1
  <2> HIDE DEF n
  <2>2. n + 1 \in 1 .. Len(r.keys) + 1
    BY <1>1, <2>1
  <2>3. \A i \in n + 1 .. Len(r.keys) : r.keys[i] \in {"key", "desk"}
    BY <1>1, <2>1
  <2> QED
    BY <1>1, <2>1, <2>2, <2>3, SubSeqProperties
<1>3. rest \in KeyQueues
  BY <1>1, <1>2, AdbAssumption DEF KeyQueues
<1> HIDE DEF rest
<1>4. Quiet(r, popped)
  BY <1>3 DEF Quiet, Work, Up
<1>5. popped \in Work
  BY <1>4 DEF Quiet
<1>6. keyb_talk(r, send) \in {popped, DeskRequest(popped)}
  BY DEF keyb_talk, rest
<1> HIDE DEF popped
<1> QED
  BY <1>4, <1>5, <1>6, DeskQuiet, QuietTwice

LEMMA SameQuiet == ASSUME NEW r \in Work PROVE Quiet(r, r)
BY DEF Quiet

LEMMA PollQuiet ==
    ASSUME NEW r \in Work
    PROVE  Quiet(r, Polled(r))
BY TalkQuiet, KeyboardLineQuiet, SameQuiet DEF Polled

LEMMA EffectQuiet ==
    ASSUME NEW r \in Work, NEW c
    PROVE  Quiet(r, Effect(r, c))
<1>1. ASSUME NEW m PROVE Quiet(r, set_mode_flags(r, m))
  BY DEF set_mode_flags, Quiet, Work, Up
<1>2. ASSUME NEW m PROVE Quiet(r, clear_mode_flags(r, m))
  BY DEF clear_mode_flags, Quiet, Work, Up
<1>3. Quiet(r, disable_srq(r))
  BY DEF disable_srq, Quiet, Work, Up
<1> QED
  BY <1>1, <1>2, <1>3, DeskQuiet, TalkQuiet, SameQuiet DEF Effect
-----------------------------------------------------------------------------
(* The inductive invariant: what the counters mean in each state, and what *)
(* shows at C027.                                                          *)
Counters ==
    /\ state = "READY" => ~torn /\ recv = 0 /\ sent = limit
    /\ state = "CMD_DATA" => cmd_reg \in DOMAIN Takes
    /\ state = "RESULT_DATA" => sent = limit
    /\ "RECV_READY" \in cmd_flags => state = "READY"

(* A byte is on its way exactly as long as CMD_FULL is set.                *)
OneAtATime ==
    state = "CMD_DATA" /\ ~torn =>
        IF "CMD_FULL" \in cmd_status THEN sent \in {recv, recv + 1} ELSE sent = recv /\ sent < limit

Announced ==
    /\ state = "RESULT_DATA" /\ recv < sent /\ ~torn => "DATA_FULL" \in cmd_status
    /\ "RECV_READY" \in cmd_flags /\ 0 < sent => "DATA_FULL" \in cmd_status

LinesTell ==
    /\ "DATA" \in irq_line =>
          \/ "DATA_FULL" \in cmd_status
          \/ "DESK_MGR" \in cmd_flags
          \/ state = "RESULT_DATA" /\ limit = 0
    /\ "KEYB_SRQ" \in irq_line => "SRQ" \in cmd_flags

IInv == TypeOK /\ Counters /\ OneAtATime /\ Announced /\ LinesTell

LEMMA StartsWell == Init => IInv
<1> SUFFICES ASSUME Init PROVE IInv
  OBVIOUS
<1>1. cmd_data \in [0 .. 7 -> Bytes]
  <2>1. Nothing \in Bytes
    BY DEF Nothing, Argument, Bytes
  <2> QED
    BY <2>1 DEF Init
<1>2. << >> \in Seq({"key", "desk"}) /\ Len(<< >>) = 0 /\ 0 <= KEYB_BUFFER_LIMIT
  BY AdbAssumption
<1>3. TypeOK
  BY <1>1, <1>2 DEF Init, TypeOK
<1> QED
  BY <1>3 DEF Init, IInv, Counters, OneAtATime, Announced, LinesTell

LEMMA NowIsWork == TypeOK => Now \in Work
BY DEF TypeOK, Now, Work, KeyQueues

LEMMA AfterQuiet ==
    ASSUME TypeOK, NEW poll \in BOOLEAN
    PROVE  Quiet(Now, After(poll)) /\ After(poll) \in Work
<1>1. Quiet(Now, After(poll))
  BY NowIsWork, PollQuiet, SameQuiet DEF After
<1> QED
  BY <1>1 DEF Quiet

LEMMA EmptiedWork ==
    ASSUME NEW r \in Work
    PROVE  /\ Emptied(r) \in Work
           /\ Emptied(r).flags = r.flags /\ Up(Emptied(r)) = Up(r)
           /\ Emptied(r).status = IF sent = Received THEN r.status \ {"CMD_FULL"} ELSE r.status
BY DEF Emptied, Work, Up

LEMMA Ends ==
    ASSUME NEW r \in Work, SyncEnds(r)
    PROVE  /\ cmd_status' = r.status /\ cmd_status' \subseteq StatusBits
           /\ r.flags \subseteq cmd_flags' /\ cmd_flags' \subseteq FlagBits
           /\ "RECV_READY" \in cmd_flags' => "RECV_READY" \in r.flags
           /\ irq_line' \subseteq Lines
           /\ "DATA" \in irq_line' => Up(r)
           /\ "KEYB_SRQ" \in irq_line' => "SRQ" \in cmd_flags'
           /\ autopoll' \in BOOLEAN /\ srq' \in BOOLEAN
           /\ keys' \in Seq({"key", "desk"}) /\ Len(keys') <= KEYB_BUFFER_LIMIT
           /\ cmd_reg' = cmd_reg
<1>1. /\ r.status \subseteq StatusBits /\ r.flags \subseteq FlagBits
      /\ r.line \subseteq Lines /\ r.dispatch \subseteq Lines
      /\ r.autopoll \in BOOLEAN /\ r.srq \in BOOLEAN /\ r.keys \in KeyQueues
  BY DEF Work
<1> QED
  BY <1>1 DEF SyncEnds, Up, KeyQueues, FlagBits
-----------------------------------------------------------------------------
(* One lemma per step of the guest, the host or the microcontroller.       *)
LEMMA KeyKeeps == ASSUME IInv, NEW e \in {"key", "desk"}, Key(e) PROVE IInv'
<1>1. keys' \in Seq({"key", "desk"}) /\ Len(keys') <= KEYB_BUFFER_LIMIT
  BY AdbAssumption DEF Key, IInv, TypeOK
<1>2. UNCHANGED <<protocol, signals, autopoll, srq, torn>>
  BY DEF Key
<1> QED
  BY <1>1, <1>2 DEF IInv, TypeOK, Counters, OneAtATime, Announced, LinesTell, protocol, signals

LEMMA WriteCommandKeeps == ASSUME IInv, NEW c \in Commands, WriteCommand(c) PROVE IInv'
<1>1. /\ "CMD_FULL" \notin cmd_status /\ state = "READY"
      /\ cmd_status' = cmd_status \union {"CMD_FULL"}
      /\ cmd_reg' = c /\ cmd_flags' = cmd_flags \ {"RECV_READY"}
      /\ UNCHANGED <<cmd_data, irq_line, devices, torn>>
  BY DEF WriteCommand, start_cmd
<1>2. CASE c \in Ignored
  <2>1. UNCHANGED <<state, sent, recv, limit>>
    BY <1>2 DEF WriteCommand, start_cmd
  <2> QED
    BY <1>1, <2>1 DEF IInv, TypeOK, Counters, OneAtATime, Announced, LinesTell, devices, StatusBits
<1>3. CASE c \notin Ignored
  <2>1. state' = "CMD_DATA" /\ sent' = 0 /\ recv' = 0 /\ limit' = Takes[c]
    BY <1>3 DEF WriteCommand, start_cmd, expect_data
  <2>2. c \in DOMAIN Takes /\ Takes[c] \in 0 .. 8
    BY <1>3, AdbAssumption DEF Takes
  <2> QED
    BY <1>1, <2>1, <2>2 DEF IInv, TypeOK, Counters, OneAtATime, Announced, LinesTell, devices, StatusBits
<1> QED
  BY <1>2, <1>3

LEMMA WriteArgumentKeeps == ASSUME IInv, NEW m \in Arguments, WriteArgument(m) PROVE IInv'
<1>1. /\ "CMD_FULL" \notin cmd_status /\ state = "CMD_DATA"
      /\ cmd_status' = cmd_status \union {"CMD_FULL"}
      /\ UNCHANGED <<state, cmd_reg, recv, limit, cmd_flags, irq_line, devices, torn>>
  BY DEF WriteArgument
<1>2. cmd_data' \in [0 .. 7 -> Bytes] /\ sent' \in 0 .. limit /\ recv \in 0 .. sent'
      /\ sent' \in {sent, sent + 1}
  <2>1. CASE sent < limit
    <3>1. Argument(m) \in Bytes
      BY AdbAssumption DEF Argument, Bytes
    <3>2. cmd_data' = [cmd_data EXCEPT ![sent] = Argument(m)] /\ sent' = sent + 1
      BY <2>1 DEF WriteArgument
    <3> QED
      BY <2>1, <3>1, <3>2 DEF IInv, TypeOK
  <2>2. CASE ~(sent < limit)
    BY <2>2 DEF WriteArgument, IInv, TypeOK
  <2> QED
    BY <2>1, <2>2
<1>3. TypeOK'
  BY <1>1, <1>2 DEF IInv, TypeOK, devices, StatusBits
<1>4. Counters' /\ OneAtATime'
  BY <1>1, <1>2 DEF IInv, TypeOK, Counters, OneAtATime
<1>5. Announced' /\ LinesTell'
  BY <1>1, <1>2 DEF IInv, TypeOK, Counters, Announced, LinesTell
<1> QED
  BY <1>3, <1>4, <1>5 DEF IInv

LEMMA ReadNoticesKeeps == ASSUME IInv, ReadNotices PROVE IInv'
<1>1. /\ state = "READY" /\ cmd_status' = cmd_status \ {"CMD_FULL"} /\ cmd_flags' = {}
      /\ UNCHANGED <<cmd_reg, cmd_data, sent, recv, limit, devices, torn>>
  BY DEF ReadNotices
<1>2. CASE "RECV_READY" \in cmd_flags
  <2>1. state' = "RESULT_DATA" /\ irq_line' = irq_line \ {"KEYB_SRQ"}
    BY <1>2 DEF ReadNotices
  <2>2. TypeOK' /\ Counters' /\ OneAtATime'
    BY <1>1, <2>1 DEF IInv, TypeOK, Counters, OneAtATime, devices
  <2>3. sent = limit /\ limit \in Nat /\ (0 < sent => "DATA_FULL" \in cmd_status)
    BY <1>1, <1>2 DEF IInv, TypeOK, Counters, Announced
  <2>4. Announced' /\ LinesTell'
    BY <1>1, <2>1, <2>3 DEF IInv, Announced, LinesTell, Counters
  <2> QED
    BY <2>2, <2>4 DEF IInv
<1>3. CASE "RECV_READY" \notin cmd_flags
  <2>1. UNCHANGED state /\ irq_line' = irq_line \ {"KEYB_SRQ", "DATA"}
    BY <1>3 DEF ReadNotices
  <2> QED
    BY <1>1, <2>1 DEF IInv, TypeOK, Counters, OneAtATime, Announced, LinesTell, devices
<1> QED
  BY <1>2, <1>3

LEMMA ReadDataKeeps == ASSUME IInv, ReadData PROVE IInv'
<1> DEFINE next == IF sent > recv THEN recv + 1 ELSE recv
<1>1. state = "RESULT_DATA" /\ sent = limit /\ "RECV_READY" \notin cmd_flags
      /\ UNCHANGED <<cmd_reg, cmd_data, cmd_flags, devices>>
  BY DEF ReadData, IInv, Counters
<1>2. next \in recv .. sent /\ next \in 0 .. limit /\ limit \in 0 .. 8 /\ recv \in Nat /\ sent \in Nat
  BY <1>1 DEF IInv, TypeOK
<1>3. IF sent = next
      THEN cmd_status' = cmd_status \ {"DATA_FULL"} /\ irq_line' = irq_line \ {"DATA"}
      ELSE UNCHANGED <<cmd_status, irq_line>>
  BY DEF ReadData
<1>4. IF next >= limit THEN command_done ELSE recv' = next /\ UNCHANGED <<state, sent, limit, torn>>
  BY DEF ReadData
<1> HIDE DEF next
<1>5. CASE next >= limit
  <2>1. sent = next /\ state' = "READY" /\ sent' = 0 /\ recv' = 0 /\ limit' = 0 /\ torn' = FALSE
    BY <1>1, <1>2, <1>4, <1>5 DEF command_done
  <2>2. cmd_status' = cmd_status \ {"DATA_FULL"} /\ irq_line' = irq_line \ {"DATA"}
    BY <1>3, <2>1
  <2>3. torn' \in BOOLEAN
    BY <2>1, Zenon
  <2>4. TypeOK'
    <3>1. UNCHANGED <<autopoll, srq, keys>>
      BY <1>1 DEF devices
    <3> QED
      BY <1>1, <2>1, <2>2, <2>3, <3>1 DEF IInv, TypeOK
  <2> QED
    BY <1>1, <2>1, <2>2, <2>4 DEF IInv, Counters, OneAtATime, Announced, LinesTell
<1>6. CASE ~(next >= limit)
  <2>1. recv' = next /\ UNCHANGED <<state, sent, limit, torn, cmd_status, irq_line>>
    BY <1>1, <1>2, <1>3, <1>4, <1>6
  <2>2. TypeOK'
    BY <1>1, <1>2, <2>1 DEF IInv, TypeOK, devices
  <2>3. recv < sent
    BY <1>1, <1>2, <1>6
  <2> QED
    BY <1>1, <2>1, <2>2, <2>3 DEF IInv, Counters, OneAtATime, Announced, LinesTell, devices
<1> QED
  BY <1>5, <1>6

LEMMA WriteStatusKeeps == ASSUME IInv, NEW wanted \in BOOLEAN, WriteStatus(wanted) PROVE IInv'
<1>1. UNCHANGED <<protocol, cmd_flags, devices, torn>>
  BY DEF WriteStatus
<1>2. /\ cmd_status' \in {cmd_status \union {"DATA_IRQ"}, cmd_status \ {"DATA_IRQ"}}
      /\ irq_line' \in {irq_line, irq_line \ {"DATA"}}
      /\ "DATA_IRQ" \notin cmd_status' => irq_line' = irq_line \ {"DATA"}
  BY DEF WriteStatus
<1>3. TypeOK'
  <2>1. cmd_status' \subseteq StatusBits /\ irq_line' \subseteq Lines
    BY <1>2 DEF IInv, TypeOK, StatusBits
  <2> QED
    BY <1>1, <2>1 DEF IInv, TypeOK, protocol, devices
<1>4. (Counters /\ OneAtATime /\ Announced /\ LinesTell)'
  BY <1>1, <1>2 DEF IInv, TypeOK, Counters, OneAtATime, Announced, LinesTell, protocol, devices
<1> QED
  BY <1>3, <1>4 DEF IInv

LEMMA ResetKeeps == ASSUME IInv, Reset PROVE IInv'
<1>0. << >> \in Seq({"key", "desk"}) /\ Len(<< >>) = 0 /\ 0 <= KEYB_BUFFER_LIMIT
  BY AdbAssumption
<1>1. /\ cmd_status' = {} /\ cmd_flags' = {} /\ irq_line' = {}
      /\ autopoll' \in BOOLEAN /\ srq' \in BOOLEAN
      /\ keys' \in Seq({"key", "desk"}) /\ Len(keys') <= KEYB_BUFFER_LIMIT
      /\ UNCHANGED protocol
  BY <1>0, Zenon DEF Reset
<1>2. torn' \in BOOLEAN /\ (state # "READY" <=> torn')
  BY DEF Reset
<1> QED
  BY <1>1, <1>2 DEF IInv, TypeOK, Counters, OneAtATime, Announced, LinesTell, protocol
-----------------------------------------------------------------------------
(* The microcontroller's own steps.                                        *)
LEMMA RestKeeps == ASSUME IInv, NEW poll \in BOOLEAN, Rest(poll) PROVE IInv'
<1> DEFINE r == After(poll)
<1>1. r \in Work /\ Quiet(Now, r)
  BY AfterQuiet DEF IInv
<1>2. /\ state # "CMD_DATA" /\ SyncEnds(r)
      /\ UNCHANGED <<state, cmd_data, sent, recv, limit, torn>>
  BY DEF Rest
<1> HIDE DEF r
<1>3. /\ cmd_status' = cmd_status /\ cmd_flags \subseteq cmd_flags'
      /\ "RECV_READY" \in cmd_flags' => "RECV_READY" \in cmd_flags
      /\ "DATA" \in irq_line' => "DATA" \in irq_line \/ "DESK_MGR" \in cmd_flags'
      /\ "KEYB_SRQ" \in irq_line' => "SRQ" \in cmd_flags'
  BY <1>1, <1>2, Ends DEF Quiet, Now, Up
<1>4. TypeOK'
  BY <1>1, <1>2, Ends DEF IInv, TypeOK
<1> QED
  BY <1>2, <1>3, <1>4 DEF IInv, Counters, OneAtATime, Announced, LinesTell

LEMMA ReceiveKeeps == ASSUME IInv, NEW poll \in BOOLEAN, Receive(poll) PROVE IInv'
<1> DEFINE r == After(poll)
           s == Emptied(r)
<1>1. r \in Work /\ Quiet(Now, r)
  BY AfterQuiet DEF IInv
<1>2. /\ s \in Work /\ s.flags = r.flags /\ Up(s) = Up(r)
      /\ s.status = IF sent = Received THEN r.status \ {"CMD_FULL"} ELSE r.status
  BY <1>1, EmptiedWork
<1>3. /\ state = "CMD_DATA" /\ ~Due /\ recv' = Received
      /\ SyncEnds(s)
      /\ UNCHANGED <<state, cmd_data, sent, limit, torn>>
  BY DEF Receive
<1> HIDE DEF r, s
<1>4. /\ cmd_status' = IF sent = Received THEN cmd_status \ {"CMD_FULL"} ELSE cmd_status
      /\ cmd_flags \subseteq cmd_flags'
      /\ "RECV_READY" \in cmd_flags' => "RECV_READY" \in cmd_flags
      /\ "DATA" \in irq_line' => "DATA" \in irq_line \/ "DESK_MGR" \in cmd_flags'
      /\ "KEYB_SRQ" \in irq_line' => "SRQ" \in cmd_flags'
      /\ cmd_reg' = cmd_reg
  BY <1>1, <1>2, <1>3, Ends DEF Quiet, Now, Up
<1>5. Received \in recv .. sent /\ Received < limit /\ recv \in 0 .. sent /\ sent \in 0 .. limit
      /\ limit \in 0 .. 8 /\ (sent \in {recv, recv + 1} => sent = Received)
  BY <1>3 DEF IInv, TypeOK, Due, Received
<1>6. TypeOK'
  BY <1>2, <1>3, <1>5, Ends DEF IInv, TypeOK
<1>7. OneAtATime'
  BY <1>3, <1>4, <1>5 DEF IInv, OneAtATime
<1> QED
  BY <1>3, <1>4, <1>6, <1>7 DEF IInv, Counters, Announced, LinesTell

LEMMA AnsweredWork ==
    ASSUME NEW r \in Work, NEW c
    PROVE  /\ Answered(r, c) \in Work
           /\ r.status \subseteq Answered(r, c).status /\ r.flags \subseteq Answered(r, c).flags
           /\ Length(c) # 0 => "DATA_FULL" \in Answered(r, c).status
           /\ "RECV_READY" \in Answered(r, c).flags => c \in OfDevice \/ "RECV_READY" \in r.flags
           /\ c \in OfDevice => "RECV_READY" \in Answered(r, c).flags
           /\ Up(Answered(r, c)) => Up(r) \/ "DATA_FULL" \in Answered(r, c).status
<1> DEFINE told == IF c \in OfDevice THEN [r EXCEPT !.flags = @ \union {"RECV_READY"}] ELSE r
           filled == [told EXCEPT !.status = @ \union {"DATA_FULL"}]
<1>1. /\ told \in Work /\ told.status = r.status /\ r.flags \subseteq told.flags /\ Up(told) = Up(r)
      /\ "RECV_READY" \in told.flags => c \in OfDevice \/ "RECV_READY" \in r.flags
      /\ c \in OfDevice => "RECV_READY" \in told.flags
  BY DEF Work, FlagBits, Up
<1> HIDE DEF told
<1>2. filled \in Work /\ filled.status = r.status \union {"DATA_FULL"} /\ filled.flags = told.flags
  BY <1>1 DEF Work, StatusBits
<1> HIDE DEF filled
<1>3. /\ irq_dispatch(filled, "DATA") \in Work
      /\ irq_dispatch(filled, "DATA").status = filled.status
      /\ irq_dispatch(filled, "DATA").flags = filled.flags
  BY <1>2 DEF irq_dispatch, Work, Lines
<1>4. Answered(r, c) = IF Length(c) = 0 THEN told ELSE irq_dispatch(filled, "DATA")
  BY DEF Answered, told, filled
<1>5. CASE Length(c) = 0
  BY <1>1, <1>4, <1>5
<1>6. CASE Length(c) # 0
  BY <1>1, <1>2, <1>3, <1>4, <1>6
<1> QED
  BY <1>5, <1>6

LEMMA LengthIs ==
    ASSUME NEW c
    PROVE  /\ Length(c) \in 0 .. 2
           /\ c \notin Direct \union OfDevice => Length(c) = 0
           /\ c \in Direct => Length(c) = 1
BY DEF Length, Direct, OfDevice

LEMMA ReplyIs ==
    ASSUME NEW c \in DOMAIN Takes
    PROVE  /\ Reply(c) = [n \in 1 .. Length(c) |-> [of |-> c, n |-> n, means |-> {}]]
           /\ \A n \in 1 .. Length(c) : Reply(c)[n] \in Bytes
<1>1. \A n \in 1 .. Length(c) : n \in {1, 2}
  BY LengthIs
<1>2. Reply(c) = [n \in 1 .. Length(c) |-> [of |-> c, n |-> n, means |-> {}]]
  BY DEF Reply
<1>3. \A n \in {1, 2} : [of |-> c, n |-> n, means |-> {}] \in Bytes
  BY DEF Bytes
<1> QED
  BY <1>1, <1>2, <1>3

(* What a command leaves behind.                                           *)
LEMMA CommandEnds ==
    ASSUME NEW c \in DOMAIN Takes, glu_command(c), TypeOK
    PROVE  /\ cmd_data' \in [0 .. 7 -> Bytes]
           /\ state' = IF c \in Direct THEN "RESULT_DATA" ELSE "READY"
           /\ recv' = 0 /\ sent' = Length(c) /\ limit' = Length(c)
           /\ torn' \in BOOLEAN /\ (c \notin Direct => ~torn')
           /\ \A n \in 1 .. Length(c) : cmd_data'[n - 1] = Reply(c)[n]
<1>1. CASE c \notin Direct \union OfDevice
  <2>1. /\ state' = "READY" /\ sent' = 0 /\ recv' = 0 /\ limit' = 0
        /\ UNCHANGED cmd_data
    BY <1>1 DEF glu_command, command_done
  <2>2. torn' = FALSE
    BY <1>1, Zenon DEF glu_command, command_done
  <2>3. torn' \in BOOLEAN /\ ~torn'
    BY <2>2, Zenon
  <2> QED
    BY <1>1, <2>1, <2>3, LengthIs DEF TypeOK
<1>2. CASE c \in Direct \union OfDevice
  <2>1. /\ state' = IF c \in Direct THEN "RESULT_DATA" ELSE "READY"
        /\ recv' = 0 /\ limit' = Length(c) /\ sent' = Length(c)
        /\ cmd_data' = [i \in 0 .. 7 |-> IF i < Length(c) THEN Reply(c)[i + 1] ELSE cmd_data[i]]
    BY <1>2 DEF glu_command
  <2>2. torn' \in BOOLEAN /\ (c \notin Direct => ~torn')
    BY <1>2 DEF glu_command
  <2>3. \A i \in 0 .. 7 : i < Length(c) => i + 1 \in 1 .. Length(c)
    BY LengthIs
  <2>4. cmd_data' \in [0 .. 7 -> Bytes]
    BY <2>1, <2>3, ReplyIs DEF TypeOK
  <2>5. \A n \in 1 .. Length(c) : n - 1 \in 0 .. 7 /\ n - 1 < Length(c) /\ (n - 1) + 1 = n
    BY LengthIs
  <2>6. \A n \in 1 .. Length(c) : cmd_data'[n - 1] = Reply(c)[n]
    BY <2>1, <2>5
  <2> QED
    BY <2>1, <2>2, <2>4, <2>6
<1> QED
  BY <1>1, <1>2

(* How the signals end after a command.                                    *)
LEMMA CommandSignals ==
    ASSUME IInv, NEW poll \in BOOLEAN, Execute(poll)
    PROVE  /\ state = "CMD_DATA" /\ cmd_reg \in DOMAIN Takes /\ glu_command(cmd_reg)
           /\ cmd_status' \subseteq StatusBits /\ cmd_flags' \subseteq FlagBits /\ irq_line' \subseteq Lines
           /\ autopoll' \in BOOLEAN /\ srq' \in BOOLEAN
           /\ keys' \in Seq({"key", "desk"}) /\ Len(keys') <= KEYB_BUFFER_LIMIT
           /\ cmd_reg' = cmd_reg
           /\ Length(cmd_reg) # 0 => "DATA_FULL" \in cmd_status'
           /\ "RECV_READY" \in cmd_flags' <=> cmd_reg \in OfDevice
           /\ "DATA" \in irq_line' => "DATA_FULL" \in cmd_status' \/ "DESK_MGR" \in cmd_flags'
           /\ "KEYB_SRQ" \in irq_line' => "SRQ" \in cmd_flags'
<1> DEFINE c == cmd_reg
           r == After(poll)
           e == Emptied(r)
           f == Effect(e, c)
           a == Answered(f, c)
<1>1. r \in Work /\ Quiet(Now, r)
  BY AfterQuiet DEF IInv
<1>2. /\ e \in Work /\ e.flags = r.flags /\ Up(e) = Up(r)
      /\ e.status = IF sent = Received THEN r.status \ {"CMD_FULL"} ELSE r.status
  BY <1>1, EmptiedWork
<1>3. state = "CMD_DATA" /\ SyncEnds(a) /\ glu_command(c)
  BY DEF Execute
<1> HIDE DEF r, e
<1>4. f \in Work /\ Quiet(e, f)
  BY <1>2, EffectQuiet DEF Quiet
<1> HIDE DEF f
<1>5. /\ a \in Work /\ f.status \subseteq a.status /\ f.flags \subseteq a.flags
      /\ Length(c) # 0 => "DATA_FULL" \in a.status
      /\ "RECV_READY" \in a.flags => c \in OfDevice \/ "RECV_READY" \in f.flags
      /\ c \in OfDevice => "RECV_READY" \in a.flags
      /\ Up(a) => Up(f) \/ "DATA_FULL" \in a.status
  BY <1>4, AnsweredWork
<1> HIDE DEF a
<1>6. "RECV_READY" \notin f.flags
  <2>1. "RECV_READY" \notin cmd_flags
    BY <1>3 DEF IInv, Counters
  <2> QED
    BY <2>1, <1>1, <1>2, <1>4 DEF Quiet, Now
<1>7. Up(f) => "DATA_FULL" \in f.status \/ "DESK_MGR" \in f.flags
  <2>1. Up(Now) => "DATA_FULL" \in cmd_status \/ "DESK_MGR" \in cmd_flags
    BY <1>3 DEF IInv, LinesTell, Now, Up
  <2>2. f.status = e.status /\ ("DATA_FULL" \in cmd_status => "DATA_FULL" \in e.status)
    BY <1>1, <1>2, <1>4 DEF Quiet, Now
  <2>3. cmd_flags \subseteq f.flags /\ r.flags \subseteq f.flags
    BY <1>1, <1>2, <1>4 DEF Quiet, Now
  <2> QED
    BY <2>1, <2>2, <2>3, <1>1, <1>2, <1>4 DEF Quiet
<1>8. c \in DOMAIN Takes
  BY <1>3 DEF IInv, Counters
<1> QED
  BY <1>3, <1>5, <1>6, <1>7, <1>8, Ends

LEMMA ExecuteKeeps == ASSUME IInv, NEW poll \in BOOLEAN, Execute(poll) PROVE IInv'
<1>1. TypeOK /\ cmd_reg \in DOMAIN Takes /\ glu_command(cmd_reg)
  BY CommandSignals DEF IInv
<1>2. /\ cmd_data' \in [0 .. 7 -> Bytes]
      /\ state' = IF cmd_reg \in Direct THEN "RESULT_DATA" ELSE "READY"
      /\ recv' = 0 /\ sent' = Length(cmd_reg) /\ limit' = Length(cmd_reg)
      /\ torn' \in BOOLEAN /\ (cmd_reg \notin Direct => ~torn')
  BY <1>1, CommandEnds
<1>3. Length(cmd_reg) \in 0 .. 2 /\ (cmd_reg \in Direct => cmd_reg \notin OfDevice)
  BY LengthIs DEF Direct, OfDevice
<1>4. TypeOK'
  BY <1>1, <1>2, <1>3, CommandSignals DEF TypeOK
<1> QED
  BY <1>2, <1>3, <1>4, CommandSignals DEF IInv, Counters, OneAtATime, Announced, LinesTell

LEMMA StaysWell == IInv /\ [Next]_vars => IInv'
<1> SUFFICES ASSUME IInv, [Next]_vars PROVE IInv'
  OBVIOUS
<1>1. ASSUME NEW e \in {"key", "desk"}, Key(e) PROVE IInv'
  BY <1>1, KeyKeeps
<1>2. ASSUME NEW c \in Commands, WriteCommand(c) PROVE IInv'
  BY <1>2, WriteCommandKeeps
<1>3. ASSUME NEW m \in Arguments, WriteArgument(m) PROVE IInv'
  BY <1>3, WriteArgumentKeeps
<1>4. CASE UNCHANGED vars
  BY <1>4 DEF vars, protocol, signals, devices, IInv, TypeOK, Counters, OneAtATime, Announced, LinesTell
<1>5. ASSUME NEW m \in Arguments, WriteWhileAnswering(m) PROVE IInv'
  BY <1>4, <1>5 DEF WriteWhileAnswering
<1>6. CASE ReadNotices
  BY <1>6, ReadNoticesKeeps
<1>7. CASE ReadData
  BY <1>7, ReadDataKeeps
<1>8. ASSUME NEW wanted \in BOOLEAN, WriteStatus(wanted) PROVE IInv'
  BY <1>8, WriteStatusKeeps
<1>9. CASE Sync
  BY <1>9, RestKeeps, ReceiveKeeps, ExecuteKeeps DEF Sync
<1>10. CASE Reset
  BY <1>10, ResetKeeps
<1> QED
  BY <1>1, <1>2, <1>3, <1>4, <1>5, <1>6, <1>7, <1>8, <1>9, <1>10 DEF Next

(* The counters fit the command or answer at hand in every state, a byte   *)
(* under way is marked by CMD_FULL, and an answer by DATA_FULL.            *)
THEOREM Invariant == Spec => []IInv
BY StartsWell, StaysWell, PTL DEF Spec

(* Neither the counters nor the keyboard's queue leave their buffers.      *)
THEOREM TypeCorrect == Spec => []TypeOK
<1>1. IInv => TypeOK
  BY DEF IInv
<1> QED
  BY <1>1, Invariant, PTL

(* add_data's assertion holds for every guest that waits for CMD_FULL,     *)
(* whatever commands it gives.                                             *)
THEOREM ArgumentsFit == Spec => []NeverOverruns
<1>1. IInv => NeverOverruns
  BY DEF IInv, OneAtATime, NeverOverruns
<1> QED
  BY <1>1, Invariant, PTL

(* C027 and the lines tell of every answer that waits, and of nothing that *)
(* does not, for all commands, modes and events of the keyboard.           *)
THEOREM StatusIsTrue == Spec => []StatusTells
<1>1. ASSUME IInv, answer # << >>, ~torn PROVE Shown
  <2>1. CASE "RECV_READY" \in cmd_flags
    BY <2>1 DEF Shown
  <2>2. CASE "RECV_READY" \notin cmd_flags
    <3>1. state = "RESULT_DATA" /\ answer = [n \in 1 .. sent - recv |-> cmd_data[recv + n - 1]]
      BY <1>1, <2>2 DEF answer
    <3>2. recv \in Nat /\ sent \in Nat
      BY <1>1 DEF IInv, TypeOK
    <3>3. recv < sent
      BY <1>1, <3>1, <3>2
    <3> QED
      BY <1>1, <3>1, <3>3 DEF IInv, Announced, Shown
  <2> QED
    BY <2>1, <2>2
<1>2. IInv => StatusTells
  BY <1>1 DEF StatusTells, IInv, LinesTell, Shown
<1> QED
  BY <1>2, Invariant, PTL
-----------------------------------------------------------------------------
(* The refinement.  Only WriteCommand asks, only a command that ends       *)
(* serves, and the notice that is read begins the answer.                  *)
LEMMA NothingToRead ==
    ASSUME state # "RESULT_DATA", "RECV_READY" \notin cmd_flags
    PROVE  answer = << >> /\ begun = FALSE
BY DEF answer, begun

LEMMA SameView ==
    ASSUME UNCHANGED <<state, cmd_reg, cmd_data, sent, recv>>,
           "RECV_READY" \in cmd_flags' <=> "RECV_READY" \in cmd_flags
    PROVE  UNCHANGED Answers!vars
BY DEF Answers!vars, request, answer, begun

LEMMA CommandAsks ==
    ASSUME IInv, NEW c \in Commands, WriteCommand(c)
    PROVE  Answers!Next
<1>1. /\ state = "READY" /\ cmd_reg' = c /\ cmd_flags' = cmd_flags \ {"RECV_READY"}
      /\ "RECV_READY" \notin cmd_flags'
  BY DEF WriteCommand, start_cmd
<1>2. request = None /\ begun = FALSE
  BY <1>1 DEF request, begun
<1>3. CASE c \in Ignored
  <2>1. state' = "READY"
    BY <1>1, <1>3 DEF WriteCommand, start_cmd
  <2>2. request' = None /\ begun' = FALSE /\ answer' = << >>
    BY <1>1, <2>1 DEF request, begun, answer
  <2> QED
    BY <1>2, <2>2 DEF Answers!Next, Answers!Forget
<1>4. CASE c \notin Ignored
  <2>1. state' = "CMD_DATA"
    BY <1>4 DEF WriteCommand, start_cmd, expect_data
  <2>2. request' = c /\ begun' = FALSE /\ answer' = << >>
    BY <1>1, <2>1 DEF request, begun, answer
  <2> QED
    BY <1>2, <1>4, <2>2 DEF Answers!Next, Answers!Ask
<1> QED
  BY <1>3, <1>4

LEMMA ArgumentStutters ==
    ASSUME IInv, NEW m \in Arguments, WriteArgument(m)
    PROVE  UNCHANGED Answers!vars
<1>1. state = "CMD_DATA" /\ "RECV_READY" \notin cmd_flags
      /\ UNCHANGED <<state, cmd_reg, cmd_flags>>
  BY DEF WriteArgument, IInv, Counters
<1> QED
  BY <1>1 DEF Answers!vars, request, answer, begun

LEMMA NoticesBegin ==
    ASSUME IInv, ReadNotices
    PROVE  [Answers!Next]_(Answers!vars)
<1>1. /\ state = "READY" /\ cmd_flags' = {}
      /\ UNCHANGED <<cmd_reg, cmd_data, sent, recv>>
  BY DEF ReadNotices
<1>2. CASE "RECV_READY" \notin cmd_flags
  <2>1. UNCHANGED state
    BY <1>2 DEF ReadNotices
  <2> QED
    BY <1>1, <1>2, <2>1, SameView
<1>3. CASE "RECV_READY" \in cmd_flags
  <2>1. state' = "RESULT_DATA"
    BY <1>3 DEF ReadNotices
  <2>2. UNCHANGED <<request, answer>>
    BY <1>1, <1>3, <2>1 DEF request, answer
  <2>3. recv \in Nat /\ sent \in Nat /\ recv <= sent
    BY DEF IInv, TypeOK
  <2>4. begun = FALSE /\ (begun' <=> recv < sent) /\ begun' \in BOOLEAN
    BY <1>1, <2>1 DEF begun
  <2>5. answer = [n \in 1 .. sent - recv |-> cmd_data[recv + n - 1]]
    BY <1>3 DEF answer
  <2>6. CASE recv < sent
    <3>1. 1 \in DOMAIN answer
      BY <2>3, <2>5, <2>6
    <3>2. answer # << >>
      BY <3>1
    <3>3. begun' = TRUE
      BY <2>4, <2>6, Zenon
    <3> QED
      BY <2>2, <3>2, <3>3 DEF Answers!Next, Answers!Begin
  <2>7. CASE ~(recv < sent)
    <3>1. begun' = begun
      BY <2>4, <2>7, Zenon
    <3> QED
      BY <2>2, <3>1 DEF Answers!vars
  <2> QED
    BY <2>6, <2>7
<1> QED
  BY <1>2, <1>3

LEMMA TailShifts ==
    ASSUME NEW S, NEW s \in Seq(S), s # << >>
    PROVE  Tail(s) = [n \in 1 .. Len(s) - 1 |-> s[n + 1]]
<1> DEFINE t == [n \in 1 .. Len(s) - 1 |-> s[n + 1]]
<1>1. Len(s) \in Nat /\ Len(s) # 0 /\ \A n \in 1 .. Len(s) : s[n] \in S
  BY LenProperties, EmptySeq
<1>2. Len(s) - 1 \in Nat /\ \A n \in 1 .. Len(s) - 1 : n + 1 \in 1 .. Len(s)
  BY <1>1
<1>3. \A n \in 1 .. Len(s) - 1 : s[n + 1] \in S
  BY <1>1, <1>2
<1>4. t \in Seq(S)
  BY <1>2, <1>3, IsASeq
<1>5. Len(t) = Len(s) - 1
  BY <1>2, <1>4, LenProperties
<1>6. Tail(s) \in Seq(S) /\ Len(Tail(s)) = Len(s) - 1
      /\ \A n \in 1 .. Len(Tail(s)) : Tail(s)[n] = s[n + 1]
  BY HeadTailProperties
<1>7. \A n \in 1 .. Len(t) : t[n] = s[n + 1]
  BY <1>5
<1>8. t = Tail(s)
  <2> HIDE DEF t
  <2> QED
    BY <1>4, <1>5, <1>6, <1>7, SeqEqual
<1> QED
  BY <1>8

LEMMA DataTakes ==
    ASSUME IInv, ReadData
    PROVE  [Answers!Next]_(Answers!vars)
<1> DEFINE next == IF sent > recv THEN recv + 1 ELSE recv
<1>1. /\ state = "RESULT_DATA" /\ sent = limit /\ "RECV_READY" \notin cmd_flags
      /\ UNCHANGED <<cmd_reg, cmd_data, cmd_flags>>
  BY DEF ReadData, IInv, Counters
<1>2. /\ recv \in 0 .. sent /\ sent \in 0 .. 8
      /\ cmd_data \in [0 .. 7 -> Bytes]
  BY DEF IInv, TypeOK
<1>3. IF next >= limit THEN command_done ELSE recv' = next /\ UNCHANGED <<state, sent, limit, torn>>
  BY DEF ReadData
<1>4. request = None /\ request' = None
  BY <1>1, <1>3 DEF request, command_done
<1>5. answer = [n \in 1 .. sent - recv |-> cmd_data[recv + n - 1]]
  BY <1>1 DEF answer
<1>8. (begun <=> recv < sent) /\ begun \in BOOLEAN
  BY <1>1 DEF begun
<1>6. CASE recv < sent
  <2>1. next = recv + 1
    BY <1>2, <1>6
  <2>2. \A n \in 1 .. sent - recv : cmd_data[recv + n - 1] \in Bytes
    BY <1>2
  <2>3. answer \in Seq(Bytes) /\ Len(answer) = sent - recv /\ answer # << >>
    BY <1>2, <1>5, <1>6, <2>2
  <2>4. Tail(answer) = [n \in 1 .. sent - (recv + 1) |-> cmd_data[(recv + 1) + n - 1]]
    <3>1. Tail(answer) = [n \in 1 .. Len(answer) - 1 |-> answer[n + 1]]
      BY <2>3, TailShifts
    <3>2. \A n \in 1 .. sent - (recv + 1) : answer[n + 1] = cmd_data[(recv + 1) + n - 1]
      <4> SUFFICES ASSUME NEW n \in 1 .. sent - (recv + 1)
                   PROVE  answer[n + 1] = cmd_data[(recv + 1) + n - 1]
        OBVIOUS
      <4>1. n + 1 \in 1 .. sent - recv /\ recv + (n + 1) - 1 = (recv + 1) + n - 1
        BY <1>2
      <4> QED
        BY <4>1, <1>5
    <3>3. Len(answer) - 1 = sent - (recv + 1)
      BY <1>2, <2>3
    <3> QED
      BY <3>1, <3>2, <3>3
  <2>5. begun = TRUE
    BY <1>6, <1>8, Zenon
  <2>6. CASE recv + 1 < sent
    <3>1. recv' = recv + 1 /\ UNCHANGED <<state, sent>>
      BY <1>1, <1>2, <1>3, <2>1, <2>6
    <3>2. answer' = Tail(answer)
      <4>1. state' = "RESULT_DATA" /\ sent' = sent /\ recv' = recv + 1 /\ cmd_data' = cmd_data
        BY <1>1, <3>1
      <4>2. answer' = [n \in 1 .. sent' - recv' |-> cmd_data'[recv' + n - 1]]
        BY <4>1 DEF answer
      <4> QED
        BY <2>4, <4>1, <4>2, Zenon
    <3>3. begun' = TRUE
      <4>1. (begun' <=> recv + 1 < sent) /\ begun' \in BOOLEAN
        BY <1>1, <3>1 DEF begun
      <4> QED
        BY <2>6, <4>1, Zenon
    <3>4. Tail(answer) # << >>
      <4>1. Len(Tail(answer)) = Len(answer) - 1
        BY <2>3, HeadTailProperties
      <4>2. Len(Tail(answer)) > 0
        BY <1>2, <2>3, <2>6, <4>1
      <4> QED
        BY <4>2
    <3>5. begun' = (Tail(answer) # << >>)
      BY <3>3, <3>4, Zenon
    <3> QED
      BY <1>4, <2>5, <3>2, <3>5 DEF Answers!Next, Answers!Take
  <2>7. CASE ~(recv + 1 < sent)
    <3>1. command_done
      BY <1>1, <1>2, <1>3, <2>1, <2>7
    <3>2. state' = "READY" /\ "RECV_READY" \notin cmd_flags'
      BY <1>1, <3>1 DEF command_done
    <3>3. answer' = << >> /\ begun' = FALSE
      BY <3>2 DEF answer, begun
    <3>4. Tail(answer) = << >>
      BY <1>2, <2>4, <2>7
    <3> QED
      BY <1>4, <2>5, <3>3, <3>4 DEF Answers!Next, Answers!Take
  <2> QED
    BY <2>6, <2>7
<1>7. CASE ~(recv < sent)
  <2>1. next = recv /\ recv = sent
    BY <1>2, <1>7
  <2>2. command_done
    BY <1>1, <1>2, <1>3, <2>1
  <2>3. state' = "READY" /\ "RECV_READY" \notin cmd_flags'
    BY <1>1, <2>2 DEF command_done
  <2>4. answer' = << >> /\ begun' = FALSE
    BY <2>3 DEF answer, begun
  <2>5. answer = << >>
    <3>1. 1 .. sent - recv = {}
      BY <1>2, <2>1
    <3> QED
      BY <1>5, <3>1
  <2>6. begun = FALSE
    BY <1>7, <1>8, Zenon
  <2> QED
    BY <1>4, <2>4, <2>5, <2>6 DEF Answers!vars
<1> QED
  BY <1>2, <1>6, <1>7

LEMMA RestStutters ==
    ASSUME IInv, NEW poll \in BOOLEAN, Rest(poll)
    PROVE  UNCHANGED Answers!vars
<1>1. After(poll) \in Work /\ Quiet(Now, After(poll)) /\ SyncEnds(After(poll))
      /\ UNCHANGED <<state, cmd_data, sent, recv>>
  BY AfterQuiet DEF IInv, Rest
<1>2. "RECV_READY" \in cmd_flags' <=> "RECV_READY" \in cmd_flags
  BY <1>1, Ends DEF Quiet, Now
<1>3. cmd_reg' = cmd_reg
  BY <1>1 DEF SyncEnds
<1> QED
  BY <1>1, <1>2, <1>3, SameView

LEMMA ReceiveStutters ==
    ASSUME IInv, NEW poll \in BOOLEAN, Receive(poll)
    PROVE  UNCHANGED Answers!vars
<1>1. /\ After(poll) \in Work /\ Quiet(Now, After(poll))
      /\ state = "CMD_DATA" /\ UNCHANGED state /\ SyncEnds(Emptied(After(poll)))
  BY AfterQuiet DEF IInv, Receive
<1>2. Emptied(After(poll)) \in Work /\ Emptied(After(poll)).flags = After(poll).flags
  BY <1>1, EmptiedWork
<1>3. "RECV_READY" \notin cmd_flags
  BY <1>1 DEF IInv, Counters
<1>4. "RECV_READY" \notin cmd_flags' /\ cmd_reg' = cmd_reg
  BY <1>1, <1>2, <1>3, Ends DEF Quiet, Now
<1> QED
  BY <1>1, <1>3, <1>4 DEF Answers!vars, request, answer, begun

LEMMA CommandServes ==
    ASSUME IInv, NEW poll \in BOOLEAN, Execute(poll)
    PROVE  Answers!Next
<1> DEFINE c == cmd_reg
<1>1. /\ state = "CMD_DATA" /\ c \in DOMAIN Takes /\ glu_command(c)
      /\ cmd_reg' = c /\ ("RECV_READY" \in cmd_flags' <=> c \in OfDevice)
  BY CommandSignals
<1>2. /\ state' = IF c \in Direct THEN "RESULT_DATA" ELSE "READY"
      /\ recv' = 0 /\ sent' = Length(c)
      /\ \A n \in 1 .. Length(c) : cmd_data'[n - 1] = Reply(c)[n]
  BY <1>1, CommandEnds DEF IInv
<1>3. request = c /\ c # None /\ request' = None
  BY <1>1, <1>2, AdbAssumption DEF request
<1>4. answer' = Reply(c)
  <2>1. Length(c) \in 0 .. 2 /\ Reply(c) = [n \in 1 .. Length(c) |-> Reply(c)[n]]
    BY <1>1, LengthIs, ReplyIs
  <2>2. CASE c \in Direct \union OfDevice
    <3>1. answer' = [n \in 1 .. Length(c) - 0 |-> cmd_data'[0 + n - 1]]
      BY <1>1, <1>2, <2>2 DEF answer
    <3>2. answer' = [n \in 1 .. Length(c) |-> cmd_data'[n - 1]]
      BY <2>1, <3>1
    <3> QED
      BY <1>2, <2>1, <3>2
  <2>3. CASE c \notin Direct \union OfDevice
    <3>1. answer' = << >>
      BY <1>1, <1>2, <2>3 DEF answer
    <3>2. Reply(c) = << >>
      BY <1>1, <2>3, LengthIs, ReplyIs
    <3> QED
      BY <3>1, <3>2
  <2> QED
    BY <2>2, <2>3
<1>5. begun' = FALSE \/ (begun' = TRUE /\ answer' # << >>)
  <2>1. CASE c \in Direct
    <3>1. Length(c) = 1
      BY <2>1, LengthIs
    <3>2. state' = "RESULT_DATA" /\ recv' < sent'
      BY <1>2, <2>1, <3>1
    <3>3. begun' = TRUE
      BY <3>2, Zenon DEF begun
    <3>4. 1 \in DOMAIN Reply(c)
      BY <1>1, <3>1, ReplyIs
    <3>5. answer' # << >>
      BY <1>4, <3>4
    <3> QED
      BY <3>3, <3>5, Zenon
  <2>2. CASE c \notin Direct
    BY <1>2, <2>2 DEF begun
  <2> QED
    BY <2>1, <2>2
<1>6. begun' \in {FALSE, answer' # << >>}
  BY <1>5, Zenon
<1> QED
  BY <1>3, <1>4, <1>6 DEF Answers!Next, Answers!Serve

LEMMA ResetForgets ==
    ASSUME IInv, Reset
    PROVE  [Answers!Next]_(Answers!vars)
<1>1. cmd_flags' = {} /\ UNCHANGED <<state, cmd_reg, cmd_data, sent, recv>>
  BY DEF Reset, protocol
<1>2. CASE "RECV_READY" \notin cmd_flags
  BY <1>1, <1>2, SameView
<1>3. CASE "RECV_READY" \in cmd_flags
  <2>1. state = "READY"
    BY <1>3 DEF IInv, Counters
  <2>2. request' = request /\ begun = FALSE /\ begun' = FALSE /\ answer' = << >>
    BY <1>1, <2>1 DEF request, begun, answer
  <2> QED
    BY <2>2 DEF Answers!Next, Answers!Forget
<1> QED
  BY <1>2, <1>3

LEMMA StepsAreAnswers == IInv /\ [Next]_vars => [Answers!Next]_(Answers!vars)
<1> SUFFICES ASSUME IInv, [Next]_vars PROVE [Answers!Next]_(Answers!vars)
  OBVIOUS
<1>1. ASSUME NEW e \in {"key", "desk"}, Key(e) PROVE UNCHANGED Answers!vars
  BY <1>1, SameView DEF Key, protocol, signals
<1>2. ASSUME NEW c \in Commands, WriteCommand(c) PROVE Answers!Next
  BY <1>2, CommandAsks
<1>3. ASSUME NEW m \in Arguments, WriteArgument(m) PROVE UNCHANGED Answers!vars
  BY <1>3, ArgumentStutters
<1>4. CASE UNCHANGED vars
  BY <1>4, SameView DEF vars, protocol, signals
<1>5. ASSUME NEW m \in Arguments, WriteWhileAnswering(m) PROVE UNCHANGED Answers!vars
  BY <1>5, SameView DEF WriteWhileAnswering, vars, protocol, signals
<1>6. CASE ReadNotices
  BY <1>6, NoticesBegin
<1>7. CASE ReadData
  BY <1>7, DataTakes
<1>8. ASSUME NEW wanted \in BOOLEAN, WriteStatus(wanted) PROVE UNCHANGED Answers!vars
  BY <1>8, SameView DEF WriteStatus, protocol
<1>9. CASE Sync
  BY <1>9, RestStutters, ReceiveStutters, CommandServes DEF Sync
<1>10. CASE Reset
  BY <1>10, ResetForgets
<1> QED
  BY <1>1, <1>2, <1>3, <1>4, <1>5, <1>6, <1>7, <1>8, <1>9, <1>10 DEF Next

LEMMA StartsSilent == Init => Answers!Init
BY DEF Init, Answers!Init, request, answer, begun

(* The microcontroller serves each request once, and the guest reads the   *)
(* bytes of the answer in order and as a whole, although arguments and     *)
(* answers share one buffer and one pair of counters and notices of other  *)
(* origin are read at the same address.                                    *)
THEOREM GluImplementsAnswers == Spec => ImplementsAnswers
BY Invariant, StartsSilent, StepsAreAnswers, PTL DEF Spec, ImplementsAnswers, Answers!Spec

-----------------------------------------------------------------------------
(* The SmartPort bus.  BusIInv says what the guest and the unit know of    *)
(* each other, whichever of them has just moved.                           *)
Write(r) == r.op = "WRITEBLOCK"

(* The guest alone: where it can be at what stage of a request.            *)
GuestInv ==
    /\ guest.phase = "off" => guest.stage = "idle"
    /\ guest.stage = "idle" => guest.phase \in {"off", "low"}
    /\ guest.stage = "idle" <=> guest.request = Nil
    /\ guest.phase \in {"sending", "sent"} => guest.stage \in {"command", "data"}
    /\ guest.phase = "reading" => guest.stage = "answer"
    /\ guest.phase # "reading" => guest.heard = 0
    /\ guest.phase # "sending" => guest.next = 1
    /\ guest.stage = "data" => Write(guest.request)

(* The unit alone: a command survives only from its execution to its data, *)
(* and ACK is high where the unit waits for the guest.                     *)
UnitInv ==
    /\ unit.packet_state = "READY" => unit.command_id = Nil
    /\ unit.packet_state \in {"PENDING_DATA", "EXPECT_DATA"} => unit.command_id = "WRITEBLOCK"
    /\ unit.packet_state \in {"PACKET", "PACKET_CONTENTS", "PACKET_END"}
          => unit.command_id \in {Nil, "WRITEBLOCK"}
    /\ unit.packet_state \in {"READY", "PACKET", "PACKET_CONTENTS", "PACKET_END",
                              "RESPONSE", "EXPECT_DATA"} => unit.ack_hi
    /\ unit.packet_state \in {"EXECUTING", "PENDING_DATA"} => ~unit.ack_hi
    /\ unit.unit_id # 0 => device

(* The unit is enabled as the guest wishes; and a unit that has missed the *)
(* wish has not got an answer for the guest.                               *)
BusInv ==
    /\ device => (unit.bus_enabled <=> guest.phase # "off")
    /\ ~device /\ ~unit.bus_enabled /\ guest.phase # "off" =>
          guest.phase # "reading" /\ guest.stage \in {"idle", "command"}

(* An answer is heard as far as it was sent.                               *)
AnswerInv ==
    unit.packet_state = "RESPONSE" /\ guest.stage = "answer" => guest.heard = unit.shifted

(* A packet that is in step with the guest is the guest's.                 *)
PacketInv ==
    device /\ guest.phase = "sending" /\ ~unit.askew
    /\ \/ unit.packet_state = "PACKET_CONTENTS" /\ guest.next = 3
       \/ unit.packet_state = "PACKET_END" /\ guest.next = 4
    => /\ unit.packet.request = guest.request
       /\ unit.packet.type = IF guest.stage = "command" THEN "Command" ELSE "Data"

(* A unit with a number that waits for data has the block of the request.  *)
DataInv ==
    /\ unit.unit_id # 0 /\ unit.bus_enabled /\ unit.command_id = "WRITEBLOCK"
    /\ unit.packet_state \in {"PENDING_DATA", "EXPECT_DATA",
                              "PACKET", "PACKET_CONTENTS", "PACKET_END"}
    => /\ guest.stage = "data"
       /\ unit.packet_state = "PENDING_DATA" => guest.phase = "low"
       /\ current_block_index = guest.request.block

(* What is executed is a request as a whole: the guest stands by it, or it *)
(* was left behind.                                                        *)
Executing(r) ==
    /\ unit.packet.request = r
    /\ unit.packet.type = "Command" => unit.command_id = r.op
    /\ unit.packet.type # "Command" => Write(r)

ExecInv ==
    unit.packet_state = "EXECUTING" /\ unit.bus_enabled /\ left = Nil =>
       /\ device /\ guest.phase \in {"sent", "low"} /\ guest.request # Nil
       /\ Executing(guest.request)
       /\ Device!Accepts(unit.unit_id, guest.request)
       /\ unit.packet.type = "Command" =>
             guest.stage = IF guest.phase = "sent" THEN "command"
                           ELSE IF Write(guest.request) THEN "data" ELSE "answer"
       /\ unit.packet.type # "Command" =>
             /\ guest.stage = IF guest.phase = "sent" THEN "data" ELSE "answer"
             /\ unit.command_id = "WRITEBLOCK" => current_block_index = guest.request.block

LeftInv ==
    left # Nil =>
       /\ unit.packet_state = "EXECUTING" /\ unit.unit_id = 0 /\ Executing(left)
       /\ unit.packet.type # "Command" /\ unit.command_id = "WRITEBLOCK" =>
             current_block_index \in {0, left.block}

BusIInv ==
    /\ BusTypeOK /\ GuestInv /\ UnitInv /\ BusInv /\ AnswerInv /\ PacketInv /\ DataInv
    /\ ExecInv /\ LeftInv

(* A step of the unit while REQ is low.                                    *)
Low ==
    /\ device /\ guest.phase = "low"
    /\ left' = IF unit'.packet_state = "EXECUTING" THEN left ELSE Nil
    /\ UNCHANGED <<device, guest>>

(* The packet that the guest sends.                                        *)
OfGuest ==
    [type |-> IF guest.stage = "command" THEN "Command" ELSE "Data", request |-> guest.request]
-----------------------------------------------------------------------------
(* What the operators on a unit return.                                    *)

LEMMA RecordParts ==
    /\ Len(PacketParts) = 4
    /\ PacketParts[1] = "sync" /\ PacketParts[2] = "header"
    /\ PacketParts[3] = "contents" /\ PacketParts[4] = "end"
BY DEF PacketParts

LEMMA Zeroes ==
    ASSUME BusAssumption
    PROVE  /\ ResponseLength \in Nat /\ 0 \in 0 .. ResponseLength
           /\ 1 \in 1 .. Len(PacketParts) /\ 4 \in 1 .. Len(PacketParts)
           /\ Requests \subseteq [op : Operations, dest : Nat \ {0}, block : Nat, data : Data]
BY RecordParts DEF BusAssumption

LEMMA PacketState ==
    ASSUME BusAssumption, NEW u \in Units, NEW s \in States
    PROVE  packet_state(u, s) \in Units
<1>1. u.askew \in BOOLEAN /\ u.ack_hi \in BOOLEAN
  BY DEF Units
<1>2. (u.askew /\ s \notin {"READY", "RESPONSE", "EXPECT_DATA"}) \in BOOLEAN
  BY <1>1, Zenon
<1>3. (IF s \in {"READY", "RESPONSE", "EXPECT_DATA"} THEN TRUE
       ELSE u.ack_hi /\ s \notin {"EXECUTING", "COMPLETE", "PACKET_BAD"}) \in BOOLEAN
  BY <1>1, Zenon
<1> DEFINE a == (u.askew /\ s \notin {"READY", "RESPONSE", "EXPECT_DATA"})
  k == (IF s \in {"READY", "RESPONSE", "EXPECT_DATA"} THEN TRUE
       ELSE u.ack_hi /\ s \notin {"EXECUTING", "COMPLETE", "PACKET_BAD"})
<1>4. packet_state(u, s) = IF u.packet_state = s THEN u
    ELSE [u EXCEPT !.packet_state = s, !.shifted = 0,
                   !.packet = IF s = "READY" THEN NoPacket ELSE @,
                   !.reply = IF s = "READY" THEN Nil ELSE @,
                   !.askew = a,
                   !.command_id = IF s = "READY" THEN Nil ELSE @,
                   !.ack_hi = k]
  BY Zenon DEF packet_state
<1>5. a \in BOOLEAN /\ k \in BOOLEAN
  BY <1>2, <1>3
<1> HIDE DEF a, k
<1>6. NoPacket \in Packets
  BY DEF NoPacket, Packets
<1>7. CASE u.packet_state = s
  BY Zenon, <1>4, <1>7
<1>8. CASE u.packet_state # s
  <2> DEFINE kept == IF s = "READY" THEN NoPacket ELSE u.packet
             told == IF s = "READY" THEN Nil ELSE u.reply
             command == IF s = "READY" THEN Nil ELSE u.command_id
  <2>1. packet_state(u, s) = [u EXCEPT !.packet_state = s, !.shifted = 0, !.packet = kept,
                                       !.reply = told, !.askew = a, !.command_id = command,
                                       !.ack_hi = k]
    BY Zenon, <1>4, <1>8
  <2>2. /\ kept \in Packets /\ told \in Replies \union {Nil}
        /\ command \in Operations \union {Nil}
    BY <1>6 DEF Units
  <2> HIDE DEF kept, told, command
  <2> QED
    BY <1>5, <2>1, <2>2, Zeroes DEF Units
<1> QED
  BY <1>7, <1>8

(* What a piece of a packet makes of the unit.                             *)
Outcome(u, v, piece, packet) ==
    \/ v = u /\ u.packet_state \notin {"PACKET_CONTENTS", "PACKET_END"}
    \/ u.packet_state \in {"READY", "EXPECT_DATA"} /\ v = packet_state(u, "PACKET")
    \/ /\ u.packet_state \in {"READY", "EXPECT_DATA", "PACKET", "PACKET_CONTENTS",
                               "PACKET_END"}
       /\ v = packet_state(u, "PACKET_BAD")
    \/ /\ u.packet_state \in {"PACKET", "PACKET_CONTENTS", "PACKET_END"}
       /\ v = [u EXCEPT !.askew = TRUE]
    \/ /\ u.packet_state = "PACKET" /\ piece = "header" /\ ~u.askew
       /\ v = packet_state([u EXCEPT !.packet = packet], "PACKET_CONTENTS")
    \/ /\ u.packet_state = "PACKET_CONTENTS" /\ piece = "contents" /\ ~u.askew
       /\ v = packet_state(u, "PACKET_END")
    \/ /\ u.packet_state = "PACKET_END" /\ piece = "end" /\ ~u.askew
       /\ v = packet_end(u)

LEMMA PacketReceived ==
    ASSUME NEW u \in Units, NEW piece \in {"sync", "header", "contents", "end"}, NEW type,
           NEW asked, NEW v \in BusReceive(u, piece, type, asked)
    PROVE  Outcome(u, v, piece, [type |-> type, request |-> asked])
<1>1. CASE u.packet_state \in {"READY", "EXPECT_DATA"}
  BY <1>1 DEF BusReceive, Outcome
<1>2. CASE u.packet_state = "PACKET"
  BY <1>2 DEF BusReceive, Outcome
<1>3. CASE u.packet_state = "PACKET_CONTENTS"
  BY <1>3 DEF BusReceive, Outcome
<1>4. CASE u.packet_state = "PACKET_END"
  BY <1>4 DEF BusReceive, Outcome
<1>5. CASE u.packet_state \notin {"READY", "EXPECT_DATA", "PACKET", "PACKET_CONTENTS",
                                 "PACKET_END"}
  BY <1>5 DEF BusReceive, Outcome
<1> QED
  BY <1>1, <1>2, <1>3, <1>4, <1>5


LEMMA AnswerTypes ==
    ASSUME BusAssumption, NEW u \in Units, NEW s \in {"OK", "INVALID_BLOCK", "BAD_CTL"},
           NEW d \in Data \union {Nil}
    PROVE  encode_response(u, s, d) \in Units
<1>1. [u EXCEPT !.reply = [status |-> s, data |-> d]] \in Units
  BY DEF Units, Replies
<1> QED
  BY <1>1, PacketState DEF encode_response, States

LEMMA AnsweredInLimits ==
    ASSUME BusAssumption, NEW u \in Units, NEW b, NEW d,
           b \in Blocks => d \in Data \union {Nil}
    PROVE  Limited(u, b, d) \in Units
BY AnswerTypes DEF Limited

LEMMA EnabledTypes ==
    ASSUME BusAssumption, NEW u \in Units, NEW on \in BOOLEAN
    PROVE  Enabled(u, on) \in Units
<1>1. [u EXCEPT !.bus_enabled = TRUE] \in Units /\ [u EXCEPT !.bus_enabled = on] \in Units
  BY DEF Units
<1> QED
  BY <1>1, PacketState DEF Enabled, States

LEMMA EndTypes ==
    ASSUME BusAssumption, NEW u \in Units, u.packet.request \in Requests
    PROVE  packet_end(u) \in Units
<1> DEFINE c == IF u.packet.type = "Command" THEN u.packet.request.op ELSE u.command_id
<1>1. c \in Operations \union {Nil}
  BY Zeroes DEF Units
<1>2. [u EXCEPT !.command_id = c] \in Units
  BY <1>1 DEF Units
<1>3. packet_end(u) \in {packet_state([u EXCEPT !.command_id = c], s) :
                              s \in {"EXECUTING", "READY"}}
  BY DEF packet_end
<1> QED
  BY <1>2, <1>3, PacketState DEF States

LEMMA SendGuest ==
    ASSUME BusAssumption, BusIInv, Send
    PROVE  guest' \in Guests
<1>1. CASE guest.next = Len(PacketParts)
  BY <1>1, Zeroes, Zenon DEF BusIInv, BusTypeOK, Guests, Send
<1>2. CASE guest.next # Len(PacketParts)
  <2>1. guest.next + 1 \in 1 .. Len(PacketParts)
    BY <1>2, RecordParts DEF BusIInv, BusTypeOK, Guests
  <2> QED
    BY <1>2, <2>1, Zenon DEF BusIInv, BusTypeOK, Guests, Send
<1> QED
  BY <1>1, <1>2

LEMMA Requested ==
    ASSUME BusAssumption, BusIInv, Low, unit.packet_state = "EXECUTING"
    PROVE  /\ unit.packet.request \in Requests
           /\ unit.packet.request.dest \in Nat \ {0}
           /\ unit.packet.request.block \in Nat /\ unit.packet.request.data \in Data
<1>1. unit.packet.request \in Requests
  BY DEF BusIInv, BusTypeOK, Units, Guests, BusInv, ExecInv, LeftInv, Executing, Low
<1> QED
  BY <1>1, Zeroes

LEMMA SendCases ==
    ASSUME BusIInv, Send, device
    PROVE  Outcome(unit, unit', PacketParts[guest.next], OfGuest)
<1>1. unit' \in BusReceive(unit, PacketParts[guest.next], OfGuest.type, OfGuest.request)
  BY DEF Send, OfGuest
<1>2. PacketParts[guest.next] \in {"sync", "header", "contents", "end"}
  BY RecordParts DEF BusIInv, BusTypeOK, Guests
<1>3. OfGuest = [type |-> OfGuest.type, request |-> OfGuest.request]
  BY DEF OfGuest
<1>4. unit \in Units
  BY DEF BusIInv, BusTypeOK
<1> DEFINE piece == PacketParts[guest.next]
           type == OfGuest.type
           asked == OfGuest.request
<1>5. /\ unit' \in BusReceive(unit, piece, type, asked)
      /\ piece \in {"sync", "header", "contents", "end"}
      /\ OfGuest = [type |-> type, request |-> asked]
  BY <1>1, <1>2, <1>3
<1> HIDE DEF piece, type, asked
<1>6. Outcome(unit, unit', piece, OfGuest)
  BY <1>4, <1>5, PacketReceived
<1> QED
  BY <1>6 DEF piece

-----------------------------------------------------------------------------
(* The invariant.                                                          *)

LEMMA BusStartsWell == BusAssumption /\ BusInit => BusIInv
<1> SUFFICES ASSUME BusAssumption, BusInit PROVE BusIInv
  OBVIOUS
<1>1. unit \in Units
  BY Zeroes DEF BusInit, Units, States, Packets, NoPacket
<1>2. guest \in Guests
  BY Zeroes DEF BusInit, Guests
<1>3. BusTypeOK
  BY <1>1, <1>2 DEF BusInit, BusTypeOK, BusAssumption
<1> QED
  BY <1>3, Zeroes DEF BusInit, BusIInv, GuestInv, UnitInv, BusInv, AnswerInv, PacketInv, DataInv,
     ExecInv, LeftInv, NoPacket

LEMMA EnableKeeps ==
    ASSUME BusAssumption, BusIInv, Enable
    PROVE  BusIInv'
<1>1. unit' \in Units
  BY EnabledTypes DEF BusIInv, BusTypeOK, Enable
<1>2. guest' \in Guests
  BY DEF BusIInv, BusTypeOK, Guests, Enable
<1>3. BusTypeOK'
  BY <1>1, <1>2 DEF BusIInv, BusTypeOK, Enable
<1>4. GuestInv' /\ UnitInv'
  BY DEF BusIInv, BusTypeOK, Units, Guests, GuestInv, Write, UnitInv, Enable, Enabled,
       packet_state
<1>5. BusInv'
  BY Zeroes, RecordParts DEF BusIInv, BusTypeOK, Units, Guests, BusInv, GuestInv, Write, Enable,
       Enabled, packet_state
<1>6. AnswerInv' /\ PacketInv' /\ DataInv' /\ LeftInv'
  BY DEF BusIInv, BusTypeOK, Units, Guests, AnswerInv, PacketInv, DataInv, LeftInv, Executing,
       Write, Enable, Enabled, packet_state
<1>7. ExecInv'
  BY Zeroes, RecordParts DEF BusIInv, BusTypeOK, Units, Guests, ExecInv, Executing, Write,
       Device!Accepts, BusInv, Enable, Enabled, packet_state
<1> QED
  BY <1>3, <1>4, <1>5, <1>6, <1>7 DEF BusIInv

LEMMA BeginKeeps ==
    ASSUME BusAssumption, BusIInv, NEW r \in Requests, Begin(r)
    PROVE  BusIInv'
<1>1. unit' \in Units
  BY DEF BusIInv, BusTypeOK, Begin
<1>2. guest' \in Guests
  BY Zenon DEF BusIInv, BusTypeOK, Guests, Begin
<1>3. BusTypeOK'
  BY <1>1, <1>2 DEF BusIInv, BusTypeOK, Begin
<1>4. UnitInv' /\ BusInv'
  BY DEF BusIInv, BusTypeOK, Units, Guests, UnitInv, BusInv, Begin
<1>5. GuestInv'
  BY Zeroes, RecordParts DEF BusIInv, BusTypeOK, Units, Guests, GuestInv, Write, Begin,
       BusAssumption
<1>6. AnswerInv' /\ PacketInv' /\ DataInv' /\ ExecInv' /\ LeftInv'
  BY DEF BusIInv, BusTypeOK, Units, Guests, AnswerInv, PacketInv, DataInv, ExecInv, Executing,
       Write, Device!Accepts, LeftInv, Begin
<1> QED
  BY <1>3, <1>4, <1>5, <1>6 DEF BusIInv

LEMMA RaiseReqKeeps ==
    ASSUME BusAssumption, BusIInv, RaiseReq
    PROVE  BusIInv'
<1>1. unit' \in Units
  BY DEF BusIInv, BusTypeOK, RaiseReq
<1>2. guest' \in Guests
  BY DEF BusIInv, BusTypeOK, Guests, RaiseReq
<1>3. BusTypeOK'
  BY <1>1, <1>2 DEF BusIInv, BusTypeOK, RaiseReq
<1>4. GuestInv' /\ UnitInv' /\ BusInv'
  BY DEF BusIInv, BusTypeOK, Units, Guests, GuestInv, Write, UnitInv, BusInv, RaiseReq, ack_hi
<1>5. AnswerInv' /\ LeftInv'
  BY DEF BusIInv, BusTypeOK, Units, Guests, AnswerInv, LeftInv, Executing, Write, RaiseReq,
       ack_hi
<1>6. PacketInv'
  BY Zeroes, RecordParts DEF BusIInv, BusTypeOK, Units, Guests, PacketInv, GuestInv, Write, RaiseReq,
       ack_hi
<1>7. DataInv'
  BY Zeroes, RecordParts DEF BusIInv, BusTypeOK, Units, Guests, DataInv, UnitInv, RaiseReq, ack_hi
<1>8. ExecInv'
  BY Zeroes, RecordParts DEF BusIInv, BusTypeOK, Units, Guests, ExecInv, Executing, Write,
       Device!Accepts, UnitInv, RaiseReq, ack_hi
<1> QED
  BY <1>3, <1>4, <1>5, <1>6, <1>7, <1>8 DEF BusIInv

LEMMA SendAloneKeeps ==
    ASSUME BusAssumption, BusIInv, Send, ~device
    PROVE  BusIInv'
<1>1. unit' \in Units
  BY DEF BusIInv, BusTypeOK, Send
<1>2. guest' \in Guests
  BY SendGuest
<1>3. BusTypeOK'
  BY <1>1, <1>2 DEF BusIInv, BusTypeOK, Send
<1>4. GuestInv' /\ UnitInv' /\ BusInv'
  BY DEF BusIInv, BusTypeOK, Units, Guests, GuestInv, Write, UnitInv, BusInv, Send
<1>5. AnswerInv' /\ PacketInv' /\ DataInv' /\ ExecInv' /\ LeftInv'
  BY DEF BusIInv, BusTypeOK, Units, Guests, AnswerInv, PacketInv, DataInv, ExecInv, Executing,
       Write, Device!Accepts, LeftInv, Send
<1> QED
  BY <1>3, <1>4, <1>5 DEF BusIInv

LEMMA SendSameKeeps ==
    ASSUME BusAssumption, BusIInv, Send, device, unit' = unit,
           unit.packet_state \notin {"PACKET_CONTENTS", "PACKET_END"}
    PROVE  BusIInv'
<1>1. unit' \in Units
  BY DEF BusIInv, BusTypeOK
<1>2. guest' \in Guests
  BY SendGuest
<1>3. BusTypeOK'
  BY <1>1, <1>2 DEF BusIInv, BusTypeOK, Send
<1>4. GuestInv' /\ UnitInv' /\ BusInv'
  BY DEF BusIInv, BusTypeOK, Units, Guests, GuestInv, Write, UnitInv, BusInv, Send
<1>5. AnswerInv' /\ PacketInv' /\ DataInv' /\ ExecInv' /\ LeftInv'
  BY DEF BusIInv, BusTypeOK, Units, Guests, AnswerInv, PacketInv, DataInv, ExecInv, Executing,
       Write, Device!Accepts, LeftInv, Send
<1> QED
  BY <1>3, <1>4, <1>5 DEF BusIInv

LEMMA SendBeginsKeeps ==
    ASSUME BusAssumption, BusIInv, Send, device,
           unit.packet_state \in {"READY", "EXPECT_DATA"},
           unit' = packet_state(unit, "PACKET")
    PROVE  BusIInv'
<1>1. unit' \in Units
  BY PacketState DEF BusIInv, BusTypeOK, States
<1>2. guest' \in Guests
  BY SendGuest
<1>3. BusTypeOK'
  BY <1>1, <1>2 DEF BusIInv, BusTypeOK, Send
<1>4. GuestInv' /\ UnitInv' /\ BusInv'
  BY DEF BusIInv, BusTypeOK, Units, Guests, GuestInv, Write, UnitInv, BusInv, Send,
       packet_state
<1>5. AnswerInv' /\ PacketInv' /\ ExecInv' /\ LeftInv'
  BY DEF BusIInv, BusTypeOK, Units, Guests, AnswerInv, PacketInv, ExecInv, Executing, Write,
       Device!Accepts, LeftInv, Send, packet_state
<1>6. DataInv'
  BY Zeroes, RecordParts DEF BusIInv, BusTypeOK, Units, Guests, GuestInv, Write, UnitInv, BusInv,
       AnswerInv, PacketInv, DataInv, ExecInv, Executing, Device!Accepts, LeftInv, Send,
       packet_state, BusAssumption, Packets, Replies, States, NoPacket, Operations
<1> QED
  BY <1>3, <1>4, <1>5, <1>6 DEF BusIInv

LEMMA SendBadKeeps ==
    ASSUME BusAssumption, BusIInv, Send, device,
           unit.packet_state \in {"READY", "EXPECT_DATA", "PACKET", "PACKET_CONTENTS", "PACKET_END"},
           unit' = packet_state(unit, "PACKET_BAD")
    PROVE  BusIInv'
<1>1. unit' \in Units
  BY PacketState DEF BusIInv, BusTypeOK, States
<1>2. guest' \in Guests
  BY SendGuest
<1>3. BusTypeOK'
  BY <1>1, <1>2 DEF BusIInv, BusTypeOK, Send
<1>4. GuestInv' /\ UnitInv' /\ BusInv'
  BY DEF BusIInv, BusTypeOK, Units, Guests, GuestInv, Write, UnitInv, BusInv, Send,
       packet_state
<1>5. AnswerInv' /\ PacketInv' /\ DataInv' /\ ExecInv' /\ LeftInv'
  BY DEF BusIInv, BusTypeOK, Units, Guests, AnswerInv, PacketInv, DataInv, ExecInv, Executing,
       Write, Device!Accepts, LeftInv, Send, packet_state
<1> QED
  BY <1>3, <1>4, <1>5 DEF BusIInv

LEMMA SendAskewKeeps ==
    ASSUME BusAssumption, BusIInv, Send, device,
           unit.packet_state \in {"PACKET", "PACKET_CONTENTS", "PACKET_END"},
           unit' = [unit EXCEPT !.askew = TRUE]
    PROVE  BusIInv'
<1>1. unit' \in Units
  BY DEF BusIInv, BusTypeOK, Units
<1>2. guest' \in Guests
  BY SendGuest
<1>3. BusTypeOK'
  BY <1>1, <1>2 DEF BusIInv, BusTypeOK, Send
<1>4. GuestInv' /\ UnitInv' /\ BusInv'
  BY DEF BusIInv, BusTypeOK, Units, Guests, GuestInv, Write, UnitInv, BusInv, Send
<1>5. AnswerInv' /\ PacketInv' /\ DataInv' /\ ExecInv' /\ LeftInv'
  BY DEF BusIInv, BusTypeOK, Units, Guests, AnswerInv, PacketInv, DataInv, ExecInv, Executing,
       Write, Device!Accepts, LeftInv, Send
<1> QED
  BY <1>3, <1>4, <1>5 DEF BusIInv

LEMMA SendHeaderKeeps ==
    ASSUME BusAssumption, BusIInv, Send, device, unit.packet_state = "PACKET",
           PacketParts[guest.next] = "header", ~unit.askew,
           unit' = packet_state([unit EXCEPT !.packet = OfGuest], "PACKET_CONTENTS")
    PROVE  BusIInv'
<1>1. unit' \in Units
  <2>1. [unit EXCEPT !.packet = OfGuest] \in Units
    BY DEF BusIInv, BusTypeOK, Units, Packets, Guests, OfGuest
  <2> QED
    BY <2>1, PacketState DEF States
<1>2. guest' \in Guests
  BY SendGuest
<1>3. BusTypeOK'
  BY <1>1, <1>2 DEF BusIInv, BusTypeOK, Send
<1>4. GuestInv' /\ UnitInv' /\ BusInv'
  BY DEF BusIInv, BusTypeOK, Units, Guests, GuestInv, Write, UnitInv, BusInv, Send,
       packet_state, OfGuest
<1>5. AnswerInv' /\ PacketInv' /\ DataInv' /\ ExecInv' /\ LeftInv'
  BY DEF BusIInv, BusTypeOK, Units, Guests, AnswerInv, PacketInv, DataInv, ExecInv, Executing,
       Write, Device!Accepts, LeftInv, Send, packet_state, OfGuest
<1> QED
  BY <1>3, <1>4, <1>5 DEF BusIInv

LEMMA SendContentsKeeps ==
    ASSUME BusAssumption, BusIInv, Send, device, unit.packet_state = "PACKET_CONTENTS",
           PacketParts[guest.next] = "contents", ~unit.askew,
           unit' = packet_state(unit, "PACKET_END")
    PROVE  BusIInv'
<1>1. unit' \in Units
  BY PacketState DEF BusIInv, BusTypeOK, States
<1>2. guest' \in Guests
  BY SendGuest
<1>3. BusTypeOK'
  BY <1>1, <1>2 DEF BusIInv, BusTypeOK, Send
<1>4. GuestInv' /\ UnitInv' /\ BusInv'
  BY DEF BusIInv, BusTypeOK, Units, Guests, GuestInv, Write, UnitInv, BusInv, Send,
       packet_state
<1>5. AnswerInv' /\ PacketInv' /\ DataInv' /\ ExecInv' /\ LeftInv'
  BY DEF BusIInv, BusTypeOK, Units, Guests, AnswerInv, PacketInv, DataInv, ExecInv, Executing,
       Write, Device!Accepts, LeftInv, Send, packet_state
<1> QED
  BY <1>3, <1>4, <1>5 DEF BusIInv

LEMMA SendEndKeeps ==
    ASSUME BusAssumption, BusIInv, Send, device, unit.packet_state = "PACKET_END",
           PacketParts[guest.next] = "end", ~unit.askew, unit' = packet_end(unit)
    PROVE  BusIInv'
<1>1. unit' \in Units
  <2>1. unit.packet.request \in Requests
    BY RecordParts DEF BusIInv, BusTypeOK, Guests, GuestInv, PacketInv, Send
  <2> QED
    BY <2>1, EndTypes DEF BusIInv, BusTypeOK
<1>2. guest' \in Guests
  BY SendGuest
<1>3. BusTypeOK'
  BY <1>1, <1>2 DEF BusIInv, BusTypeOK, Send
<1>4. GuestInv' /\ UnitInv' /\ BusInv'
  BY DEF BusIInv, BusTypeOK, Units, Guests, GuestInv, Write, UnitInv, BusInv, Send, packet_end,
       packet_state
<1>5. AnswerInv' /\ PacketInv' /\ DataInv' /\ LeftInv'
  BY DEF BusIInv, BusTypeOK, Units, Guests, AnswerInv, PacketInv, DataInv, LeftInv, Executing,
       Write, Send, packet_end, packet_state
<1>6. ExecInv'
  BY Zeroes, RecordParts DEF BusIInv, BusTypeOK, Units, Guests, GuestInv, Write, UnitInv, BusInv,
       AnswerInv, PacketInv, DataInv, ExecInv, Executing, Device!Accepts, LeftInv, Send,
       packet_end, packet_state, BusAssumption, Packets, Replies, States, NoPacket,
       Operations
<1> QED
  BY <1>3, <1>4, <1>5, <1>6 DEF BusIInv

LEMMA LowerReqKeeps ==
    ASSUME BusAssumption, BusIInv, LowerReq
    PROVE  BusIInv'
<1>1. unit' \in Units
  BY DEF BusIInv, BusTypeOK, LowerReq
<1>2. guest' \in Guests
  BY Zenon DEF BusIInv, BusTypeOK, Guests, LowerReq
<1>3. BusTypeOK'
  BY <1>1, <1>2 DEF BusIInv, BusTypeOK, LowerReq
<1>4. GuestInv' /\ UnitInv' /\ BusInv'
  BY DEF BusIInv, BusTypeOK, Units, Guests, GuestInv, Write, UnitInv, BusInv, LowerReq, ack_hi
<1>5. PacketInv' /\ ExecInv' /\ LeftInv'
  BY DEF BusIInv, BusTypeOK, Units, Guests, PacketInv, ExecInv, Executing, Write,
       Device!Accepts, LeftInv, LowerReq, ack_hi
<1>6. AnswerInv'
  BY Zeroes, RecordParts DEF BusIInv, BusTypeOK, Units, Guests, AnswerInv, UnitInv, LowerReq, ack_hi
<1>7. DataInv'
  BY Zeroes, RecordParts DEF BusIInv, BusTypeOK, Units, Guests, DataInv, UnitInv, LowerReq, ack_hi
<1> QED
  BY <1>3, <1>4, <1>5, <1>6, <1>7 DEF BusIInv

LEMMA TakeKeeps ==
    ASSUME BusAssumption, BusIInv, Take
    PROVE  BusIInv'
<1>1. unit' \in Units
  BY DEF BusIInv, BusTypeOK, Take
<1>2. guest' \in Guests
  BY Zeroes, Zenon DEF BusIInv, BusTypeOK, Guests, Take
<1>3. BusTypeOK'
  BY <1>1, <1>2 DEF BusIInv, BusTypeOK, Take
<1>4. GuestInv' /\ UnitInv' /\ BusInv'
  BY DEF BusIInv, BusTypeOK, Units, Guests, GuestInv, Write, UnitInv, BusInv, Take
<1>5. AnswerInv' /\ PacketInv' /\ ExecInv' /\ LeftInv'
  BY DEF BusIInv, BusTypeOK, Units, Guests, AnswerInv, PacketInv, ExecInv, Executing, Write,
       Device!Accepts, LeftInv, Take
<1>6. DataInv'
  BY Zeroes, RecordParts DEF BusIInv, BusTypeOK, Units, Guests, DataInv, GuestInv, Write, Take
<1> QED
  BY <1>3, <1>4, <1>5, <1>6 DEF BusIInv

LEMMA GiveUpKeeps ==
    ASSUME BusAssumption, BusIInv, GiveUp
    PROVE  BusIInv'
<1>1. unit' \in Units
  <2>1. ASSUME NEW broken \in BOOLEAN PROVE [unit EXCEPT !.askew = @ \/ broken] \in Units
    <3>1. (unit.askew \/ broken) \in BOOLEAN
      BY DEF BusIInv, BusTypeOK, Units
    <3> QED
      BY <3>1 DEF BusIInv, BusTypeOK, Units
  <2> QED
    BY <2>1, EnabledTypes DEF BusIInv, BusTypeOK, GiveUp
<1>2. guest' \in Guests
  BY Zeroes, Zenon DEF BusIInv, BusTypeOK, Guests, GiveUp
<1>3. BusTypeOK'
  BY <1>1, <1>2 DEF BusIInv, BusTypeOK, GiveUp
<1>4. GuestInv' /\ UnitInv' /\ BusInv'
  BY DEF BusIInv, BusTypeOK, Units, Guests, GuestInv, Write, UnitInv, BusInv, GiveUp, Enabled
<1>5. AnswerInv' /\ PacketInv' /\ ExecInv' /\ LeftInv'
  BY DEF BusIInv, BusTypeOK, Units, Guests, AnswerInv, PacketInv, ExecInv, Executing, Write,
       Device!Accepts, LeftInv, GiveUp, Enabled
<1>6. DataInv'
  BY Zeroes, RecordParts DEF BusIInv, BusTypeOK, Units, Guests, DataInv, UnitInv, GiveUp, Enabled
<1> QED
  BY <1>3, <1>4, <1>5, <1>6 DEF BusIInv

LEMMA BusResetKeeps ==
    ASSUME BusAssumption, BusIInv, BusReset
    PROVE  BusIInv'
<1>1. unit' \in Units
  BY DEF BusIInv, BusTypeOK, BusReset, Units
<1>2. guest' \in Guests
  BY DEF BusIInv, BusTypeOK, BusReset
<1>3. BusTypeOK'
  BY <1>1, <1>2 DEF BusIInv, BusTypeOK, BusReset
<1>4. GuestInv' /\ UnitInv' /\ BusInv'
  BY DEF BusIInv, BusTypeOK, Units, Guests, GuestInv, Write, UnitInv, BusInv, BusReset
<1>5. AnswerInv' /\ PacketInv' /\ DataInv' /\ ExecInv' /\ LeftInv'
  BY DEF BusIInv, BusTypeOK, Units, Guests, AnswerInv, PacketInv, DataInv, ExecInv, Executing,
       Write, Device!Accepts, LeftInv, BusReset
<1> QED
  BY <1>3, <1>4, <1>5 DEF BusIInv

LEMMA BecomeReadyKeeps ==
    ASSUME BusAssumption, BusIInv, Low, BecomeReady
    PROVE  BusIInv'
<1>1. unit' \in Units
  BY PacketState DEF BusIInv, BusTypeOK, BecomeReady, States
<1>2. guest' \in Guests
  BY DEF BusIInv, BusTypeOK, Low
<1>3. BusTypeOK'
  BY <1>1, <1>2 DEF BusIInv, BusTypeOK, Low, BecomeReady
<1>4. GuestInv' /\ UnitInv' /\ BusInv'
  BY DEF BusIInv, BusTypeOK, Units, Guests, GuestInv, Write, UnitInv, BusInv, Low, BecomeReady,
       packet_state
<1>5. AnswerInv' /\ PacketInv' /\ DataInv' /\ ExecInv' /\ LeftInv'
  BY DEF BusIInv, BusTypeOK, Units, Guests, AnswerInv, PacketInv, DataInv, ExecInv, Executing,
       Write, Device!Accepts, LeftInv, Low, BecomeReady, packet_state
<1> QED
  BY <1>3, <1>4, <1>5 DEF BusIInv

LEMMA ExpectDataKeeps ==
    ASSUME BusAssumption, BusIInv, Low, ExpectData
    PROVE  BusIInv'
<1>1. unit' \in Units
  BY PacketState DEF BusIInv, BusTypeOK, ExpectData, States
<1>2. guest' \in Guests
  BY DEF BusIInv, BusTypeOK, Low
<1>3. BusTypeOK'
  BY <1>1, <1>2 DEF BusIInv, BusTypeOK, Low, ExpectData
<1>4. GuestInv' /\ UnitInv' /\ BusInv'
  BY DEF BusIInv, BusTypeOK, Units, Guests, GuestInv, Write, UnitInv, BusInv, Low, ExpectData,
       packet_state
<1>5. AnswerInv' /\ PacketInv' /\ DataInv' /\ ExecInv' /\ LeftInv'
  BY DEF BusIInv, BusTypeOK, Units, Guests, AnswerInv, PacketInv, DataInv, ExecInv, Executing,
       Write, Device!Accepts, LeftInv, Low, ExpectData, packet_state
<1> QED
  BY <1>3, <1>4, <1>5 DEF BusIInv

LEMMA INITKeeps ==
    ASSUME BusAssumption, BusIInv, Low, unit.packet_state = "EXECUTING", INIT
    PROVE  BusIInv'
<1>1. unit' \in Units
  <2>1. encode_response(unit, "OK", Nil) \in Units
    BY AnswerTypes DEF BusIInv, BusTypeOK
  <2> QED
    BY <2>1, Requested DEF INIT, Units
<1>2. guest' \in Guests
  BY DEF BusIInv, BusTypeOK, Low
<1>3. BusTypeOK'
  BY <1>1, <1>2 DEF BusIInv, BusTypeOK, Low, INIT
<1>4. GuestInv' /\ UnitInv' /\ BusInv'
  BY DEF BusIInv, BusTypeOK, Units, Guests, GuestInv, Write, UnitInv, BusInv, Low, INIT,
       Commanded, encode_response, packet_state
<1>5. PacketInv' /\ DataInv' /\ ExecInv' /\ LeftInv'
  BY DEF BusIInv, BusTypeOK, Units, Guests, PacketInv, DataInv, ExecInv, Executing, Write,
       Device!Accepts, LeftInv, Low, INIT, Commanded, encode_response, packet_state
<1>6. AnswerInv'
  BY Zeroes, RecordParts DEF BusIInv, BusTypeOK, Units, Guests, AnswerInv, GuestInv, Write, Low,
       INIT, Commanded, encode_response, packet_state
<1> QED
  BY <1>3, <1>4, <1>5, <1>6 DEF BusIInv

LEMMA ShortCommandKeeps ==
    ASSUME BusAssumption, BusIInv, Low, unit.packet_state = "EXECUTING", ShortCommand
    PROVE  BusIInv'
<1>1. unit' \in Units
  BY AnswerTypes DEF BusIInv, BusTypeOK, ShortCommand
<1>2. guest' \in Guests
  BY DEF BusIInv, BusTypeOK, Low
<1>3. BusTypeOK'
  BY <1>1, <1>2 DEF BusIInv, BusTypeOK, Low, ShortCommand
<1>4. GuestInv' /\ UnitInv' /\ BusInv'
  BY DEF BusIInv, BusTypeOK, Units, Guests, GuestInv, Write, UnitInv, BusInv, Low, ShortCommand,
       Commanded, encode_response, packet_state
<1>5. PacketInv' /\ DataInv' /\ ExecInv' /\ LeftInv'
  BY DEF BusIInv, BusTypeOK, Units, Guests, PacketInv, DataInv, ExecInv, Executing, Write,
       Device!Accepts, LeftInv, Low, ShortCommand, Commanded, encode_response, packet_state
<1>6. AnswerInv'
  BY Zeroes, RecordParts DEF BusIInv, BusTypeOK, Units, Guests, AnswerInv, GuestInv, Write, Low,
       ShortCommand, Commanded, encode_response, packet_state
<1> QED
  BY <1>3, <1>4, <1>5, <1>6 DEF BusIInv

LEMMA READBLOCKKeeps ==
    ASSUME BusAssumption, BusIInv, Low, unit.packet_state = "EXECUTING", READBLOCK
    PROVE  BusIInv'
<1>1. unit' \in Units
  BY AnsweredInLimits DEF BusIInv, BusTypeOK, READBLOCK
<1>2. guest' \in Guests
  BY DEF BusIInv, BusTypeOK, Low
<1>3. BusTypeOK'
  BY <1>1, <1>2, Requested DEF BusIInv, BusTypeOK, Low, READBLOCK
<1>4. GuestInv' /\ UnitInv' /\ BusInv'
  BY DEF BusIInv, BusTypeOK, Units, Guests, GuestInv, Write, UnitInv, BusInv, Low, READBLOCK,
       Commanded, Limited, encode_response, packet_state
<1>5. PacketInv' /\ DataInv' /\ ExecInv' /\ LeftInv'
  BY DEF BusIInv, BusTypeOK, Units, Guests, PacketInv, DataInv, ExecInv, Executing, Write,
       Device!Accepts, LeftInv, Low, READBLOCK, Commanded, Limited, encode_response,
       packet_state
<1>6. AnswerInv'
  BY Zeroes, RecordParts DEF BusIInv, BusTypeOK, Units, Guests, AnswerInv, GuestInv, Write, Low,
       READBLOCK, Commanded, Limited, encode_response, packet_state
<1> QED
  BY <1>3, <1>4, <1>5, <1>6 DEF BusIInv

LEMMA WRITEBLOCKKeeps ==
    ASSUME BusAssumption, BusIInv, Low, unit.packet_state = "EXECUTING", WRITEBLOCK
    PROVE  BusIInv'
<1>1. unit' \in Units
  BY PacketState DEF BusIInv, BusTypeOK, WRITEBLOCK, States
<1>2. guest' \in Guests
  BY DEF BusIInv, BusTypeOK, Low
<1>3. BusTypeOK'
  BY <1>1, <1>2, Requested DEF BusIInv, BusTypeOK, Low, WRITEBLOCK
<1>4. GuestInv' /\ UnitInv' /\ BusInv'
  BY DEF BusIInv, BusTypeOK, Units, Guests, GuestInv, Write, UnitInv, BusInv, Low, WRITEBLOCK,
       Commanded, packet_state
<1>5. AnswerInv' /\ PacketInv' /\ ExecInv' /\ LeftInv'
  BY DEF BusIInv, BusTypeOK, Units, Guests, AnswerInv, PacketInv, ExecInv, Executing, Write,
       Device!Accepts, LeftInv, Low, WRITEBLOCK, Commanded, packet_state
<1>6. DataInv'
  BY Zeroes, RecordParts DEF BusIInv, BusTypeOK, Units, Guests, DataInv, ExecInv, Executing, Write,
       Device!Accepts, LeftInv, Low, WRITEBLOCK, Commanded, packet_state
<1> QED
  BY <1>3, <1>4, <1>5, <1>6 DEF BusIInv

LEMMA UNKNOWNKeeps ==
    ASSUME BusAssumption, BusIInv, Low, unit.packet_state = "EXECUTING", UNKNOWN
    PROVE  BusIInv'
<1>1. unit' \in Units
  BY PacketState DEF BusIInv, BusTypeOK, UNKNOWN, States
<1>2. guest' \in Guests
  BY DEF BusIInv, BusTypeOK, Low
<1>3. BusTypeOK'
  BY <1>1, <1>2 DEF BusIInv, BusTypeOK, Low, UNKNOWN
<1>4. GuestInv' /\ UnitInv' /\ BusInv'
  BY DEF BusIInv, BusTypeOK, Units, Guests, GuestInv, Write, UnitInv, BusInv, Low, UNKNOWN,
       Commanded, packet_state
<1>5. AnswerInv' /\ PacketInv' /\ DataInv' /\ ExecInv' /\ LeftInv'
  BY DEF BusIInv, BusTypeOK, Units, Guests, AnswerInv, PacketInv, DataInv, ExecInv, Executing,
       Write, Device!Accepts, LeftInv, Low, UNKNOWN, Commanded, packet_state
<1> QED
  BY <1>3, <1>4, <1>5 DEF BusIInv

LEMMA WriteDataKeeps ==
    ASSUME BusAssumption, BusIInv, Low, unit.packet_state = "EXECUTING", WriteData
    PROVE  BusIInv'
<1>1. unit' \in Units
  BY AnsweredInLimits DEF BusIInv, BusTypeOK, WriteData
<1>2. guest' \in Guests
  BY DEF BusIInv, BusTypeOK, Low
<1>3. BusTypeOK'
  BY <1>1, <1>2, Requested DEF BusIInv, BusTypeOK, Low, WriteData
<1>4. GuestInv' /\ UnitInv' /\ BusInv'
  BY DEF BusIInv, BusTypeOK, Units, Guests, GuestInv, Write, UnitInv, BusInv, Low, WriteData,
       Commanded, Limited, encode_response, packet_state
<1>5. PacketInv' /\ DataInv' /\ ExecInv' /\ LeftInv'
  BY DEF BusIInv, BusTypeOK, Units, Guests, PacketInv, DataInv, ExecInv, Executing, Write,
       Device!Accepts, LeftInv, Low, WriteData, Commanded, Limited, encode_response,
       packet_state
<1>6. AnswerInv'
  BY Zeroes, RecordParts DEF BusIInv, BusTypeOK, Units, Guests, AnswerInv, GuestInv, Write, Low,
       WriteData, Commanded, Limited, encode_response, packet_state
<1> QED
  BY <1>3, <1>4, <1>5, <1>6 DEF BusIInv

LEMMA StrayDataKeeps ==
    ASSUME BusAssumption, BusIInv, Low, unit.packet_state = "EXECUTING", StrayData
    PROVE  BusIInv'
<1>1. unit' \in Units
  BY DEF BusIInv, BusTypeOK, StrayData
<1>2. guest' \in Guests
  BY DEF BusIInv, BusTypeOK, Low
<1>3. BusTypeOK'
  BY <1>1, <1>2 DEF BusIInv, BusTypeOK, Low, StrayData
<1>4. GuestInv' /\ UnitInv' /\ BusInv'
  BY DEF BusIInv, BusTypeOK, Units, Guests, GuestInv, Write, UnitInv, BusInv, Low, StrayData,
       Commanded, packet_state
<1>5. AnswerInv' /\ PacketInv' /\ DataInv' /\ ExecInv' /\ LeftInv'
  BY DEF BusIInv, BusTypeOK, Units, Guests, AnswerInv, PacketInv, DataInv, ExecInv, Executing,
       Write, Device!Accepts, LeftInv, Low, StrayData, Commanded, packet_state
<1> QED
  BY <1>3, <1>4, <1>5 DEF BusIInv

LEMMA RespondPartKeeps ==
    ASSUME BusAssumption, BusIInv, RespondPart
    PROVE  BusIInv'
<1>1. unit' \in Units
  BY Zeroes DEF BusIInv, BusTypeOK, RespondPart, Units
<1>2. guest' \in Guests
  <2>1. guest.heard + 1 \in 0 .. ResponseLength
    BY Zeroes DEF BusIInv, BusTypeOK, Units, Guests, GuestInv, AnswerInv, RespondPart
  <2> QED
    BY <2>1, Zenon DEF BusIInv, BusTypeOK, Guests, RespondPart
<1>3. BusTypeOK'
  BY <1>1, <1>2 DEF BusIInv, BusTypeOK, RespondPart
<1>4. GuestInv' /\ UnitInv' /\ BusInv'
  BY DEF BusIInv, BusTypeOK, Units, Guests, GuestInv, Write, UnitInv, BusInv, RespondPart
<1>5. AnswerInv' /\ PacketInv' /\ DataInv' /\ ExecInv' /\ LeftInv'
  BY DEF BusIInv, BusTypeOK, Units, Guests, AnswerInv, PacketInv, DataInv, ExecInv, Executing,
       Write, Device!Accepts, LeftInv, RespondPart
<1> QED
  BY <1>3, <1>4, <1>5 DEF BusIInv

LEMMA RespondEndKeeps ==
    ASSUME BusAssumption, BusIInv, RespondEnd
    PROVE  BusIInv'
<1>1. unit' \in Units
  BY PacketState DEF BusIInv, BusTypeOK, RespondEnd, States
<1>2. guest' \in Guests
  BY DEF BusIInv, BusTypeOK, RespondEnd
<1>3. BusTypeOK'
  BY <1>1, <1>2 DEF BusIInv, BusTypeOK, RespondEnd
<1>4. GuestInv' /\ UnitInv' /\ BusInv'
  BY DEF BusIInv, BusTypeOK, Units, Guests, GuestInv, Write, UnitInv, BusInv, RespondEnd,
       packet_state
<1>5. AnswerInv' /\ PacketInv' /\ DataInv' /\ ExecInv' /\ LeftInv'
  BY DEF BusIInv, BusTypeOK, Units, Guests, AnswerInv, PacketInv, DataInv, ExecInv, Executing,
       Write, Device!Accepts, LeftInv, RespondEnd, packet_state
<1> QED
  BY <1>3, <1>4, <1>5 DEF BusIInv

LEMMA RemoveKeeps ==
    ASSUME BusAssumption, BusIInv, clemens_remove_smartport_disk
    PROVE  BusIInv'
<1>1. unit' \in Units
  BY DEF BusIInv, BusTypeOK, clemens_remove_smartport_disk, Units
<1>2. guest' \in Guests
  BY DEF BusIInv, BusTypeOK, clemens_remove_smartport_disk
<1>3. BusTypeOK'
  BY <1>1, <1>2 DEF BusIInv, BusTypeOK, clemens_remove_smartport_disk, Guests
<1>4. GuestInv' /\ UnitInv' /\ BusInv'
  BY DEF BusIInv, BusTypeOK, Units, Guests, GuestInv, Write, UnitInv, BusInv,
       clemens_remove_smartport_disk
<1>5. AnswerInv' /\ PacketInv' /\ DataInv' /\ ExecInv'
  BY DEF BusIInv, BusTypeOK, Units, Guests, AnswerInv, PacketInv, DataInv, ExecInv, Executing,
       Write, Device!Accepts, clemens_remove_smartport_disk
<1>6. LeftInv'
  BY Zeroes, RecordParts DEF BusIInv, BusTypeOK, Units, Guests, LeftInv, Executing, Write, ExecInv,
       Device!Accepts, clemens_remove_smartport_disk
<1> QED
  BY <1>3, <1>4, <1>5, <1>6 DEF BusIInv

LEMMA AssignKeeps ==
    ASSUME BusAssumption, BusIInv, clemens_assign_smartport_disk
    PROVE  BusIInv'
<1>1. unit' \in Units
  BY EnabledTypes DEF BusIInv, BusTypeOK, clemens_assign_smartport_disk
<1>2. guest' \in Guests
  BY DEF BusIInv, BusTypeOK, clemens_assign_smartport_disk
<1>3. BusTypeOK'
  BY <1>1, <1>2, Zeroes DEF BusIInv, BusTypeOK, clemens_assign_smartport_disk, BusAssumption
<1>4. GuestInv' /\ UnitInv' /\ BusInv'
  BY DEF BusIInv, BusTypeOK, Units, Guests, GuestInv, Write, UnitInv, BusInv,
       clemens_assign_smartport_disk, Enabled, packet_state
<1>5. AnswerInv' /\ PacketInv' /\ ExecInv' /\ LeftInv'
  BY DEF BusIInv, BusTypeOK, Units, Guests, AnswerInv, PacketInv, ExecInv, Executing, Write,
       Device!Accepts, LeftInv, clemens_assign_smartport_disk, Enabled, packet_state
<1>6. DataInv'
  BY Zeroes, RecordParts DEF BusIInv, BusTypeOK, Units, Guests, DataInv, UnitInv,
       clemens_assign_smartport_disk, Enabled, packet_state
<1> QED
  BY <1>3, <1>4, <1>5, <1>6 DEF BusIInv

LEMMA SendKeeps ==
    ASSUME BusAssumption, BusIInv, Send
    PROVE  BusIInv'
<1>1. CASE device
  BY <1>1, SendCases, SendSameKeeps, SendBeginsKeeps, SendBadKeeps, SendAskewKeeps,
       SendHeaderKeeps, SendContentsKeeps, SendEndKeeps DEF Outcome
<1>2. CASE ~device
  BY <1>2, SendAloneKeeps
<1> QED
  BY <1>1, <1>2

LEMMA ReqLowKeeps ==
    ASSUME BusAssumption, BusIInv, ReqLow
    PROVE  BusIInv'
<1>1. Low
  BY DEF ReqLow, Low
<1>2. BecomeReady \/ ExpectData \/ (unit.packet_state = "EXECUTING" /\ handle_packet)
  BY DEF ReqLow
<1> QED
  BY <1>1, <1>2, BecomeReadyKeeps, ExpectDataKeeps, INITKeeps, ShortCommandKeeps,
       READBLOCKKeeps, WRITEBLOCKKeeps, UNKNOWNKeeps, WriteDataKeeps, StrayDataKeeps
     DEF handle_packet

LEMMA BusStaysWell == BusAssumption /\ BusIInv /\ [BusNext]_busVars => BusIInv'
<1> SUFFICES ASSUME BusAssumption, BusIInv, [BusNext]_busVars PROVE BusIInv'
  OBVIOUS
<1>1. CASE UNCHANGED busVars
  BY <1>1 DEF busVars, BusIInv, BusTypeOK, GuestInv, UnitInv, BusInv, AnswerInv, PacketInv,
       DataInv, ExecInv, LeftInv, Executing, Write, Device!Accepts
<1>2. ASSUME NEW r \in Requests, Begin(r) PROVE BusIInv'
  BY <1>2, BeginKeeps
<1> QED
  BY <1>1, <1>2, EnableKeeps, RaiseReqKeeps, SendKeeps, LowerReqKeeps, TakeKeeps,
       GiveUpKeeps, BusResetKeeps, ReqLowKeeps, RespondPartKeeps, RespondEndKeeps,
       RemoveKeeps, AssignKeeps DEF BusNext

LEMMA Assumed == BusAssumption => BusAssumption'
BY DEF BusAssumption

(* What guest and unit know of each other, after every step of either and  *)
(* of the user.                                                            *)
THEOREM BusInvariant == BusAssumption /\ BusSpec => []BusIInv
<1>1. BusAssumption /\ BusInit => BusAssumption /\ BusIInv
  BY BusStartsWell
<1>2. (BusAssumption /\ BusIInv) /\ [BusNext]_busVars => (BusAssumption /\ BusIInv)'
  BY BusStaysWell, Assumed
<1> QED
  BY <1>1, <1>2, PTL DEF BusSpec

(* The types of unit, guest, disk and history.                             *)
THEOREM BusTypeCorrect == BusAssumption /\ BusSpec => []BusTypeOK
<1>1. BusIInv => BusTypeOK
  BY DEF BusIInv
<1> QED
  BY <1>1, BusInvariant, PTL

-----------------------------------------------------------------------------
(* The block device.                                                       *)

LEMMA EnableMaps ==
    ASSUME BusAssumption, BusIInv, Enable
    PROVE  Device!Forget \/ UNCHANGED Device!vars
BY DEF BusIInv, BusTypeOK, Units, Guests, GuestInv, Write, BusInv, Enable, Enabled,
     packet_state, Answering, Device!vars, Device!Forget

LEMMA BeginMaps ==
    ASSUME BusAssumption, BusIInv, NEW r \in Requests, Begin(r)
    PROVE  Device!Ask(r)
BY DEF BusIInv, BusTypeOK, Units, Guests, GuestInv, Write, Begin, Answering, Device!Ask

LEMMA RaiseReqMaps ==
    ASSUME BusAssumption, BusIInv, RaiseReq
    PROVE  UNCHANGED Device!vars
BY DEF BusIInv, BusTypeOK, Units, Guests, GuestInv, Write, RaiseReq, ack_hi, Answering,
     Device!vars, BusAssumption

LEMMA SendAloneMaps ==
    ASSUME BusAssumption, BusIInv, Send, ~device
    PROVE  UNCHANGED Device!vars
BY DEF BusIInv, BusTypeOK, Units, Guests, Send, Answering, Device!vars

LEMMA SendSameMaps ==
    ASSUME BusAssumption, BusIInv, Send, device, unit' = unit,
           unit.packet_state \notin {"PACKET_CONTENTS", "PACKET_END"}
    PROVE  UNCHANGED Device!vars
BY DEF BusIInv, BusTypeOK, Units, Guests, Send, Answering, Device!vars

LEMMA SendBeginsMaps ==
    ASSUME BusAssumption, BusIInv, Send, device,
           unit.packet_state \in {"READY", "EXPECT_DATA"},
           unit' = packet_state(unit, "PACKET")
    PROVE  UNCHANGED Device!vars
BY DEF BusIInv, BusTypeOK, Units, Guests, Send, packet_state, Answering, Device!vars

LEMMA SendBadMaps ==
    ASSUME BusAssumption, BusIInv, Send, device,
           unit.packet_state \in {"READY", "EXPECT_DATA", "PACKET", "PACKET_CONTENTS", "PACKET_END"},
           unit' = packet_state(unit, "PACKET_BAD")
    PROVE  UNCHANGED Device!vars
BY DEF BusIInv, BusTypeOK, Units, Guests, Send, packet_state, Answering, Device!vars

LEMMA SendAskewMaps ==
    ASSUME BusAssumption, BusIInv, Send, device,
           unit.packet_state \in {"PACKET", "PACKET_CONTENTS", "PACKET_END"},
           unit' = [unit EXCEPT !.askew = TRUE]
    PROVE  UNCHANGED Device!vars
BY DEF BusIInv, BusTypeOK, Units, Guests, Send, Answering, Device!vars

LEMMA SendHeaderMaps ==
    ASSUME BusAssumption, BusIInv, Send, device, unit.packet_state = "PACKET",
           PacketParts[guest.next] = "header", ~unit.askew,
           unit' = packet_state([unit EXCEPT !.packet = OfGuest], "PACKET_CONTENTS")
    PROVE  UNCHANGED Device!vars
BY DEF BusIInv, BusTypeOK, Units, Guests, Send, packet_state, Answering, Device!vars, OfGuest

LEMMA SendContentsMaps ==
    ASSUME BusAssumption, BusIInv, Send, device, unit.packet_state = "PACKET_CONTENTS",
           PacketParts[guest.next] = "contents", ~unit.askew,
           unit' = packet_state(unit, "PACKET_END")
    PROVE  UNCHANGED Device!vars
BY DEF BusIInv, BusTypeOK, Units, Guests, Send, packet_state, Answering, Device!vars

LEMMA SendEndMaps ==
    ASSUME BusAssumption, BusIInv, Send, device, unit.packet_state = "PACKET_END",
           PacketParts[guest.next] = "end", ~unit.askew, unit' = packet_end(unit)
    PROVE  UNCHANGED Device!vars
BY DEF BusIInv, BusTypeOK, Units, Guests, Send, packet_end, packet_state, Answering,
     Device!vars

LEMMA LowerReqMaps ==
    ASSUME BusAssumption, BusIInv, LowerReq
    PROVE  UNCHANGED Device!vars
BY DEF BusIInv, BusTypeOK, Units, Guests, UnitInv, LowerReq, ack_hi, Answering, Device!vars

LEMMA TakeMaps ==
    ASSUME BusAssumption, BusIInv, Take
    PROVE  Device!Done
BY DEF BusIInv, BusTypeOK, Units, Guests, Take, Answering, Device!Done

LEMMA GiveUpMaps ==
    ASSUME BusAssumption, BusIInv, GiveUp
    PROVE  Device!Done
BY DEF BusIInv, BusTypeOK, Units, Guests, GiveUp, Enabled, packet_state, Answering,
     Device!Done

LEMMA BusResetMaps ==
    ASSUME BusAssumption, BusIInv, BusReset
    PROVE  Device!Reset
BY DEF BusIInv, BusTypeOK, Units, Guests, GuestInv, Write, UnitInv, BusReset, Answering,
     Device!Reset

LEMMA BecomeReadyMaps ==
    ASSUME BusAssumption, BusIInv, Low, BecomeReady
    PROVE  UNCHANGED Device!vars
BY DEF BusIInv, BusTypeOK, Units, Guests, LeftInv, Executing, Write, Low, BecomeReady,
     packet_state, Answering, Device!vars

LEMMA ExpectDataMaps ==
    ASSUME BusAssumption, BusIInv, Low, ExpectData
    PROVE  UNCHANGED Device!vars
BY DEF BusIInv, BusTypeOK, Units, Guests, LeftInv, Executing, Write, Low, ExpectData,
     packet_state, Answering, Device!vars

LEMMA INITServes ==
    ASSUME BusAssumption, BusIInv, Low, unit.packet_state = "EXECUTING", INIT, left = Nil
    PROVE  Device!Serve
BY DEF BusIInv, BusTypeOK, Units, Guests, BusInv, ExecInv, Executing, Write, Device!Accepts,
     Low, INIT, Commanded, encode_response, packet_state, Answering, Device!Serve,
     Device!Serving, Device!After, Device!Answer, Device!OfBlocks

LEMMA INITServesLeft ==
    ASSUME BusAssumption, BusIInv, Low, unit.packet_state = "EXECUTING", INIT, left # Nil
    PROVE  Device!ServeLeft
BY DEF BusIInv, BusTypeOK, Units, Guests, GuestInv, Write, LeftInv, Executing, Low, INIT,
     Commanded, encode_response, packet_state, Answering, Device!ServeLeft,
     Device!Serving, Device!After, Device!Answer, Device!OfBlocks

LEMMA ShortCommandServes ==
    ASSUME BusAssumption, BusIInv, Low, unit.packet_state = "EXECUTING", ShortCommand, left = Nil
    PROVE  Device!Serve
BY DEF BusIInv, BusTypeOK, Units, Guests, BusInv, ExecInv, Executing, Write, Device!Accepts,
     Low, ShortCommand, AsksControlBlock, Commanded, encode_response, packet_state, Answering, Device!Serve,
     Device!Serving, Device!After, Device!Answer, Device!OfBlocks

LEMMA ShortCommandServesLeft ==
    ASSUME BusAssumption, BusIInv, Low, unit.packet_state = "EXECUTING", ShortCommand, left # Nil
    PROVE  Device!ServeLeft
BY DEF BusIInv, BusTypeOK, Units, Guests, GuestInv, Write, LeftInv, Executing, Low, ShortCommand, AsksControlBlock,
     Commanded, encode_response, packet_state, Answering, Device!ServeLeft,
     Device!Serving, Device!After, Device!Answer, Device!OfBlocks

LEMMA READBLOCKServes ==
    ASSUME BusAssumption, BusIInv, Low, unit.packet_state = "EXECUTING", READBLOCK,
           left = Nil
    PROVE  Device!Serve
BY DEF BusIInv, BusTypeOK, Units, Guests, BusInv, ExecInv, Executing, Write, Device!Accepts,
     Low, READBLOCK, Commanded, Limited, encode_response, packet_state, Answering,
     Device!Serve, Device!Serving, Device!After, Device!Answer, Device!OfBlocks

LEMMA READBLOCKServesLeft ==
    ASSUME BusAssumption, BusIInv, Low, unit.packet_state = "EXECUTING", READBLOCK,
           left # Nil
    PROVE  Device!ServeLeft
BY DEF BusIInv, BusTypeOK, Units, Guests, GuestInv, Write, LeftInv, Executing, Low, READBLOCK,
     Commanded, Limited, encode_response, packet_state, Answering, Device!ServeLeft,
     Device!Serving, Device!After, Device!Answer, Device!OfBlocks

LEMMA WRITEBLOCKMaps ==
    ASSUME BusAssumption, BusIInv, Low, unit.packet_state = "EXECUTING", WRITEBLOCK
    PROVE  Device!Forget \/ UNCHANGED Device!vars
BY DEF BusIInv, BusTypeOK, Units, Guests, Low, WRITEBLOCK, Commanded, packet_state, Answering,
     Device!vars, Device!Forget

LEMMA UNKNOWNMaps ==
    ASSUME BusAssumption, BusIInv, Low, unit.packet_state = "EXECUTING", UNKNOWN
    PROVE  Device!Forget \/ UNCHANGED Device!vars
BY DEF BusIInv, BusTypeOK, Units, Guests, Low, UNKNOWN, Commanded, packet_state, Answering,
     Device!vars, Device!Forget

LEMMA StrayDataMaps ==
    ASSUME BusAssumption, BusIInv, Low, unit.packet_state = "EXECUTING", StrayData
    PROVE  UNCHANGED Device!vars
BY DEF BusIInv, BusTypeOK, Units, Guests, Low, StrayData, Commanded, packet_state, Answering,
     Device!vars

LEMMA RespondPartMaps ==
    ASSUME BusAssumption, BusIInv, RespondPart
    PROVE  UNCHANGED Device!vars
BY DEF BusIInv, BusTypeOK, Units, Guests, RespondPart, Answering, Device!vars

LEMMA RespondEndMaps ==
    ASSUME BusAssumption, BusIInv, RespondEnd
    PROVE  UNCHANGED Device!vars
BY DEF BusIInv, BusTypeOK, Units, Guests, GuestInv, Write, AnswerInv, RespondEnd, packet_state,
     Answering, Device!vars

LEMMA RemoveMaps ==
    ASSUME BusAssumption, BusIInv, clemens_remove_smartport_disk
    PROVE  Device!Eject
BY DEF BusIInv, BusTypeOK, Units, Guests, clemens_remove_smartport_disk, Answering,
     Device!Eject

LEMMA AssignMaps ==
    ASSUME BusAssumption, BusIInv, clemens_assign_smartport_disk
    PROVE  Device!Insert
BY DEF BusIInv, BusTypeOK, Units, Guests, GuestInv, Write, BusInv,
     clemens_assign_smartport_disk, Enabled, packet_state, Answering, Device!Insert,
     BusAssumption

LEMMA WritesBlock ==
    ASSUME BusAssumption, BusIInv, Low, WriteData, unit.packet_state = "EXECUTING",
           NEW r \in Requests, r = unit.packet.request, Write(r)
    PROVE  blocks' = Device!After(r, current_block_index, blocks)
BY DEF BusIInv, BusTypeOK, WriteData, Write, Device!After

LEMMA WriteDataServes ==
    ASSUME BusAssumption, BusIInv, Low, unit.packet_state = "EXECUTING", WriteData, left = Nil
    PROVE  Device!Serve
<1>1. /\ guest.request \in Requests /\ unit.packet.request = guest.request
      /\ Write(guest.request) /\ current_block_index = guest.request.block
      /\ Device!Accepts(unit.unit_id, guest.request)
  BY DEF BusIInv, BusTypeOK, Guests, BusInv, ExecInv, Executing, Low, WriteData
<1>2. blocks' = Device!After(guest.request, guest.request.block, blocks)
  BY <1>1, WritesBlock
<1> QED
  BY <1>1, <1>2 DEF BusIInv, BusTypeOK, Units, Guests, BusInv, ExecInv, Write, Low, WriteData, Limited,
     encode_response, packet_state, Answering, Device!Serve, Device!Serving, Device!Answer,
     Device!OfBlocks

LEMMA WriteDataServesLeft ==
    ASSUME BusAssumption, BusIInv, Low, unit.packet_state = "EXECUTING", WriteData, left # Nil
    PROVE  Device!ServeLeft
<1>1. /\ left \in Requests /\ unit.packet.request = left
      /\ Write(left) /\ current_block_index \in {0, left.block}
  BY DEF BusIInv, BusTypeOK, LeftInv, Executing, WriteData
<1>2. blocks' = Device!After(left, current_block_index, blocks)
  BY <1>1, WritesBlock
<1> QED
  BY <1>1, <1>2 DEF BusIInv, BusTypeOK, Units, Guests, GuestInv, Write, Low, WriteData, Limited,
     encode_response, packet_state, Answering, Device!ServeLeft, Device!Serving, Device!Answer,
     Device!OfBlocks

LEMMA SendMaps ==
    ASSUME BusAssumption, BusIInv, Send
    PROVE  [Device!Next]_(Device!vars)
<1>1. CASE device
  BY <1>1, SendCases, SendSameMaps, SendBeginsMaps, SendBadMaps, SendAskewMaps,
       SendHeaderMaps, SendContentsMaps, SendEndMaps DEF Outcome
<1>2. CASE ~device
  BY <1>2, SendAloneMaps
<1> QED
  BY <1>1, <1>2

LEMMA ReqLowMaps ==
    ASSUME BusAssumption, BusIInv, ReqLow
    PROVE  [Device!Next]_(Device!vars)
<1>1. Low
  BY DEF ReqLow, Low
<1>2. CASE BecomeReady \/ ExpectData
  BY <1>1, <1>2, BecomeReadyMaps, ExpectDataMaps
<1>3. ASSUME unit.packet_state = "EXECUTING", handle_packet PROVE [Device!Next]_(Device!vars)
  <2>1. CASE left = Nil
    BY <1>1, <1>3, <2>1, INITServes, ShortCommandServes, READBLOCKServes, WriteDataServes,
         WRITEBLOCKMaps, UNKNOWNMaps, StrayDataMaps DEF handle_packet, Device!Next
  <2>2. CASE left # Nil
    BY <1>1, <1>3, <2>2, INITServesLeft, ShortCommandServesLeft, READBLOCKServesLeft,
         WriteDataServesLeft, WRITEBLOCKMaps, UNKNOWNMaps, StrayDataMaps
       DEF handle_packet, Device!Next
  <2> QED
    BY <2>1, <2>2
<1> QED
  BY <1>2, <1>3 DEF ReqLow

LEMMA StepsAreBlockDevice ==
    BusAssumption /\ BusIInv /\ [BusNext]_busVars => [Device!Next]_(Device!vars)
<1> SUFFICES ASSUME BusAssumption, BusIInv, [BusNext]_busVars PROVE [Device!Next]_(Device!vars)
  OBVIOUS
<1>1. CASE UNCHANGED busVars
  BY <1>1 DEF busVars, Device!vars, Answering
<1>2. ASSUME NEW r \in Requests, Begin(r) PROVE Device!Next
  BY <1>2, BeginMaps DEF Device!Next
<1>3. CASE Enable \/ Take \/ GiveUp \/ BusReset
  BY <1>3, EnableMaps, TakeMaps, GiveUpMaps, BusResetMaps DEF Device!Next
<1>4. CASE clemens_remove_smartport_disk \/ clemens_assign_smartport_disk
  BY <1>4, RemoveMaps, AssignMaps DEF Device!Next
<1>5. CASE RaiseReq \/ LowerReq \/ RespondPart \/ RespondEnd
  BY <1>5, RaiseReqMaps, LowerReqMaps, RespondPartMaps, RespondEndMaps
<1>6. CASE Send \/ ReqLow
  BY <1>6, SendMaps, ReqLowMaps
<1> QED
  BY <1>1, <1>2, <1>3, <1>4, <1>5, <1>6 DEF BusNext

LEMMA StartsIdle == BusAssumption /\ BusInit => Device!Init
BY DEF BusAssumption, BusInit, Device!Init, Answering

(* Whatever is broken off, given up, reset, asked of another or taken out: *)
(* a request is served at most once, as a whole and while its guest stands *)
(* by it, a write changes the block it names, and an answer is that of the *)
(* request; but for one left behind in a unit whose disk was exchanged.    *)
THEOREM UnitIsBlockDevice == BusAssumption /\ BusSpec => ImplementsBlockDevice
<1>1. BusAssumption /\ BusIInv /\ [BusNext]_busVars => (BusAssumption /\ BusIInv)'
  BY BusStaysWell, Assumed
<1>2. BusAssumption /\ BusInit => BusIInv /\ Device!Init
  BY BusStartsWell, StartsIdle
<1> QED
  BY <1>1, <1>2, StepsAreBlockDevice, PTL DEF BusSpec, ImplementsBlockDevice, Device!Spec

-----------------------------------------------------------------------------
(* The keyboard.  Of a key that no full queue and no reset has cost an     *)
(* event, the last event that waits tells whether the user holds it; so a  *)
(* modifier is on for a key that is held or will be told otherwise, and a  *)
(* key that is held and has no event waiting has turned its own on.        *)
Fields == {"queue", "modifiers", "repeating", "reset", "latch", "strobe", "asciikey",
           "clipboard", "missed", "lost"}

Pending(q) == {q[i].key : i \in DOMAIN q}
Latest(q, i) == \A j \in DOMAIN q : j > i => q[j].key # q[i].key
Sole(k) == \A j \in Keyboard!Keys : Keyboard!ModifierOf(j) = Keyboard!ModifierOf(k) => j = k

LatestTells(q, held, gone) ==
    \A i \in DOMAIN q :
       Latest(q, i) => q[i].key \in gone \/ (q[i].down <=> q[i].key \in held)

OnlyHeld(q, mods, held, gone) ==
    \A m \in mods : \E k \in DOMAIN Modifiers :
       Modifiers[k] = m /\ k \in held \union gone \union Pending(q)

HeldIsOn(q, mods, held, gone) ==
    \A k \in held \intersect DOMAIN Modifiers :
       k \notin gone \union Pending(q) /\ Sole(k) => Modifiers[k] \in mods

HeldRepeats(key, held, gone) ==
    key # None => key \in Letters /\ key \in held \union gone

KeysKnown(r, held) ==
    /\ DOMAIN r = Fields /\ r.queue \in Seq(Keyboard!Events)
    /\ held \subseteq Keyboard!Keys /\ r.missed \subseteq Keyboard!Keys
    /\ LatestTells(r.queue, held, r.missed)
    /\ OnlyHeld(r.queue, r.modifiers, held, r.missed)
    /\ HeldIsOn(r.queue, r.modifiers, held, r.missed)
    /\ HeldRepeats(r.repeating, held, r.missed)

KeysInv == KeysKnown(Keyboard!Now, states)

LEMMA Appended ==
    ASSUME NEW q \in Seq(Keyboard!Events), NEW e \in Keyboard!Events
    PROVE  /\ Append(q, e) \in Seq(Keyboard!Events)
           /\ Pending(Append(q, e)) = Pending(q) \union {e.key}
           /\ \A i \in DOMAIN Append(q, e) : Latest(Append(q, e), i) =>
                 \/ Append(q, e)[i] = e
                 \/ /\ i \in DOMAIN q /\ Append(q, e)[i] = q[i] /\ Latest(q, i)
                    /\ q[i].key # e.key
<1>1. /\ Append(q, e) \in Seq(Keyboard!Events) /\ Len(Append(q, e)) = Len(q) + 1
      /\ DOMAIN Append(q, e) = 1 .. Len(q) + 1 /\ DOMAIN q = 1 .. Len(q) /\ Len(q) \in Nat
      /\ \A i \in DOMAIN q : Append(q, e)[i] = q[i]
      /\ Append(q, e)[Len(q) + 1] = e
  OBVIOUS
<1> DEFINE t == Append(q, e)
<1> HIDE DEF t
<1>2. t \in Seq(Keyboard!Events)
  BY <1>1 DEF t
<1>3. /\ DOMAIN t = 1 .. Len(q) + 1 /\ DOMAIN q = 1 .. Len(q) /\ Len(q) \in Nat
      /\ \A i \in DOMAIN q : t[i] = q[i]
      /\ t[Len(q) + 1] = e
  BY <1>1 DEF t
<1>4. Pending(t) = Pending(q) \union {e.key}
  <2>1. ASSUME NEW k \in Pending(t) PROVE k \in Pending(q) \union {e.key}
    <3>1. PICK i \in DOMAIN t : k = t[i].key
      BY DEF Pending
    <3>2. i \in DOMAIN q \/ i = Len(q) + 1
      BY <1>3
    <3> QED
      BY <3>1, <3>2, <1>3 DEF Pending
  <2>2. ASSUME NEW k \in Pending(q) PROVE k \in Pending(t)
    <3>1. PICK i \in DOMAIN q : k = q[i].key
      BY DEF Pending
    <3>2. i \in DOMAIN t /\ t[i] = q[i]
      BY <1>3
    <3> QED
      BY <3>1, <3>2 DEF Pending
  <2>3. e.key \in Pending(t)
    <3>1. Len(q) + 1 \in DOMAIN t
      BY <1>3
    <3> QED
      BY <3>1, <1>3 DEF Pending
  <2> QED
    BY <2>1, <2>2, <2>3
<1>5. ASSUME NEW i \in DOMAIN t, Latest(t, i), i # Len(q) + 1
      PROVE  i \in DOMAIN q /\ t[i] = q[i] /\ Latest(q, i) /\ q[i].key # e.key
  <2>1. i \in DOMAIN q /\ Len(q) + 1 \in DOMAIN t /\ Len(q) + 1 > i
    BY <1>3, <1>5
  <2>2. t[i] = q[i] /\ q[i].key # e.key
    BY <2>1, <1>3, <1>5 DEF Latest
  <2>3. ASSUME NEW j \in DOMAIN q, j > i PROVE q[j].key # q[i].key
    <3>1. j \in DOMAIN t /\ t[j] = q[j]
      BY <1>3
    <3> QED
      BY <3>1, <2>2, <2>3, <1>5 DEF Latest
  <2> QED
    BY <2>1, <2>2, <2>3 DEF Latest
<1> QED
  BY <1>2, <1>3, <1>4, <1>5 DEF t

LEMMA Taken ==
    ASSUME NEW q \in Seq(Keyboard!Events), q # << >>
    PROVE  /\ Tail(q) \in Seq(Keyboard!Events)
           /\ Head(q) \in Keyboard!Events /\ 1 \in DOMAIN q /\ Head(q) = q[1]
           /\ Pending(q) = Pending(Tail(q)) \union {Head(q).key}
           /\ \A i \in DOMAIN Tail(q) : Latest(Tail(q), i) =>
                 i + 1 \in DOMAIN q /\ Tail(q)[i] = q[i + 1] /\ Latest(q, i + 1)
           /\ Head(q).key \notin Pending(Tail(q)) => Latest(q, 1)
<1> DEFINE t == Tail(q)
<1>1. /\ t \in Seq(Keyboard!Events) /\ Head(q) \in Keyboard!Events /\ Head(q) = q[1]
      /\ Len(q) \in Nat \ {0} /\ Len(t) = Len(q) - 1
      /\ DOMAIN t = 1 .. Len(q) - 1 /\ DOMAIN q = 1 .. Len(q)
      /\ \A i \in DOMAIN t : t[i] = q[i + 1]
  OBVIOUS
<1> HIDE DEF t
<1>2. ASSUME NEW j \in DOMAIN q, j > 1 PROVE j - 1 \in DOMAIN t /\ q[j] = t[j - 1]
  <2>1. j - 1 \in DOMAIN t /\ j - 1 + 1 = j
    BY <1>1, <1>2
  <2> QED
    BY <2>1, <1>1
<1>3. Pending(q) = Pending(t) \union {Head(q).key}
  <2>1. ASSUME NEW k \in Pending(q) PROVE k \in Pending(t) \union {Head(q).key}
    <3>1. PICK i \in DOMAIN q : k = q[i].key
      BY DEF Pending
    <3>2. i = 1 \/ i > 1
      BY <1>1
    <3> QED
      BY <3>1, <3>2, <1>1, <1>2 DEF Pending
  <2>2. ASSUME NEW k \in Pending(t) PROVE k \in Pending(q)
    <3>1. PICK i \in DOMAIN t : k = t[i].key
      BY DEF Pending
    <3>2. i + 1 \in DOMAIN q /\ t[i] = q[i + 1]
      BY <1>1
    <3> QED
      BY <3>1, <3>2 DEF Pending
  <2>3. Head(q).key \in Pending(q)
    <3>1. 1 \in DOMAIN q
      BY <1>1
    <3> QED
      BY <3>1, <1>1 DEF Pending
  <2> QED
    BY <2>1, <2>2, <2>3
<1>4. ASSUME NEW i \in DOMAIN t, Latest(t, i)
      PROVE  i + 1 \in DOMAIN q /\ t[i] = q[i + 1] /\ Latest(q, i + 1)
  <2>1. i + 1 \in DOMAIN q /\ t[i] = q[i + 1]
    BY <1>1
  <2>2. ASSUME NEW j \in DOMAIN q, j > i + 1 PROVE q[j].key # q[i + 1].key
    <3>1. j - 1 \in DOMAIN t /\ j > 1 /\ j - 1 > i
      BY <1>1, <2>2
    <3> QED
      BY <3>1, <2>1, <1>2, <1>4 DEF Latest
  <2> QED
    BY <2>1, <2>2 DEF Latest
<1>5. Head(q).key \notin Pending(t) => Latest(q, 1)
  BY <1>1, <1>2 DEF Latest, Pending
<1>6. 1 \in DOMAIN q
  BY <1>1
<1> QED
  BY <1>1, <1>3, <1>4, <1>5, <1>6 DEF t

(* The keyboard hands an event over: the register takes note of the key,   *)
(* and so the last of its events to be handed over leaves it right.        *)
LEMMA ModifierKeys ==
    ASSUME NEW k \in DOMAIN Modifiers
    PROVE  /\ Keyboard!ModifierOf(k) = Modifiers[k] /\ Modifiers[k] # None
           /\ k \in Keyboard!Keys /\ k # RESET
BY DevicesAssumption DEF Keyboard!KeyboardAssumption, Keyboard!ModifierOf, Keyboard!Keys

LEMMA OtherKeys ==
    ASSUME NEW k, k \notin DOMAIN Modifiers PROVE Keyboard!ModifierOf(k) = None
BY DEF Keyboard!ModifierOf

LEMMA SameKnown ==
    ASSUME NEW r, NEW s, NEW held, KeysKnown(r, held), DOMAIN s = Fields,
           s.queue = r.queue, s.modifiers = r.modifiers, s.missed = r.missed,
           s.repeating = r.repeating
    PROVE  KeysKnown(s, held)
BY DEF KeysKnown

LEMMA SentKnown ==
    ASSUME NEW r, NEW held, NEW e, KeysKnown(r, held)
    PROVE  LET s == Keyboard!keyb_send_to_host(r, e)
           IN  KeysKnown(s, held) /\ s.queue = r.queue
<1> DEFINE s == Keyboard!keyb_send_to_host(r, e)
<1>1. DOMAIN r = Fields
  BY DEF KeysKnown
<1>2. /\ DOMAIN s = Fields /\ s.queue = r.queue /\ s.modifiers = r.modifiers
      /\ s.missed = r.missed /\ s.repeating = r.repeating
  BY <1>1 DEF Keyboard!keyb_send_to_host, Fields
<1> HIDE DEF s
<1>3. KeysKnown(s, held)
  BY <1>2, SameKnown
<1> QED
  BY <1>2, <1>3 DEF s

(* Without the register, for a key that is no modifier.                    *)
LEMMA DroppedKnown ==
    ASSUME NEW r, NEW held, KeysKnown(r, held), r.queue # << >>,
           Head(r.queue).key \notin DOMAIN Modifiers
    PROVE  KeysKnown(Keyboard!unqueue_key(r), held)
<1> DEFINE s == Keyboard!unqueue_key(r)
           q == r.queue
           t == Tail(q)
<1>1. DOMAIN r = Fields /\ q \in Seq(Keyboard!Events)
  BY DEF KeysKnown
<1>2. /\ DOMAIN s = Fields /\ s.queue = t /\ s.modifiers = r.modifiers
      /\ s.missed = r.missed /\ s.repeating = r.repeating
  BY <1>1 DEF Keyboard!unqueue_key, Fields
<1> HIDE DEF s, q
<1>3. /\ t \in Seq(Keyboard!Events) /\ Pending(q) = Pending(t) \union {Head(q).key}
      /\ \A i \in DOMAIN t : Latest(t, i) =>
            i + 1 \in DOMAIN q /\ t[i] = q[i + 1] /\ Latest(q, i + 1)
  BY <1>1, Taken DEF q
<1> HIDE DEF t
<1>4. /\ LatestTells(q, held, r.missed) /\ OnlyHeld(q, r.modifiers, held, r.missed)
      /\ HeldIsOn(q, r.modifiers, held, r.missed) /\ HeldRepeats(r.repeating, held, r.missed)
      /\ Head(q).key \notin DOMAIN Modifiers
      /\ held \subseteq Keyboard!Keys /\ r.missed \subseteq Keyboard!Keys
  BY DEF KeysKnown, q
<1>5. LatestTells(t, held, r.missed)
  BY <1>3, <1>4 DEF LatestTells
<1>6. OnlyHeld(t, r.modifiers, held, r.missed)
  BY <1>3, <1>4 DEF OnlyHeld
<1>7. HeldIsOn(t, r.modifiers, held, r.missed)
  BY <1>3, <1>4 DEF HeldIsOn
<1> QED
  BY <1>2, <1>3, <1>4, <1>5, <1>6, <1>7 DEF KeysKnown, s

LEMMA ParsedKnown ==
    ASSUME NEW r, NEW held, KeysKnown(r, held), r.queue # << >>,
           Head(r.queue).key \in DOMAIN Modifiers
    PROVE  KeysKnown(Keyboard!keyb_parse(Keyboard!unqueue_key(r), Head(r.queue)), held)
<1> DEFINE q == r.queue
           t == Tail(q)
           e == Head(q)
           m == Modifiers[e.key]
           s == Keyboard!keyb_parse(Keyboard!unqueue_key(r), e)
           mods == IF e.down THEN r.modifiers \union {m} ELSE r.modifiers \ {m}
<1>1. DOMAIN r = Fields /\ q \in Seq(Keyboard!Events)
  BY DEF KeysKnown
<1>2. e.key \in DOMAIN Modifiers /\ m # None /\ Keyboard!ModifierOf(e.key) = m
      /\ e.key \in Keyboard!Keys
  BY ModifierKeys
<1>3. /\ DOMAIN s = Fields /\ s.queue = t /\ s.modifiers = mods
      /\ s.missed = r.missed /\ s.repeating = r.repeating
  <2> DEFINE u == Keyboard!unqueue_key(r)
  <2>1. /\ DOMAIN u = Fields /\ u.queue = t /\ u.modifiers = r.modifiers
        /\ u.missed = r.missed /\ u.repeating = r.repeating
    BY <1>1 DEF Keyboard!unqueue_key, Fields
  <2> HIDE DEF u, e, m, t
  <2>2. Keyboard!keyb_parse(u, e) =
           [u EXCEPT !.modifiers = IF e.down THEN @ \union {m} ELSE @ \ {m}]
    BY <1>2 DEF Keyboard!keyb_parse
  <2>3. s = Keyboard!keyb_parse(u, e)
    BY DEF u, e
  <2> HIDE DEF s
  <2> QED
    BY <2>1, <2>2, <2>3 DEF Fields
<1> HIDE DEF s
<1>4. /\ LatestTells(q, held, r.missed) /\ OnlyHeld(q, r.modifiers, held, r.missed)
      /\ HeldIsOn(q, r.modifiers, held, r.missed) /\ HeldRepeats(r.repeating, held, r.missed)
      /\ held \subseteq Keyboard!Keys /\ r.missed \subseteq Keyboard!Keys
  BY DEF KeysKnown
<1>5. /\ t \in Seq(Keyboard!Events) /\ Pending(q) = Pending(t) \union {e.key}
      /\ \A i \in DOMAIN t : Latest(t, i) =>
            i + 1 \in DOMAIN q /\ t[i] = q[i + 1] /\ Latest(q, i + 1)
      /\ 1 \in DOMAIN q /\ e = q[1] /\ (e.key \notin Pending(t) => Latest(q, 1))
  BY <1>1, Taken
<1> HIDE DEF q, t, e, m
<1>6. e.key \notin Pending(t) => e.key \in r.missed \/ (e.down <=> e.key \in held)
  BY <1>4, <1>5 DEF LatestTells
<1>7. LatestTells(t, held, r.missed)
  BY <1>4, <1>5 DEF LatestTells
<1>8. OnlyHeld(t, mods, held, r.missed)
  <2> SUFFICES ASSUME NEW n \in mods
               PROVE  \E k \in DOMAIN Modifiers :
                         Modifiers[k] = n /\ k \in held \union r.missed \union Pending(t)
    BY Zenon DEF OnlyHeld
  <2>1. CASE e.down /\ n = m
    <3>1. e.key \in held \union r.missed \union Pending(t)
      BY <1>6, <2>1
    <3> QED
      BY <3>1, <1>2, <2>1 DEF m
  <2>2. CASE ~(e.down /\ n = m)
    <3>1. n \in r.modifiers /\ n # m
      BY <2>2
    <3>2. PICK k \in DOMAIN Modifiers :
             Modifiers[k] = n /\ k \in held \union r.missed \union Pending(q)
      BY <3>1, <1>4 DEF OnlyHeld
    <3>3. k # e.key
      BY <3>1, <3>2 DEF m
    <3> QED
      BY <3>2, <3>3, <1>5
  <2> QED
    BY <2>1, <2>2
<1>9. HeldIsOn(t, mods, held, r.missed)
  <2> SUFFICES ASSUME NEW k \in held \intersect DOMAIN Modifiers,
                      k \notin r.missed \union Pending(t), Sole(k)
               PROVE  Modifiers[k] \in mods
    BY Zenon DEF HeldIsOn
  <2>1. CASE k = e.key
    BY <2>1, <1>6 DEF m
  <2>2. CASE k # e.key
    <3>1. Modifiers[k] \in r.modifiers
      BY <2>2, <1>4, <1>5 DEF HeldIsOn
    <3>2. Modifiers[k] # m
      BY <2>2, <1>2, ModifierKeys DEF Sole
    <3> QED
      BY <3>1, <3>2
  <2> QED
    BY <2>1, <2>2
<1> HIDE DEF mods
<1>10. KeysKnown(s, held)
  BY <1>3, <1>4, <1>5, <1>7, <1>8, <1>9 DEF KeysKnown
<1> QED
  BY <1>10 DEF s, e, q

LEMMA HandedOver ==
    ASSUME NEW r, NEW held, NEW send_to_host, KeysKnown(r, held), r.queue # << >>
    PROVE  KeysKnown(Keyboard!HandOver(r, send_to_host), held)
<1> DEFINE e == Head(r.queue)
           u == Keyboard!unqueue_key(r)
           p == Keyboard!keyb_parse(u, e)
<1>1. KeysKnown(p, held)
  <2>1. CASE e.key \in DOMAIN Modifiers
    BY <2>1, ParsedKnown
  <2>2. CASE e.key \notin DOMAIN Modifiers
    <3>1. KeysKnown(u, held)
      BY <2>2, DroppedKnown
    <3>2. p = u
      BY <2>2, OtherKeys DEF Keyboard!keyb_parse
    <3> QED
      BY <3>1, <3>2
  <2> QED
    BY <2>1, <2>2
<1>2. Keyboard!HandOver(r, send_to_host) =
         IF send_to_host THEN Keyboard!keyb_send_to_host(p, e) ELSE p
  BY Zenon DEF Keyboard!HandOver
<1> HIDE DEF p, e
<1>3. KeysKnown(Keyboard!keyb_send_to_host(p, e), held)
  BY <1>1, SentKnown
<1> QED
  BY <1>1, <1>2, <1>3

LEMMA TalkKnown ==
    ASSUME NEW r, NEW held, NEW send_to_host, KeysKnown(r, held)
    PROVE  KeysKnown(Keyboard!keyb_talk(r, send_to_host), held)
<1> DEFINE talked == Keyboard!keyb_talk(r, send_to_host)
           first == Keyboard!HandOver(r, send_to_host)
           u == Keyboard!unqueue_key(r)
           reset == r.reset \/ (Head(r.queue) = Keyboard!Release(RESET) /\ "CTRL" \in r.modifiers)
<1>1. CASE r.queue = << >>
  BY <1>1 DEF Keyboard!keyb_talk
<1>2. CASE r.queue # << >> /\ Head(r.queue).key = RESET
  <2>1. KeysKnown(u, held)
    BY <1>2, DroppedKnown, ModifierKeys
  <2>2. talked = [u EXCEPT !.reset = u.reset \/ (Head(r.queue) = Keyboard!Release(RESET)
                                                  /\ "CTRL" \in r.modifiers)]
    BY <1>2 DEF Keyboard!keyb_talk
  <2> HIDE DEF u, talked
  <2>3. /\ DOMAIN talked = Fields /\ talked.queue = u.queue
        /\ talked.modifiers = u.modifiers /\ talked.missed = u.missed
        /\ talked.repeating = u.repeating
    BY <2>1, <2>2 DEF KeysKnown, Fields
  <2>4. KeysKnown(talked, held)
    BY <2>1, <2>3, SameKnown
  <2> QED
    BY <2>4 DEF talked
<1>3. CASE r.queue # << >> /\ Head(r.queue).key # RESET
  <2>1. KeysKnown(first, held)
    BY <1>3, HandedOver
  <2>2. first.queue # << >> => KeysKnown(Keyboard!HandOver(first, send_to_host), held)
    <3> HIDE DEF first
    <3> QED
      BY <2>1, HandedOver
  <2>3. talked = IF first.queue # << >> /\ Head(first.queue) # Keyboard!Press(RESET)
                 THEN Keyboard!HandOver(first, send_to_host) ELSE first
    BY <1>3, Zenon DEF Keyboard!keyb_talk, Keyboard!HandOverSecond
  <2> HIDE DEF first, talked
  <2>4. KeysKnown(talked, held)
    BY <2>1, <2>2, <2>3
  <2> QED
    BY <2>4 DEF talked
<1> QED
  BY <1>1, <1>2, <1>3

LEMMA PasteKnown ==
    ASSUME NEW r, NEW held, KeysKnown(r, held)
    PROVE  KeysKnown(Keyboard!clipboard_paste(r), held)
<1> DEFINE s == Keyboard!clipboard_paste(r)
<1>1. DOMAIN r = Fields
  BY DEF KeysKnown
<1>2. /\ DOMAIN s = Fields /\ s.queue = r.queue /\ s.modifiers = r.modifiers
      /\ s.missed = r.missed /\ s.repeating = r.repeating
  BY <1>1 DEF Keyboard!clipboard_paste, Fields
<1> HIDE DEF s
<1>3. KeysKnown(s, held)
  BY <1>2, SameKnown
<1> QED
  BY <1>3 DEF s

(* An event of a key that the user does hold, or does not: what the host   *)
(* sends, and what repeats.  If there is room it is the last of its key.   *)
LEMMA QueuedKnown ==
    ASSUME NEW r, NEW held, NEW now, NEW gone, NEW e \in Keyboard!Events,
           KeysKnown(r, held), ~Keyboard!Full(r),
           now \subseteq Keyboard!Keys, gone \subseteq Keyboard!Keys,
           \A k \in Keyboard!Keys \ {e.key} :
              (k \in now <=> k \in held) /\ (k \in gone <=> k \in r.missed),
           e.key \in gone \/ (e.down <=> e.key \in now)
    PROVE  KeysKnown([Keyboard!queue_key(r, e) EXCEPT !.missed = gone], now)
<1> DEFINE q == r.queue
           t == Append(q, e)
           s == [Keyboard!queue_key(r, e) EXCEPT !.missed = gone]
<1>1. DOMAIN r = Fields /\ q \in Seq(Keyboard!Events)
  BY DEF KeysKnown
<1>2. /\ DOMAIN s = Fields /\ s.queue = t /\ s.modifiers = r.modifiers
      /\ s.missed = gone /\ s.repeating = Keyboard!Repeats(r, e)
  BY <1>1 DEF Keyboard!queue_key, Fields
<1> HIDE DEF s
<1>3. /\ LatestTells(q, held, r.missed) /\ OnlyHeld(q, r.modifiers, held, r.missed)
      /\ HeldIsOn(q, r.modifiers, held, r.missed) /\ HeldRepeats(r.repeating, held, r.missed)
      /\ held \subseteq Keyboard!Keys /\ r.missed \subseteq Keyboard!Keys
  BY DEF KeysKnown
<1>4. /\ t \in Seq(Keyboard!Events) /\ Pending(t) = Pending(q) \union {e.key}
      /\ \A i \in DOMAIN t : Latest(t, i) =>
            \/ t[i] = e
            \/ i \in DOMAIN q /\ t[i] = q[i] /\ Latest(q, i) /\ q[i].key # e.key
  BY <1>1, Appended
<1>5. e.key \in Keyboard!Keys /\ \A i \in DOMAIN q : q[i].key \in Keyboard!Keys
  <2>1. \A i \in DOMAIN q : q[i] \in Keyboard!Events
    <3> HIDE DEF q
    <3> QED
      BY <1>1
  <2>2. \A x \in Keyboard!Events : x.key \in Keyboard!Keys
    BY DEF Keyboard!Events
  <2> QED
    BY <2>1, <2>2
<1> HIDE DEF q, t
<1>6. LatestTells(t, now, gone)
  BY <1>3, <1>4, <1>5 DEF LatestTells
<1>7. OnlyHeld(t, r.modifiers, now, gone)
  <2> SUFFICES ASSUME NEW m \in r.modifiers
               PROVE  \E k \in DOMAIN Modifiers :
                         Modifiers[k] = m /\ k \in now \union gone \union Pending(t)
    BY DEF OnlyHeld
  <2>1. PICK k \in DOMAIN Modifiers :
           Modifiers[k] = m /\ k \in held \union r.missed \union Pending(q)
    BY <1>3 DEF OnlyHeld
  <2> QED
    BY <2>1, <1>4, ModifierKeys
<1>8. HeldIsOn(t, r.modifiers, now, gone)
  <2> SUFFICES ASSUME NEW k \in now \intersect DOMAIN Modifiers,
                      k \notin gone \union Pending(t), Sole(k)
               PROVE  Modifiers[k] \in r.modifiers
    BY DEF HeldIsOn
  <2>1. k # e.key /\ k \notin r.missed \union Pending(q) /\ k \in held
    BY <1>4
  <2> QED
    BY <2>1, <1>3 DEF HeldIsOn
<1>9. HeldRepeats(Keyboard!Repeats(r, e), now, gone)
  <2> DEFINE next == Keyboard!Repeats(r, e)
  <2>1. SUFFICES ASSUME next # None PROVE next \in Letters /\ next \in now \union gone
    BY DEF HeldRepeats
  <2>2. CASE e.key \in Letters /\ e.down
    BY <2>2 DEF Keyboard!Repeats
  <2>3. CASE ~(e.key \in Letters /\ e.down)
    <3>1. next = r.repeating
      BY <2>1, <2>3 DEF Keyboard!Repeats
    <3>2. next \in Letters /\ next \in held \union r.missed
      BY <2>1, <3>1, <1>3 DEF HeldRepeats
    <3>3. next # e.key
      BY <2>1, <2>3, <3>1, <3>2 DEF Keyboard!Repeats
    <3> HIDE DEF next
    <3> QED
      BY <3>2, <3>3, <1>3 DEF Keyboard!Keys
  <2> QED
    BY <2>2, <2>3
<1>10. KeysKnown(s, now)
  BY <1>2, <1>4, <1>6, <1>7, <1>8, <1>9 DEF KeysKnown
<1> QED
  BY <1>10 DEF s

(* An event that there is no room for.                                     *)
LEMMA MissedKnown ==
    ASSUME NEW r, NEW held, NEW now, NEW k \in Keyboard!Keys, KeysKnown(r, held),
           now \subseteq Keyboard!Keys,
           \A j \in Keyboard!Keys \ {k} : j \in now <=> j \in held
    PROVE  KeysKnown([r EXCEPT !.missed = @ \union {k}], now)
<1> DEFINE q == r.queue
           gone == r.missed \union {k}
           s == [r EXCEPT !.missed = @ \union {k}]
<1>1. DOMAIN r = Fields /\ q \in Seq(Keyboard!Events)
  BY DEF KeysKnown
<1>2. /\ DOMAIN s = Fields /\ s.queue = q /\ s.modifiers = r.modifiers
      /\ s.missed = gone /\ s.repeating = r.repeating
  BY <1>1 DEF Fields
<1> HIDE DEF s
<1>3. /\ LatestTells(q, held, r.missed) /\ OnlyHeld(q, r.modifiers, held, r.missed)
      /\ HeldIsOn(q, r.modifiers, held, r.missed) /\ HeldRepeats(r.repeating, held, r.missed)
      /\ held \subseteq Keyboard!Keys /\ r.missed \subseteq Keyboard!Keys
  BY DEF KeysKnown
<1> HIDE DEF q
<1>4. \A i \in DOMAIN q : q[i].key \in Keyboard!Keys
  <2>1. \A i \in DOMAIN q : q[i] \in Keyboard!Events
    BY <1>1
  <2>2. \A x \in Keyboard!Events : x.key \in Keyboard!Keys
    BY DEF Keyboard!Events
  <2> QED
    BY <2>1, <2>2
<1>5. LatestTells(q, now, gone)
  BY <1>3, <1>4 DEF LatestTells
<1>6. OnlyHeld(q, r.modifiers, now, gone)
  BY <1>3, ModifierKeys DEF OnlyHeld
<1>7. HeldIsOn(q, r.modifiers, now, gone)
  BY <1>3, ModifierKeys DEF HeldIsOn
<1>8. HeldRepeats(r.repeating, now, gone)
  BY <1>3 DEF HeldRepeats
<1>9. gone \subseteq Keyboard!Keys
  BY <1>3
<1> HIDE DEF gone
<1>10. KeysKnown(s, now)
  BY <1>1, <1>2, <1>5, <1>6, <1>7, <1>8, <1>9 DEF KeysKnown
<1> QED
  BY <1>10 DEF s

LEMMA KeysStart == Keyboard!Init => KeysInv
<1> SUFFICES ASSUME Keyboard!Init PROVE KeysInv
  OBVIOUS
<1>1. /\ DOMAIN Keyboard!Now = Fields /\ Keyboard!Now.queue = << >>
      /\ Keyboard!Now.modifiers = {} /\ Keyboard!Now.missed = {}
      /\ Keyboard!Now.repeating = None /\ states = {}
  BY DEF Keyboard!Init, Keyboard!Now, Fields
<1> QED
  BY <1>1 DEF KeysInv, KeysKnown, LatestTells, OnlyHeld, HeldIsOn, HeldRepeats

LEMMA Become ==
    ASSUME NEW r, NEW held, KeysKnown(r, held), Keyboard!Becomes(r), states' = held
    PROVE  KeysInv'
<1>1. DOMAIN r = Fields
  BY DEF KeysKnown
<1>2. /\ DOMAIN Keyboard!Now' = Fields /\ Keyboard!Now'.queue = r.queue
      /\ Keyboard!Now'.modifiers = r.modifiers /\ Keyboard!Now'.missed = r.missed
      /\ Keyboard!Now'.repeating = r.repeating
  BY DEF Keyboard!Becomes, Keyboard!Now, Fields
<1> DEFINE s == Keyboard!Now'
<1> HIDE DEF s
<1>3. KeysKnown(s, held)
  BY <1>2, SameKnown DEF s
<1> QED
  BY <1>3 DEF KeysInv, s

LEMMA Rests ==
    ASSUME KeysInv, UNCHANGED <<states, queue, modifiers, repeating, missed>> PROVE KeysInv'
<1>1. /\ DOMAIN Keyboard!Now = Fields /\ DOMAIN Keyboard!Now' = Fields
      /\ Keyboard!Now'.queue = Keyboard!Now.queue
      /\ Keyboard!Now'.modifiers = Keyboard!Now.modifiers
      /\ Keyboard!Now'.missed = Keyboard!Now.missed
      /\ Keyboard!Now'.repeating = Keyboard!Now.repeating
  BY DEF Keyboard!Now, Fields
<1> DEFINE r == Keyboard!Now
           s == Keyboard!Now'
<1>2. KeysKnown(r, states) /\ states' = states
  BY DEF KeysInv
<1> HIDE DEF r, s
<1>3. KeysKnown(s, states)
  BY <1>1, <1>2, SameKnown DEF r, s
<1> QED
  BY <1>2, <1>3 DEF KeysInv, s

LEMMA InputKeeps ==
    ASSUME KeysInv, NEW e \in Keyboard!Events, Keyboard!device_input(e) PROVE KeysInv'
<1> DEFINE now == Keyboard!Now
           s == [Keyboard!queue_key(now, e) EXCEPT
                    !.missed = IF Keyboard!Full(now) THEN @ \union {e.key} ELSE @ \ {e.key}]
<1>1. KeysKnown(now, states)
  BY DEF KeysInv
<1>2. Keyboard!Becomes(s) /\ states' = (IF e.down THEN states \union {e.key} ELSE states \ {e.key})
  BY Zenon DEF Keyboard!device_input
<1>3. e.key \in Keyboard!Keys /\ e.down \in BOOLEAN
  BY DEF Keyboard!Events
<1>4. states \subseteq Keyboard!Keys /\ now.missed \subseteq Keyboard!Keys /\ DOMAIN now = Fields
  BY <1>1 DEF KeysKnown
<1>5. /\ states' \subseteq Keyboard!Keys /\ (e.down <=> e.key \in states')
      /\ \A k \in Keyboard!Keys \ {e.key} : k \in states' <=> k \in states
  BY <1>2, <1>3, <1>4
<1> HIDE DEF now
<1>6. CASE Keyboard!Full(now)
  <2>1. s = [now EXCEPT !.missed = @ \union {e.key}]
    BY <1>6 DEF Keyboard!queue_key
  <2> HIDE DEF s
  <2>2. KeysKnown(s, states')
    BY <2>1, <1>1, <1>3, <1>5, MissedKnown
  <2> QED
    BY <2>2, <1>2, Become
<1>7. CASE ~Keyboard!Full(now)
  <2> DEFINE gone == now.missed \ {e.key}
  <2>1. s = [Keyboard!queue_key(now, e) EXCEPT !.missed = gone]
    BY <1>4, <1>7 DEF Keyboard!queue_key, Fields
  <2>2. gone \subseteq Keyboard!Keys /\ \A k \in Keyboard!Keys \ {e.key} : k \in gone <=> k \in now.missed
    BY <1>4
  <2> HIDE DEF s, gone
  <2>3. KeysKnown(s, states')
    BY <2>1, <2>2, <1>1, <1>5, <1>7, QueuedKnown
  <2> QED
    BY <2>3, <1>2, Become
<1> QED
  BY <1>6, <1>7

LEMMA RepeatKnown ==
    ASSUME NEW r, NEW held, KeysKnown(r, held) PROVE KeysKnown(Keyboard!Repeated(r), held)
<1> DEFINE e == Keyboard!Press(r.repeating)
           s == Keyboard!queue_key(r, e)
           t == [s EXCEPT !.missed = r.missed]
<1>1. CASE r.repeating = None
  BY <1>1 DEF Keyboard!Repeated
<1>2. CASE r.repeating # None /\ Keyboard!Full(r)
  BY <1>2 DEF Keyboard!Repeated, Keyboard!queue_key
<1>3. CASE r.repeating # None /\ ~Keyboard!Full(r)
  <2>1. /\ DOMAIN r = Fields /\ held \subseteq Keyboard!Keys /\ r.missed \subseteq Keyboard!Keys
        /\ r.repeating \in Letters /\ r.repeating \in held \union r.missed
    BY <1>3 DEF KeysKnown, HeldRepeats
  <2>2. e \in Keyboard!Events /\ e.key = r.repeating /\ e.down
    BY <2>1 DEF Keyboard!Press, Keyboard!Events, Keyboard!Keys
  <2>3. /\ DOMAIN s = Fields /\ DOMAIN t = Fields /\ s.queue = t.queue
        /\ s.modifiers = t.modifiers /\ s.missed = t.missed /\ s.repeating = t.repeating
    BY <1>3, <2>1 DEF Keyboard!queue_key, Fields
  <2> HIDE DEF e
  <2>4. KeysKnown(t, held)
    BY <1>3, <2>1, <2>2, QueuedKnown
  <2>5. Keyboard!Repeated(r) = s
    BY <1>3 DEF Keyboard!Repeated, e
  <2> HIDE DEF s, t
  <2> QED
    BY <2>3, <2>4, <2>5, SameKnown
<1> QED
  BY <1>1, <1>2, <1>3

LEMMA PollKeeps ==
    ASSUME KeysInv, NEW auto \in BOOLEAN, NEW due \in BOOLEAN, Keyboard!Poll(auto, due)
    PROVE  KeysInv'
<1> DEFINE r == IF clipboard # << >> THEN Keyboard!clipboard_paste(Keyboard!Now)
                ELSE IF due THEN Keyboard!Repeated(Keyboard!Now) ELSE Keyboard!Now
           s == IF auto THEN Keyboard!keyb_talk(r, TRUE) ELSE r
<1>1. KeysKnown(Keyboard!Now, states)
  BY DEF KeysInv
<1>2. Keyboard!Becomes(s) /\ states' = states
  BY Zenon DEF Keyboard!Poll
<1>3. KeysKnown(r, states)
  <2>1. /\ KeysKnown(Keyboard!clipboard_paste(Keyboard!Now), states)
        /\ KeysKnown(Keyboard!Repeated(Keyboard!Now), states)
    BY <1>1, PasteKnown, RepeatKnown
  <2> QED
    BY <1>1, <2>1
<1> HIDE DEF r
<1>4. KeysKnown(s, states)
  BY <1>3, TalkKnown
<1> HIDE DEF s
<1> QED
  BY <1>2, <1>4, Become

LEMMA AskedKeeps == ASSUME KeysInv, Keyboard!POLL_0 PROVE KeysInv'
<1> DEFINE s == Keyboard!keyb_talk(Keyboard!Now, FALSE)
<1>1. Keyboard!Becomes(s) /\ states' = states
  BY Zenon DEF Keyboard!POLL_0
<1>2. KeysKnown(s, states)
  <2>1. KeysKnown(Keyboard!Now, states)
    BY DEF KeysInv
  <2> QED
    BY <2>1, TalkKnown, Zenon
<1> HIDE DEF s
<1> QED
  BY <1>1, <1>2, Become

LEMMA KeycodeKeeps ==
    ASSUME KeysInv, NEW e, Keyboard!SEND_ADB_KEYCODE(e) PROVE KeysInv'
<1> DEFINE s == Keyboard!keyb_send_to_host(Keyboard!Now, e)
<1>1. Keyboard!Becomes(s) /\ states' = states
  BY DEF Keyboard!SEND_ADB_KEYCODE
<1>2. KeysKnown(s, states)
  BY SentKnown DEF KeysInv
<1> HIDE DEF s
<1> QED
  BY <1>1, <1>2, Become

LEMMA KeyboardResetKeeps == ASSUME KeysInv, Keyboard!Reset PROVE KeysInv'
<1> DEFINE r == Keyboard!Now
           s == Keyboard!Now'
           gone == r.missed \union Pending(r.queue)
<1>1. /\ DOMAIN s = Fields /\ s.queue = << >> /\ s.repeating = None
      /\ s.modifiers = r.modifiers /\ s.missed = gone /\ states' = states
  BY DEF Keyboard!Reset, Keyboard!Becomes, Keyboard!Now, Keyboard!Waiting, Pending, Fields
<1>2. KeysKnown(r, states)
  BY DEF KeysInv
<1> HIDE DEF r, s
<1>3. Pending(r.queue) \subseteq Keyboard!Keys
  <2>1. \A i \in DOMAIN r.queue : r.queue[i] \in Keyboard!Events
    BY <1>2 DEF KeysKnown
  <2>2. \A x \in Keyboard!Events : x.key \in Keyboard!Keys
    BY DEF Keyboard!Events
  <2> QED
    BY <2>1, <2>2 DEF Pending
<1>4. /\ s.queue \in Seq(Keyboard!Events) /\ DOMAIN s.queue = {} /\ Pending(s.queue) = {}
  BY <1>1 DEF Pending
<1>5. LatestTells(s.queue, states, gone)
  BY <1>4 DEF LatestTells
<1>6. OnlyHeld(s.queue, r.modifiers, states, gone)
  BY <1>2, <1>4 DEF OnlyHeld, KeysKnown
<1>7. HeldIsOn(s.queue, r.modifiers, states, gone)
  BY <1>2, <1>4 DEF HeldIsOn, KeysKnown
<1>8. HeldRepeats(None, states, gone)
  BY DEF HeldRepeats
<1>9. gone \subseteq Keyboard!Keys /\ states \subseteq Keyboard!Keys
  BY <1>2, <1>3 DEF KeysKnown
<1> HIDE DEF gone
<1>10. KeysKnown(s, states)
  BY <1>1, <1>4, <1>5, <1>6, <1>7, <1>8, <1>9 DEF KeysKnown
<1> QED
  BY <1>1, <1>10 DEF KeysInv, s

LEMMA KeysStay == KeysInv /\ [Keyboard!Next]_(Keyboard!vars) => KeysInv'
<1> SUFFICES ASSUME KeysInv, [Keyboard!Next]_(Keyboard!vars) PROVE KeysInv'
  OBVIOUS
<1>1. CASE \E e \in Keyboard!Events : Keyboard!device_input(e)
  BY <1>1, InputKeeps
<1>2. CASE \E t \in Texts : Keyboard!SendText(t)
  BY <1>2, Rests DEF Keyboard!SendText
<1>3. CASE Keyboard!push_utf8_atom
  BY <1>3, Rests DEF Keyboard!push_utf8_atom
<1>4. CASE \E auto, due \in BOOLEAN : Keyboard!Poll(auto, due)
  BY <1>4, PollKeeps
<1>5. CASE Keyboard!POLL_0
  BY <1>5, AskedKeeps
<1>6. CASE Keyboard!SYSTEM_RESET
  <2>1. UNCHANGED <<states, queue, modifiers, repeating, missed>>
    BY <1>6 DEF Keyboard!SYSTEM_RESET, Keyboard!Becomes, Keyboard!Now
  <2> QED
    BY <2>1, Rests
<1>7. CASE Keyboard!key_strobe
  BY <1>7, Rests DEF Keyboard!key_strobe
<1>8. CASE Keyboard!Reset
  BY <1>8, KeyboardResetKeeps
<1>9. CASE \E k \in Letters : \/ Keyboard!SEND_ADB_KEYCODE(Keyboard!Press(k))
                              \/ Keyboard!SEND_ADB_KEYCODE(Keyboard!Release(k))
  BY <1>9, KeycodeKeeps
<1>10. CASE UNCHANGED Keyboard!vars
  BY <1>10, Rests DEF Keyboard!vars
<1> QED
  BY <1>1, <1>2, <1>3, <1>4, <1>5, <1>6, <1>7, <1>8, <1>9, <1>10 DEF Keyboard!Next

(* What the machine takes for pressed is what the user holds, whatever     *)
(* keys there are and however long the queue: modifiers that stay on, or   *)
(* keys that repeat, without a finger on them come of lost events only.    *)
THEOREM KeysAreFollowed == Keyboard!Spec => []KeysFollowUser
<1>1. KeysInv => KeysFollowUser
  <2> SUFFICES ASSUME KeysInv PROVE Keyboard!KeysFollowUser
    BY DEF KeysFollowUser
  <2>1. /\ OnlyHeld(queue, modifiers, states, missed) /\ HeldIsOn(queue, modifiers, states, missed)
        /\ HeldRepeats(repeating, states, missed)
    BY DEF KeysInv, KeysKnown, Keyboard!Now
  <2>2. Keyboard!Waiting = Pending(queue)
    BY DEF Keyboard!Waiting, Pending
  <2>3. ASSUME NEW m \in modifiers,
               \A k \in {j \in Keyboard!Keys : Keyboard!ModifierOf(j) = m} : Keyboard!Settled(k)
        PROVE  {j \in Keyboard!Keys : Keyboard!ModifierOf(j) = m} \intersect states # {}
    <3>1. PICK k \in DOMAIN Modifiers :
             Modifiers[k] = m /\ k \in states \union missed \union Pending(queue)
      BY <2>1 DEF OnlyHeld
    <3>2. k \in Keyboard!Keys /\ Keyboard!ModifierOf(k) = m
      BY <3>1, ModifierKeys
    <3> QED
      BY <2>2, <2>3, <3>1, <3>2 DEF Keyboard!Settled
  <2>4. ASSUME NEW k \in states \intersect DOMAIN Modifiers, Keyboard!Settled(k),
               \A j \in Keyboard!Keys : Keyboard!ModifierOf(j) = Keyboard!ModifierOf(k) => j = k
        PROVE  Keyboard!ModifierOf(k) \in modifiers
    BY <2>1, <2>2, <2>4, ModifierKeys DEF HeldIsOn, Sole, Keyboard!Settled
  <2>5. repeating # None => repeating \in states \union missed
    BY <2>1 DEF HeldRepeats
  <2> QED
    BY <2>3, <2>4, <2>5 DEF Keyboard!KeysFollowUser
<1> QED
  BY <1>1, KeysStart, KeysStay, PTL DEF Keyboard!Spec

-----------------------------------------------------------------------------
(* The mouse.  Between the X and the Y of a pair the register counts as    *)
(* full, and the poll does not write a full register.                      *)
PairInv ==
    /\ full \in BOOLEAN /\ y_next \in BOOLEAN
    /\ half \in {"none", "x"}
    /\ half = "x" => full

LEMMA PairStarts == Mouse!Init => PairInv
BY DEF Mouse!Init, PairInv

LEMMA PairStays == PairInv /\ [Mouse!Next]_(Mouse!vars) => PairInv'
<1> SUFFICES ASSUME PairInv, [Mouse!Next]_(Mouse!vars) PROVE PairInv'
  OBVIOUS
<1> USE DEF PairInv
<1>1. CASE \E d \in Mouse!Distances : Mouse!MouseMove(d)
  BY <1>1 DEF Mouse!MouseMove, Mouse!c027
<1>2. CASE Mouse!MouseButton
  BY <1>2 DEF Mouse!MouseButton, Mouse!c027
<1>3. CASE \E p \in Mouse!Positions : Mouse!MouseMoveAbsolute(p)
  BY <1>3 DEF Mouse!MouseMoveAbsolute, Mouse!c027
<1>4. CASE Mouse!Poll
  <2>1. y_next' = y_next
    BY <1>4 DEF Mouse!Poll
  <2>2. CASE Mouse!Loads
    <3>1. half = "none"
      BY <2>2 DEF Mouse!Loads
    <3> QED
      BY <1>4, <2>1, <2>2, <3>1 DEF Mouse!Poll, Mouse!mouse_talk
  <2>3. CASE ~Mouse!Loads
    BY <1>4, <2>1, <2>3 DEF Mouse!Poll, Mouse!mouse_talk
  <2> QED
    BY <2>2, <2>3
<1>5. CASE Mouse!Toolbox
  BY <1>5 DEF Mouse!Toolbox, Mouse!c027
<1>6. CASE Mouse!ReadX
  BY <1>6 DEF Mouse!ReadX
<1>7. CASE Mouse!ReadY
  BY <1>7 DEF Mouse!ReadY
<1>8. CASE Mouse!set_mode_flags
  BY <1>8 DEF Mouse!set_mode_flags
<1>9. CASE Mouse!clear_mode_flags
  BY <1>9 DEF Mouse!clear_mode_flags, Mouse!c027
<1>10. CASE Mouse!Reset
  BY <1>10 DEF Mouse!Reset
<1>11. CASE UNCHANGED Mouse!vars
  BY <1>11 DEF Mouse!vars, Mouse!c027
<1> QED
  BY <1>1, <1>2, <1>3, <1>4, <1>5, <1>6, <1>7, <1>8, <1>9, <1>10, <1>11 DEF Mouse!Next

(* The X and the Y that the guest reads of the mouse are of one event,     *)
(* whenever the poll comes.                                                *)
THEOREM MousePairsAreWhole == Mouse!Spec => []PairsWhole
<1>1. PairInv => PairsWhole
  BY DEF PairInv, PairsWhole, Mouse!PairsWhole
<1> QED
  BY <1>1, PairStarts, PairStays, PTL DEF Mouse!Spec
-----------------------------------------------------------------------------
(* Pasted text.  Where the bytes are that have come so far is one long     *)
(* sequence; the steps move the cuts between its parts, exchange bytes of  *)
(* it that are not plain, or lose bytes and take note of them.  What is    *)
(* kept of it stays the same through all of that.                          *)
Converted == UNION {Range(Encoded[b]) : b \in DOMAIN Width}
AnyBytes == Converted \union DOMAIN Width

LEMMA OneRange == \A s : Keyboard!Range(s) = Range(s)
BY DEF Range, Keyboard!Range

LEMMA KeptThrough ==
    ASSUME NEW s, NEW t, NEW u, NEW K, NEW L, K \subseteq L,
           Keyboard!KeptAs(s, t, K), Keyboard!KeptAs(t, u, L)
    PROVE  Keyboard!KeptAs(s, u, K)
<1>1. /\ Range(s) \intersect K = Range(t) \intersect K
      /\ Range(t) \intersect L = Range(u) \intersect L
  BY OneRange DEF Keyboard!KeptAs
<1>2. Range(s) \intersect K = Range(u) \intersect K
  BY <1>1
<1>3. ASSUME NEW i \in DOMAIN s, NEW j \in DOMAIN s, i < j, {s[i], s[j]} \subseteq K
      PROVE  \E k, l \in DOMAIN u : k < l /\ u[k] = s[i] /\ u[l] = s[j]
  <2>1. PICK k, l \in DOMAIN t : k < l /\ t[k] = s[i] /\ t[l] = s[j]
    BY <1>3, Zenon DEF Keyboard!KeptAs
  <2>2. {t[k], t[l]} \subseteq L
    BY <1>3, <2>1
  <2>3. PICK m, n \in DOMAIN u : m < n /\ u[m] = t[k] /\ u[n] = t[l]
    BY <2>1, <2>2, Zenon DEF Keyboard!KeptAs
  <2> QED
    BY <2>1, <2>3
<1>4. Keyboard!Range(s) \intersect K = Keyboard!Range(u) \intersect K
  BY <1>2, OneRange
<1> QED
  BY <1>3, <1>4, Zenon DEF Keyboard!KeptAs

LEMMA KeptAlike == ASSUME NEW s, NEW K PROVE Keyboard!KeptAs(s, s, K)
BY DEF Keyboard!KeptAs

(* The elements of three sequences in a row.                               *)
LEMMA InARow ==
    ASSUME NEW S, NEW a \in Seq(S), NEW b \in Seq(S), NEW c \in Seq(S)
    PROVE  LET s == a \o b \o c IN
           /\ s \in Seq(S) /\ DOMAIN s = 1 .. Len(a) + Len(b) + Len(c)
           /\ \A i \in 1 .. Len(a) : s[i] = a[i]
           /\ \A i \in 1 .. Len(b) : s[Len(a) + i] = b[i]
           /\ \A i \in 1 .. Len(c) : s[Len(a) + Len(b) + i] = c[i]
<1> DEFINE t == a \o b
           s == t \o c
<1>1. /\ Len(a) \in Nat /\ Len(b) \in Nat /\ Len(c) \in Nat
      /\ t \in Seq(S) /\ Len(t) = Len(a) + Len(b)
      /\ \A i \in 1 .. Len(a) + Len(b) : t[i] = IF i <= Len(a) THEN a[i] ELSE b[i - Len(a)]
  BY ConcatProperties
<1> HIDE DEF t
<1>2. /\ s \in Seq(S) /\ Len(s) = Len(t) + Len(c)
      /\ \A i \in 1 .. Len(t) + Len(c) : s[i] = IF i <= Len(t) THEN t[i] ELSE c[i - Len(t)]
  <2>1. t \in Seq(S)
    BY <1>1
  <2> QED
    BY <2>1, ConcatProperties, Zenon
<1> HIDE DEF s
<1>3. DOMAIN s = 1 .. Len(a) + Len(b) + Len(c)
  BY <1>1, <1>2
<1>4. \A i \in 1 .. Len(a) : s[i] = a[i]
  BY <1>1, <1>2
<1>5. ASSUME NEW i \in 1 .. Len(b) PROVE s[Len(a) + i] = b[i]
  <2>1. Len(a) + i \in 1 .. Len(t) /\ ~(Len(a) + i <= Len(a)) /\ Len(a) + i - Len(a) = i
    BY <1>1
  <2>2. s[Len(a) + i] = t[Len(a) + i]
    BY <1>1, <1>2, <2>1
  <2> QED
    BY <1>1, <2>1, <2>2
<1>6. ASSUME NEW i \in 1 .. Len(c) PROVE s[Len(a) + Len(b) + i] = c[i]
  <2>1. /\ Len(t) + i \in 1 .. Len(t) + Len(c) /\ ~(Len(t) + i <= Len(t))
        /\ Len(t) + i - Len(t) = i
    BY <1>1
  <2> QED
    BY <1>1, <1>2, <2>1
<1> QED
  BY <1>2, <1>3, <1>4, <1>5, <1>6 DEF s, t

LEMMA RangesInARow ==
    ASSUME NEW S, NEW a \in Seq(S), NEW b \in Seq(S), NEW c \in Seq(S)
    PROVE  Range(a \o b \o c) = Range(a) \union Range(b) \union Range(c)
<1>1. Range(a \o b) = Range(a) \union Range(b)
  BY RangeConcatenation
<1> DEFINE t == a \o b
<1>2. t \in Seq(S)
  BY ConcatProperties
<1> HIDE DEF t
<1>3. Range(t \o c) = Range(t) \union Range(c)
  BY <1>2, RangeConcatenation
<1> QED
  BY <1>1, <1>3 DEF t

LEMMA Shifted ==
    \A la, le, lf, lc \in Nat : \A i \in 1 .. la + le + lc : i > la + le =>
        LET k == i - la - le
        IN /\ k \in 1 .. lc /\ la + le + k = i
           /\ ~(i <= la) /\ i - le + lf = la + lf + k
           /\ la + lf + k \in 1 .. la + lf + lc
OBVIOUS

(* What is exchanged in the middle of a sequence does not matter if none   *)
(* of it is kept.                                                          *)
LEMMA Exchanged ==
    ASSUME NEW S, NEW a \in Seq(S), NEW c \in Seq(S), NEW e \in Seq(S), NEW f \in Seq(S),
           NEW K, Range(e) \intersect K = {}, Range(f) \intersect K = {}
    PROVE  Keyboard!KeptAs(a \o e \o c, a \o f \o c, K)
<1> DEFINE s == a \o e \o c
           t == a \o f \o c
<1>1. Len(a) \in Nat /\ Len(c) \in Nat /\ Len(e) \in Nat /\ Len(f) \in Nat
  OBVIOUS
<1>2. /\ s \in Seq(S) /\ DOMAIN s = 1 .. Len(a) + Len(e) + Len(c)
      /\ \A i \in 1 .. Len(a) : s[i] = a[i]
      /\ \A i \in 1 .. Len(e) : s[Len(a) + i] = e[i]
      /\ \A i \in 1 .. Len(c) : s[Len(a) + Len(e) + i] = c[i]
  BY InARow
<1>3. /\ t \in Seq(S) /\ DOMAIN t = 1 .. Len(a) + Len(f) + Len(c)
      /\ \A i \in 1 .. Len(a) : t[i] = a[i]
      /\ \A i \in 1 .. Len(f) : t[Len(a) + i] = f[i]
      /\ \A i \in 1 .. Len(c) : t[Len(a) + Len(f) + i] = c[i]
  BY InARow
<1> HIDE DEF s, t
<1>r. /\ Range(s) = Range(a) \union Range(e) \union Range(c)
      /\ Range(t) = Range(a) \union Range(f) \union Range(c)
  BY RangesInARow DEF s, t
<1>4. Keyboard!Range(s) \intersect K = Keyboard!Range(t) \intersect K
  BY <1>r, OneRange
<1> DEFINE there(i) == IF i <= Len(a) THEN i ELSE i - Len(e) + Len(f)
<1>5. ASSUME NEW i \in DOMAIN s, s[i] \in K
      PROVE  /\ i <= Len(a) \/ i > Len(a) + Len(e)
             /\ there(i) \in DOMAIN t /\ t[there(i)] = s[i]
  <2>1. CASE i <= Len(a)
    <3>1. i \in 1 .. Len(a) /\ i \in DOMAIN t
      BY <1>1, <1>2, <1>3, <1>5, <2>1
    <3> QED
      BY <1>2, <1>3, <2>1, <3>1
  <2>2. CASE i > Len(a) /\ i <= Len(a) + Len(e)
    <3>1. i - Len(a) \in 1 .. Len(e) /\ Len(a) + (i - Len(a)) = i
      BY <1>1, <1>2, <1>5, <2>2
    <3>2. s[i] = e[i - Len(a)]
      BY <1>2, <3>1
    <3>3. e[i - Len(a)] \in Range(e)
      BY <3>1, <1>1 DEF Range
    <3> QED
      BY <1>5, <3>2, <3>3
  <2>3. CASE i > Len(a) + Len(e)
    <3> DEFINE k == i - Len(a) - Len(e)
    <3>i. i \in 1 .. Len(a) + Len(e) + Len(c)
      BY <1>2, <1>5
    <3>1. /\ k \in 1 .. Len(c) /\ Len(a) + Len(e) + k = i
          /\ ~(i <= Len(a)) /\ i - Len(e) + Len(f) = Len(a) + Len(f) + k
          /\ Len(a) + Len(f) + k \in 1 .. Len(a) + Len(f) + Len(c)
      BY <1>1, <2>3, <3>i, Shifted
    <3>2. s[i] = c[k] /\ t[Len(a) + Len(f) + k] = c[k]
      BY <1>2, <1>3, <3>1
    <3> QED
      BY <1>3, <2>3, <3>1, <3>2
  <2> QED
    BY <1>1, <1>2, <1>5, <2>1, <2>2, <2>3
<1>6. ASSUME NEW i \in DOMAIN s, NEW j \in DOMAIN s, i < j, {s[i], s[j]} \subseteq K
      PROVE  \E k, l \in DOMAIN t : k < l /\ t[k] = s[i] /\ t[l] = s[j]
  <2>1. /\ there(i) \in DOMAIN t /\ t[there(i)] = s[i] /\ there(j) \in DOMAIN t
        /\ t[there(j)] = s[j]
        /\ i <= Len(a) \/ i > Len(a) + Len(e)
        /\ j <= Len(a) \/ j > Len(a) + Len(e)
    BY <1>5, <1>6
  <2>2. there(i) < there(j)
    BY <1>1, <1>2, <1>6, <2>1
  <2> QED
    BY <2>1, <2>2
<1>7. Keyboard!KeptAs(s, t, K)
  BY <1>4, <1>6, Zenon DEF Keyboard!KeptAs
<1> QED
  BY <1>7 DEF s, t

(* What is pasted, with the latch, the buffer and what is lost in a record *)
(* of the handlers.                                                        *)
LatchedIn(r) == IF r.strobe /\ r.latch # None THEN <<r.latch>> ELSE << >>
StreamIn(r) == got \o LatchedIn(r) \o r.clipboard \o text
AllPlain == \A i \in DOMAIN whole : Width[whole[i]] = 1

Tidy(r) ==
    /\ DOMAIN r = Fields /\ r.clipboard \in Seq(Converted)
    /\ r.latch \in Converted \union {None} /\ r.strobe \in BOOLEAN

KeptIn(r) ==
    /\ Tidy(r)
    /\ AllPlain => Keyboard!KeptAs(StreamIn(r), whole, Plain \ r.lost)

TextTyped ==
    /\ got \in Seq(Converted) /\ text \in Seq(DOMAIN Width) /\ whole \in Seq(DOMAIN Width)
    /\ AllPlain => \A i \in DOMAIN text : Width[text[i]] = 1

PasteInv == TextTyped /\ KeptIn(Keyboard!Now)

LEMMA ConvertedBytes ==
    /\ None \notin Converted /\ None \notin Plain
    /\ \A b \in DOMAIN Width : Encoded[b] \in Seq(Converted)
    /\ \A b \in Plain : Encoded[b] = <<b>>
    /\ \A b \in DOMAIN Width \ Plain : Range(Encoded[b]) \intersect Plain = {}
<1>1. /\ Plain \subseteq DOMAIN Width /\ None \notin Plain
      /\ \A b \in Plain : Encoded[b] = <<b>>
      /\ \A b \in DOMAIN Width \ Plain :
            Encoded[b] \in Seq(Range(Encoded[b]) \ (Plain \union {None}))
  BY DevicesAssumption, OneRange DEF Keyboard!KeyboardAssumption
<1>2. ASSUME NEW b \in Plain PROVE Range(Encoded[b]) = {b} /\ Encoded[b] \in Seq({b})
  <2>1. Encoded[b] = <<b>>
    BY <1>1
  <2>2. Range(<<b>>) = {b} /\ <<b>> \in Seq({b})
    BY DEF Range
  <2> QED
    BY <2>1, <2>2
<1>3. ASSUME NEW b \in DOMAIN Width \ Plain
      PROVE  /\ Range(Encoded[b]) \intersect (Plain \union {None}) = {}
             /\ Encoded[b] \in Seq(Range(Encoded[b]))
  <2> DEFINE R == Range(Encoded[b]) \ (Plain \union {None})
  <2>1. Encoded[b] \in Seq(R)
    BY <1>1
  <2> HIDE DEF R
  <2>2. Range(Encoded[b]) \subseteq R
    BY <2>1, RangeOfSeq
  <2> QED
    BY <2>1, <2>2, SeqOfRange DEF R
<1>4. None \notin Converted
  <2>1. \A b \in DOMAIN Width : None \notin Range(Encoded[b])
    <3> TAKE b \in DOMAIN Width
    <3>1. CASE b \in Plain
      BY <1>1, <1>2, <3>1
    <3>2. CASE b \notin Plain
      BY <1>3, <3>2
    <3> QED
      BY <3>1, <3>2
  <2> QED
    BY <2>1 DEF Converted
<1>5. ASSUME NEW b \in DOMAIN Width PROVE Encoded[b] \in Seq(Converted)
  <2>1. Range(Encoded[b]) \subseteq Converted
    BY DEF Converted
  <2>2. Encoded[b] \in Seq(Range(Encoded[b]))
    BY <1>2, <1>3
  <2> DEFINE R == Range(Encoded[b])
  <2> HIDE DEF R
  <2>3. \A s \in Seq(R) : R \subseteq Converted => s \in Seq(Converted)
    OBVIOUS
  <2> QED
    BY <2>1, <2>2, <2>3 DEF R
<1> QED
  BY <1>1, <1>3, <1>4, <1>5

LEMMA Regrouped ==
    \A a, b, c \in Seq(AnyBytes) : a \o b \in Seq(AnyBytes) /\ (a \o b) \o c = a \o (b \o c)
BY ConcatAssociative, ConcatProperties

LEMMA TailRegrouped ==
    \A p, q, c, u \in Seq(AnyBytes) : \A K :
        Keyboard!KeptAs(q \o (c \o u), p \o (c \o u), K)
          => Keyboard!KeptAs((q \o c) \o u, (p \o c) \o u, K)
<1> TAKE p \in Seq(AnyBytes), q \in Seq(AnyBytes), c \in Seq(AnyBytes), u \in Seq(AnyBytes)
<1> TAKE K
<1>1. (p \o c) \o u = p \o (c \o u)
  BY ConcatAssociative
<1>2. (q \o c) \o u = q \o (c \o u)
  BY ConcatAssociative
<1> QED
  BY <1>1, <1>2

LEMMA MiddleExchanged ==
    ASSUME NEW g \in Seq(AnyBytes), NEW a \in Seq(AnyBytes), NEW b \in Seq(AnyBytes),
           NEW c \in Seq(AnyBytes), NEW u \in Seq(AnyBytes),
           NEW K, Range(a) \intersect K = {}, Range(b) \intersect K = {}
    PROVE  Keyboard!KeptAs(g \o b \o c \o u, g \o a \o c \o u, K)
<1> DEFINE p == g \o a
           q == g \o b
           rest == c \o u
<1>1. p \in Seq(AnyBytes) /\ q \in Seq(AnyBytes) /\ rest \in Seq(AnyBytes)
  BY Regrouped
<1>2. Keyboard!KeptAs(q \o rest, p \o rest, K)
  <2> HIDE DEF rest
  <2> QED
    BY <1>1, Exchanged
<1> HIDE DEF p, q
<1>3. Keyboard!KeptAs((q \o c) \o u, (p \o c) \o u, K)
  BY <1>1, <1>2, TailRegrouped, Zenon
<1> QED
  BY <1>3 DEF p, q

(* All parts of the stream are sequences of bytes.                         *)
LEMMA StreamTyped ==
    ASSUME TextTyped, NEW r, Tidy(r)
    PROVE  /\ got \in Seq(AnyBytes) /\ LatchedIn(r) \in Seq(AnyBytes)
           /\ r.clipboard \in Seq(AnyBytes) /\ text \in Seq(AnyBytes)
<1>1. /\ \A s \in Seq(Converted) : s \in Seq(AnyBytes)
      /\ \A s \in Seq(DOMAIN Width) : s \in Seq(AnyBytes)
  <2>1. Converted \subseteq AnyBytes /\ DOMAIN Width \subseteq AnyBytes
    BY DEF AnyBytes
  <2> QED
    BY <2>1
<1>2. LatchedIn(r) \in Seq(Converted)
  <2>1. CASE r.strobe /\ r.latch # None
    BY <2>1 DEF LatchedIn, Tidy
  <2>2. CASE ~(r.strobe /\ r.latch # None)
    BY <2>2 DEF LatchedIn
  <2> QED
    BY <2>1, <2>2
<1> QED
  BY <1>1, <1>2 DEF TextTyped, Tidy

(* A handler that lets the stream be.                                      *)
LEMMA SameKept ==
    ASSUME NEW r, NEW s, KeptIn(r), DOMAIN s = Fields, s.clipboard = r.clipboard,
           s.latch = r.latch, s.strobe = r.strobe, s.lost = r.lost
    PROVE  KeptIn(s)
<1>1. LatchedIn(s) = LatchedIn(r)
  BY DEF LatchedIn
<1>2. StreamIn(s) = StreamIn(r)
  BY <1>1 DEF StreamIn
<1> QED
  BY <1>2 DEF KeptIn, Tidy

(* A typed key loses what is in the latch.                                 *)
LEMMA TypedKept ==
    ASSUME TextTyped, NEW r, NEW s, KeptIn(r), DOMAIN s = Fields, s.clipboard = r.clipboard,
           s.latch = None, s.strobe \in BOOLEAN, s.lost = r.lost \union Keyboard!Pasted(r)
    PROVE  KeptIn(s)
<1>1. Tidy(r) /\ Tidy(s)
  BY DEF KeptIn, Tidy
<1>2. LatchedIn(s) = << >> /\ Range(LatchedIn(r)) \subseteq s.lost
  <2>1. LatchedIn(s) = << >>
    BY DEF LatchedIn
  <2>2. CASE r.strobe /\ r.latch # None
    <3>1. LatchedIn(r) = <<r.latch>> /\ Keyboard!Pasted(r) = {r.latch}
      BY <2>2 DEF LatchedIn, Keyboard!Pasted
    <3>2. Range(<<r.latch>>) = {r.latch}
      BY DEF Range
    <3> QED
      BY <2>1, <3>1, <3>2
  <2>3. CASE ~(r.strobe /\ r.latch # None)
    <3>1. LatchedIn(r) = << >>
      BY <2>3 DEF LatchedIn
    <3>2. Range(<< >>) = {}
      BY DEF Range
    <3> QED
      BY <2>1, <3>1, <3>2
  <2> QED
    BY <2>2, <2>3
<1> DEFINE K == Plain \ s.lost
           a == LatchedIn(r)
           b == LatchedIn(s)
<1>3. /\ got \in Seq(AnyBytes) /\ a \in Seq(AnyBytes) /\ b \in Seq(AnyBytes)
      /\ r.clipboard \in Seq(AnyBytes) /\ text \in Seq(AnyBytes)
  BY <1>1, StreamTyped
<1>4. Range(a) \intersect K = {} /\ Range(b) \intersect K = {}
  <2>1. Range(<< >>) = {}
    BY DEF Range
  <2> QED
    BY <1>2, <2>1
<1> HIDE DEF a, b, K
<1>5. StreamIn(r) = got \o a \o r.clipboard \o text /\ StreamIn(s) = got \o b \o r.clipboard \o text
  BY DEF StreamIn, a, b
<1>6. Keyboard!KeptAs(StreamIn(s), StreamIn(r), K)
  <2>1. Keyboard!KeptAs(got \o b \o r.clipboard \o text, got \o a \o r.clipboard \o text, K)
    BY <1>3, <1>4, MiddleExchanged
  <2> QED
    BY <1>5, <2>1
<1>7. AllPlain => Keyboard!KeptAs(StreamIn(s), whole, K)
  <2>1. K \subseteq Plain \ r.lost
    BY DEF K
  <2> QED
    BY <1>6, <2>1, KeptThrough DEF KeptIn
<1> QED
  BY <1>1, <1>7 DEF KeptIn, K

LEMMA PasteKept ==
    ASSUME TextTyped, NEW r, KeptIn(r), r.clipboard # << >>
    PROVE  KeptIn(Keyboard!clipboard_paste(r))
<1> DEFINE s == Keyboard!clipboard_paste(r)
           c == r.clipboard
           b == Head(c)
           d == Tail(c)
<1>1. CASE ~Keyboard!MayPaste(r)
  BY <1>1 DEF Keyboard!clipboard_paste
<1>2. CASE Keyboard!MayPaste(r)
  <2>1. DOMAIN r = Fields /\ r.strobe = FALSE /\ c \in Seq(Converted)
    BY <1>2 DEF KeptIn, Tidy, Keyboard!MayPaste
  <2>2. /\ DOMAIN s = Fields /\ s.clipboard = d /\ s.latch = b /\ s.strobe = TRUE
        /\ s.lost = r.lost
    BY <1>2, <2>1 DEF Keyboard!clipboard_paste, Fields
  <2>3. b \in Converted /\ d \in Seq(Converted) /\ c = <<b>> \o d
    BY <2>1
  <2>4. b # None
    BY <2>3, ConvertedBytes
  <2> HIDE DEF s, b, d
  <2>5. Tidy(r) /\ Tidy(s)
    BY <2>2, <2>3 DEF KeptIn, Tidy
  <2>6. LatchedIn(r) = << >> /\ LatchedIn(s) = <<b>>
    BY <2>1, <2>2, <2>4 DEF LatchedIn
  <2>7. /\ got \in Seq(AnyBytes) /\ c \in Seq(AnyBytes) /\ text \in Seq(AnyBytes)
        /\ <<b>> \in Seq(AnyBytes) /\ d \in Seq(AnyBytes)
    BY <2>2, <2>5, <2>6, StreamTyped
  <2> HIDE DEF c
  <2>8. StreamIn(s) = StreamIn(r)
    <3> DEFINE x == <<b>>
    <3>1. StreamIn(s) = got \o x \o d \o text
      BY <2>2, <2>6 DEF StreamIn
    <3>2. StreamIn(r) = got \o << >> \o c \o text
      BY <2>6 DEF StreamIn, c
    <3>3. got \o << >> = got
      BY <2>7, ConcatEmptySeq
    <3>4. x \in Seq(AnyBytes) /\ c = x \o d
      BY <2>3, <2>7
    <3> HIDE DEF x
    <3>5. got \o x \o d = got \o (x \o d)
      BY <2>7, <3>4, Regrouped
    <3> QED
      BY <3>1, <3>2, <3>3, <3>4, <3>5
  <2>9. KeptIn(s)
    BY <2>2, <2>5, <2>8 DEF KeptIn
  <2> QED
    BY <2>9 DEF s
<1> QED
  BY <1>1, <1>2

LEMMA SendKept ==
    ASSUME TextTyped, NEW r, NEW e, KeptIn(r)
    PROVE  KeptIn(Keyboard!keyb_send_to_host(r, e))
<1> DEFINE s == Keyboard!keyb_send_to_host(r, e)
<1>1. DOMAIN r = Fields
  BY DEF KeptIn, Tidy
<1>2. CASE ~Keyboard!Types(r, e.key)
  BY <1>2 DEF Keyboard!keyb_send_to_host
<1>3. CASE Keyboard!Types(r, e.key) /\ ~e.down
  <2>1. /\ DOMAIN s = Fields /\ s.clipboard = r.clipboard /\ s.latch = r.latch
        /\ s.strobe = r.strobe /\ s.lost = r.lost
    BY <1>1, <1>3 DEF Keyboard!keyb_send_to_host, Fields
  <2> HIDE DEF s
  <2>2. KeptIn(s)
    BY <2>1, SameKept
  <2> QED
    BY <2>2 DEF s
<1>4. CASE Keyboard!Types(r, e.key) /\ e.down
  <2>1. /\ DOMAIN s = Fields /\ s.clipboard = r.clipboard /\ s.latch = None
        /\ s.strobe = TRUE /\ s.lost = r.lost \union Keyboard!Pasted(r)
    BY <1>1, <1>4 DEF Keyboard!keyb_send_to_host, Fields
  <2> HIDE DEF s
  <2>2. KeptIn(s)
    BY <2>1, TypedKept
  <2> QED
    BY <2>2 DEF s
<1> QED
  BY <1>2, <1>3, <1>4

LEMMA HandOverKept ==
    ASSUME TextTyped, NEW r, NEW send_to_host, KeptIn(r)
    PROVE  KeptIn(Keyboard!HandOver(r, send_to_host))
<1> DEFINE e == Head(r.queue)
           u == Keyboard!unqueue_key(r)
           p == Keyboard!keyb_parse(u, e)
<1>1. DOMAIN r = Fields
  BY DEF KeptIn, Tidy
<1>2. /\ DOMAIN u = Fields /\ u.clipboard = r.clipboard /\ u.latch = r.latch
      /\ u.strobe = r.strobe /\ u.lost = r.lost
  BY <1>1 DEF Keyboard!unqueue_key, Fields
<1> HIDE DEF u, e
<1>3. /\ DOMAIN p = Fields /\ p.clipboard = u.clipboard /\ p.latch = u.latch
      /\ p.strobe = u.strobe /\ p.lost = u.lost
  BY <1>2 DEF Keyboard!keyb_parse, Fields
<1>4. Keyboard!HandOver(r, send_to_host) =
         IF send_to_host THEN Keyboard!keyb_send_to_host(p, e) ELSE p
  BY Zenon DEF Keyboard!HandOver, u, e
<1> HIDE DEF p
<1>5. KeptIn(p)
  BY <1>2, <1>3, SameKept
<1>6. KeptIn(Keyboard!keyb_send_to_host(p, e))
  BY <1>5, SendKept
<1> QED
  BY <1>4, <1>5, <1>6

LEMMA TalkKept ==
    ASSUME TextTyped, NEW r, NEW send_to_host, KeptIn(r)
    PROVE  KeptIn(Keyboard!keyb_talk(r, send_to_host))
<1> DEFINE s == Keyboard!keyb_talk(r, send_to_host)
           first == Keyboard!HandOver(r, send_to_host)
<1>1. CASE r.queue = << >>
  BY <1>1 DEF Keyboard!keyb_talk
<1>2. CASE r.queue # << >> /\ Head(r.queue).key = RESET
  <2>1. DOMAIN r = Fields
    BY DEF KeptIn, Tidy
  <2>2. /\ DOMAIN s = Fields /\ s.clipboard = r.clipboard /\ s.latch = r.latch
        /\ s.strobe = r.strobe /\ s.lost = r.lost
    BY <1>2, <2>1 DEF Keyboard!keyb_talk, Keyboard!unqueue_key, Fields
  <2> HIDE DEF s
  <2>3. KeptIn(s)
    BY <2>2, SameKept
  <2> QED
    BY <2>3 DEF s
<1>3. CASE r.queue # << >> /\ Head(r.queue).key # RESET
  <2>1. KeptIn(first)
    BY HandOverKept
  <2>2. s = IF first.queue # << >> /\ Head(first.queue) # Keyboard!Press(RESET)
            THEN Keyboard!HandOver(first, send_to_host) ELSE first
    BY <1>3, Zenon DEF Keyboard!keyb_talk, Keyboard!HandOverSecond
  <2> HIDE DEF first, s
  <2>3. KeptIn(Keyboard!HandOver(first, send_to_host))
    BY <2>1, HandOverKept
  <2>4. KeptIn(s)
    BY <2>1, <2>2, <2>3
  <2> QED
    BY <2>4 DEF s
<1> QED
  BY <1>1, <1>2, <1>3

LEMMA QueueKept ==
    ASSUME NEW r, NEW e, KeptIn(r) PROVE KeptIn(Keyboard!queue_key(r, e))
<1> DEFINE s == Keyboard!queue_key(r, e)
<1>1. DOMAIN r = Fields
  BY DEF KeptIn, Tidy
<1>2. /\ DOMAIN s = Fields /\ s.clipboard = r.clipboard /\ s.latch = r.latch
      /\ s.strobe = r.strobe /\ s.lost = r.lost
  BY <1>1 DEF Keyboard!queue_key, Fields
<1> HIDE DEF s
<1>3. KeptIn(s)
  BY <1>2, SameKept
<1> QED
  BY <1>3 DEF s

LEMMA PasteBecomes ==
    ASSUME NEW r, KeptIn(r), Keyboard!Becomes(r), UNCHANGED <<text, whole, got>>, TextTyped
    PROVE  PasteInv'
<1> DEFINE s == Keyboard!Now'
<1>1. /\ DOMAIN s = Fields /\ s.clipboard = r.clipboard /\ s.latch = r.latch
      /\ s.strobe = r.strobe /\ s.lost = r.lost
  BY DEF KeptIn, Tidy, Keyboard!Becomes, Keyboard!Now, Fields
<1> HIDE DEF s
<1>2. KeptIn(s)
  BY <1>1, SameKept
<1>3. AllPlain' <=> AllPlain
  BY DEF AllPlain
<1>4. Tidy(s) /\ (AllPlain => Keyboard!KeptAs(StreamIn(s), whole, Plain \ s.lost))
  BY <1>2 DEF KeptIn
<1> QED
  BY <1>3, <1>4 DEF PasteInv, TextTyped, KeptIn, Tidy, StreamIn, LatchedIn, s

LEMMA PasteStarts == Keyboard!Init => PasteInv
<1> SUFFICES ASSUME Keyboard!Init PROVE PasteInv
  OBVIOUS
<1> DEFINE r == Keyboard!Now
<1>1. /\ got = << >> /\ text = << >> /\ whole = << >> /\ DOMAIN r = Fields
      /\ r.clipboard = << >> /\ r.latch = None /\ r.strobe = FALSE
  BY DEF Keyboard!Init, Keyboard!Now, Fields
<1> HIDE DEF r
<1>2. LatchedIn(r) = << >>
  BY <1>1 DEF LatchedIn
<1>3. StreamIn(r) = << >>
  BY <1>1, <1>2 DEF StreamIn
<1>4. Tidy(r)
  <2>1. << >> \in Seq(Converted)
    OBVIOUS
  <2>2. r.clipboard \in Seq(Converted)
    BY <1>1, <2>1, Zenon
  <2>3. r.strobe \in BOOLEAN /\ r.latch \in Converted \union {None}
    BY <1>1
  <2> QED
    BY <1>1, <2>2, <2>3, Zenon DEF Tidy
<1>5. Keyboard!KeptAs(StreamIn(r), whole, Plain \ r.lost)
  BY <1>1, <1>3, KeptAlike
<1>6. KeptIn(r)
  BY <1>4, <1>5 DEF KeptIn
<1> QED
  BY <1>1, <1>6 DEF PasteInv, TextTyped, r

LEMMA TextSent ==
    ASSUME PasteInv, NEW t \in Texts, Keyboard!SendText(t) PROVE PasteInv'
<1>1. PICK r : r = Keyboard!Now
  OBVIOUS
<1> DEFINE K == Plain \ r.lost
           a == LatchedIn(r)
           c == r.clipboard
           u == text
           front == got \o a \o c
<1>2. /\ whole = << >> /\ text' = t /\ whole' = t /\ got' = got /\ Keyboard!Now' = r
      /\ t \in Seq(DOMAIN Width)
  BY <1>1, DevicesAssumption DEF Keyboard!SendText, Keyboard!Now, Keyboard!KeyboardAssumption
<1>3. KeptIn(r) /\ TextTyped
  BY <1>1 DEF PasteInv
<1>4. /\ got \in Seq(AnyBytes) /\ a \in Seq(AnyBytes) /\ c \in Seq(AnyBytes)
      /\ u \in Seq(AnyBytes) /\ t \in Seq(AnyBytes) /\ front \in Seq(AnyBytes)
  <2>1. Tidy(r)
    BY <1>3 DEF KeptIn
  <2>2. got \in Seq(AnyBytes) /\ a \in Seq(AnyBytes) /\ c \in Seq(AnyBytes) /\ u \in Seq(AnyBytes)
    BY <1>3, <2>1, StreamTyped
  <2>3. t \in Seq(AnyBytes)
    BY <1>2 DEF AnyBytes
  <2> HIDE DEF a, c, u
  <2> QED
    BY <2>2, <2>3, InARow
<1>5. StreamIn(r) = front \o u /\ (StreamIn(r))' = front \o t
  BY <1>2 DEF StreamIn, LatchedIn
<1>6. Range(front) \intersect K = {}
  <2>1. AllPlain
    BY <1>2 DEF AllPlain
  <2>2. Keyboard!KeptAs(StreamIn(r), << >>, K)
    BY <1>2, <1>3, <2>1 DEF KeptIn
  <2>3. Range(StreamIn(r)) \intersect K = Range(<< >>) \intersect K
    BY <2>2, OneRange DEF Keyboard!KeptAs
  <2>4. Range(<< >>) = {}
    BY DEF Range
  <2> HIDE DEF front, u
  <2>5. Range(front \o u) = Range(front) \union Range(u)
    BY <1>4, RangeConcatenation
  <2> QED
    BY <1>5, <2>3, <2>4, <2>5
<1>7. Keyboard!KeptAs(front \o t, t, K)
  <2> DEFINE e == << >>
  <2> HIDE DEF front, K
  <2>1. e \in Seq(AnyBytes) /\ Range(e) \intersect K = {}
    BY DEF Range
  <2>2. front \in Seq(AnyBytes) /\ t \in Seq(AnyBytes)
    BY <1>4
  <2>3. e \o front = front /\ e \o e = e /\ e \o t = t
    BY <2>2, ConcatEmptySeq
  <2> HIDE DEF e
  <2>4. Keyboard!KeptAs(e \o front \o t, e \o e \o t, K)
    BY <1>6, <2>1, <2>2, Exchanged
  <2> QED
    BY <2>3, <2>4
<1>8. (KeptIn(r))'
  <2>1. Tidy(r)'
    BY <1>3 DEF KeptIn, Tidy
  <2>2. Keyboard!KeptAs((StreamIn(r))', whole', K)
    BY <1>2, <1>5, <1>7
  <2> QED
    BY <2>1, <2>2 DEF KeptIn
<1>9. TextTyped'
  BY <1>2, <1>3 DEF TextTyped, AllPlain
<1>10. (KeptIn(Keyboard!Now))'
  BY <1>2, <1>8 DEF KeptIn, Tidy, StreamIn, LatchedIn
<1> QED
  BY <1>9, <1>10 DEF PasteInv

LEMMA InputKept ==
    ASSUME PasteInv, NEW e, Keyboard!device_input(e) PROVE PasteInv'
<1> DEFINE now == Keyboard!Now
           q == Keyboard!queue_key(now, e)
           s == [q EXCEPT !.missed = IF Keyboard!Full(now) THEN @ \union {e.key} ELSE @ \ {e.key}]
<1>1. KeptIn(now) /\ TextTyped
  BY DEF PasteInv
<1>2. Keyboard!Becomes(s) /\ UNCHANGED <<text, whole, got>>
  BY Zenon DEF Keyboard!device_input
<1> HIDE DEF now
<1>3. KeptIn(q)
  BY <1>1, QueueKept
<1> HIDE DEF q
<1>4. DOMAIN q = Fields
  BY <1>3 DEF KeptIn, Tidy
<1>5. /\ DOMAIN s = Fields /\ s.clipboard = q.clipboard /\ s.latch = q.latch
      /\ s.strobe = q.strobe /\ s.lost = q.lost
  BY <1>4 DEF Fields
<1> HIDE DEF s
<1>6. KeptIn(s)
  BY <1>3, <1>5, SameKept
<1> QED
  BY <1>1, <1>2, <1>6, PasteBecomes

LEMMA PollKept ==
    ASSUME PasteInv, NEW auto \in BOOLEAN, NEW due \in BOOLEAN, Keyboard!Poll(auto, due)
    PROVE  PasteInv'
<1> DEFINE now == Keyboard!Now
           r == IF clipboard # << >> THEN Keyboard!clipboard_paste(now)
                ELSE IF due THEN Keyboard!Repeated(now) ELSE now
           s == IF auto THEN Keyboard!keyb_talk(r, TRUE) ELSE r
<1>1. KeptIn(now) /\ TextTyped /\ now.clipboard = clipboard
  BY DEF PasteInv, Keyboard!Now
<1>2. Keyboard!Becomes(s) /\ UNCHANGED <<text, whole, got>>
  BY Zenon DEF Keyboard!Poll
<1> HIDE DEF now
<1>3. KeptIn(Keyboard!Repeated(now))
  <2>1. KeptIn(Keyboard!queue_key(now, Keyboard!Press(now.repeating)))
    BY <1>1, QueueKept
  <2> QED
    BY <1>1, <2>1, Zenon DEF Keyboard!Repeated
<1>4. KeptIn(r)
  BY <1>1, <1>3, PasteKept
<1> HIDE DEF r
<1>5. KeptIn(s)
  BY <1>1, <1>4, TalkKept
<1> HIDE DEF s
<1> QED
  BY <1>1, <1>2, <1>5, PasteBecomes

LEMMA AskedKept == ASSUME PasteInv, Keyboard!POLL_0 PROVE PasteInv'
<1> DEFINE now == Keyboard!Now
           s == Keyboard!keyb_talk(now, FALSE)
<1>1. KeptIn(now) /\ TextTyped
  BY DEF PasteInv
<1>2. Keyboard!Becomes(s) /\ UNCHANGED <<text, whole, got>>
  BY Zenon DEF Keyboard!POLL_0
<1> HIDE DEF now
<1>3. KeptIn(s)
  BY <1>1, TalkKept, Zenon
<1> HIDE DEF s
<1> QED
  BY <1>1, <1>2, <1>3, PasteBecomes

LEMMA KeycodeKept ==
    ASSUME PasteInv, NEW e, Keyboard!SEND_ADB_KEYCODE(e) PROVE PasteInv'
<1> DEFINE now == Keyboard!Now
           s == Keyboard!keyb_send_to_host(now, e)
<1>1. KeptIn(now) /\ TextTyped
  BY DEF PasteInv
<1>2. Keyboard!Becomes(s) /\ UNCHANGED <<text, whole, got>>
  BY Zenon DEF Keyboard!SEND_ADB_KEYCODE
<1> HIDE DEF now
<1>3. KeptIn(s)
  BY <1>1, SendKept
<1> HIDE DEF s
<1> QED
  BY <1>1, <1>2, <1>3, PasteBecomes

(* A reset clears the buffer and takes note of it.                         *)
LEMMA PasteReset == ASSUME PasteInv, Keyboard!Reset PROVE PasteInv'
<1> DEFINE r == Keyboard!Now
           s == [r EXCEPT
                   !.queue = << >>, !.repeating = None, !.reset = FALSE, !.clipboard = << >>,
                   !.missed = @ \union Keyboard!Waiting,
                   !.lost = @ \union {clipboard[i] : i \in DOMAIN clipboard}]
           c == r.clipboard
           e == << >>
           a == LatchedIn(r)
           front == got \o a
           K == Plain \ s.lost
<1>1. KeptIn(r) /\ TextTyped /\ r.clipboard = clipboard
  BY DEF PasteInv, Keyboard!Now
<1>2. Keyboard!Becomes(s) /\ UNCHANGED <<text, whole, got>>
  BY Zenon DEF Keyboard!Reset
<1>3. Tidy(r) /\ DOMAIN r = Fields
  BY <1>1 DEF KeptIn, Tidy
<1> HIDE DEF r
<1>4. /\ DOMAIN s = Fields /\ s.clipboard = e /\ s.latch = r.latch /\ s.strobe = r.strobe
      /\ s.lost = r.lost \union Range(c)
  BY <1>1, <1>3 DEF Fields, Range
<1> HIDE DEF s
<1>5. Tidy(s)
  BY <1>3, <1>4 DEF Tidy
<1>6. /\ got \in Seq(AnyBytes) /\ a \in Seq(AnyBytes) /\ c \in Seq(AnyBytes)
      /\ text \in Seq(AnyBytes)
  BY <1>1, <1>3, StreamTyped
<1>7. e \in Seq(AnyBytes) /\ Range(e) \intersect K = {} /\ Range(c) \intersect K = {}
  BY <1>4 DEF Range
<1>8. StreamIn(r) = front \o c \o text /\ StreamIn(s) = front \o e \o text
  BY <1>4 DEF StreamIn, LatchedIn
<1> HIDE DEF a, e, c, K
<1>9. front \in Seq(AnyBytes)
  BY <1>6, Regrouped
<1> HIDE DEF front
<1>10. Keyboard!KeptAs(front \o e \o text, front \o c \o text, K)
  BY <1>6, <1>7, <1>9, Exchanged
<1>11. AllPlain => Keyboard!KeptAs(StreamIn(s), whole, K)
  <2>1. K \subseteq Plain \ r.lost
    BY <1>4 DEF K
  <2> QED
    BY <1>1, <1>8, <1>10, <2>1, KeptThrough DEF KeptIn
<1>12. KeptIn(s)
  BY <1>5, <1>11 DEF KeptIn, K
<1> QED
  BY <1>1, <1>2, <1>12, PasteBecomes

(* The guest takes what is in the latch.                                   *)
LEMMA StrobeKept == ASSUME PasteInv, Keyboard!key_strobe PROVE PasteInv'
<1>1. PICK r : r = Keyboard!Now
  OBVIOUS
<1>2. PICK s : s = [r EXCEPT !.strobe = FALSE]
  OBVIOUS
<1>3. KeptIn(r) /\ TextTyped /\ Tidy(r) /\ DOMAIN r = Fields
  BY <1>1 DEF PasteInv, KeptIn, Tidy
<1>4. /\ DOMAIN s = Fields /\ s.clipboard = r.clipboard /\ s.latch = r.latch
      /\ s.strobe = FALSE /\ s.lost = r.lost
  BY <1>2, <1>3 DEF Fields
<1>5. /\ r.strobe = TRUE /\ text' = text /\ whole' = whole
      /\ got' = (IF r.latch = None THEN got ELSE Append(got, r.latch))
  BY <1>1, <1>3 DEF Keyboard!key_strobe, Keyboard!Now, Tidy
<1>6. /\ Keyboard!Now'.clipboard = s.clipboard /\ Keyboard!Now'.latch = s.latch
      /\ Keyboard!Now'.strobe = s.strobe /\ Keyboard!Now'.lost = s.lost
      /\ DOMAIN Keyboard!Now' = Fields
  BY <1>1, <1>4 DEF Keyboard!key_strobe, Keyboard!Now, Fields
<1>7. /\ got \in Seq(AnyBytes) /\ LatchedIn(r) \in Seq(AnyBytes)
      /\ r.clipboard \in Seq(AnyBytes) /\ text \in Seq(AnyBytes)
  BY <1>3, StreamTyped
<1>8. got' = got \o LatchedIn(r) /\ got' \in Seq(Converted)
  <2>1. CASE r.latch = None
    <3>1. LatchedIn(r) = << >> /\ got' = got
      BY <1>5, <2>1 DEF LatchedIn
    <3> QED
      BY <1>3, <1>7, <3>1, ConcatEmptySeq DEF TextTyped
  <2>2. CASE r.latch # None
    <3>1. LatchedIn(r) = <<r.latch>> /\ got' = Append(got, r.latch) /\ r.latch \in Converted
      BY <1>3, <1>5, <2>2 DEF LatchedIn, Tidy
    <3>2. got \in Seq(Converted)
      BY <1>3 DEF TextTyped
    <3> QED
      BY <3>1, <3>2, AppendIsConcat
  <2> QED
    BY <2>1, <2>2
<1>9. (StreamIn(s))' = StreamIn(r)
  <2>1. (LatchedIn(s))' = << >>
    BY <1>4 DEF LatchedIn
  <2> DEFINE front == got \o LatchedIn(r)
  <2>2. (StreamIn(s))' = front \o << >> \o r.clipboard \o text
    BY <1>4, <1>5, <1>8, <2>1 DEF StreamIn
  <2>3. front \in Seq(AnyBytes)
    BY <1>7, Regrouped
  <2> HIDE DEF front
  <2>4. front \o << >> = front
    BY <2>3, ConcatEmptySeq
  <2> QED
    BY <2>2, <2>4 DEF StreamIn, front
<1>10. (KeptIn(s))'
  <2>1. Tidy(s)'
    BY <1>3, <1>4 DEF Tidy
  <2>2. AllPlain' <=> AllPlain
    BY <1>5 DEF AllPlain
  <2> QED
    BY <1>3, <1>4, <1>5, <1>9, <2>1, <2>2 DEF KeptIn
<1>11. TextTyped'
  BY <1>3, <1>5, <1>8 DEF TextTyped, AllPlain
<1>12. (KeptIn(Keyboard!Now))'
  BY <1>6, <1>10 DEF KeptIn, Tidy, StreamIn, LatchedIn
<1> QED
  BY <1>11, <1>12 DEF PasteInv

LEMMA CutShort ==
    ASSUME NEW S, NEW a \in Seq(S), NEW b \in Seq(S), NEW n \in Len(a) .. Len(a) + Len(b)
    PROVE  SubSeq(a \o b, 1, n) = a \o SubSeq(b, 1, n - Len(a))
<1> DEFINE t == a \o b
           l == SubSeq(t, 1, n)
           c == SubSeq(b, 1, n - Len(a))
           r == a \o c
<1>1. /\ Len(a) \in Nat /\ Len(b) \in Nat /\ t \in Seq(S) /\ Len(t) = Len(a) + Len(b)
      /\ \A i \in 1 .. Len(a) + Len(b) : t[i] = IF i <= Len(a) THEN a[i] ELSE b[i - Len(a)]
  BY ConcatProperties
<1> HIDE DEF t
<1>2. l \in Seq(S) /\ Len(l) = n /\ \A i \in 1 .. n : l[i] = t[i]
  <2>1. \A i \in 1 .. n : t[i] \in S
    BY <1>1
  <2> QED
    BY <1>1, <2>1, SubSeqProperties
<1>3. /\ c \in Seq(S) /\ Len(c) = n - Len(a)
      /\ \A i \in 1 .. n - Len(a) : c[i] = b[i]
  <2>1. \A i \in 1 .. n - Len(a) : b[i] \in S
    BY <1>1
  <2> QED
    BY <1>1, <2>1, SubSeqProperties
<1> HIDE DEF l, c
<1>4. /\ r \in Seq(S) /\ Len(r) = n
      /\ \A i \in 1 .. n : r[i] = IF i <= Len(a) THEN a[i] ELSE c[i - Len(a)]
  <2>1. Len(a) + Len(c) = n
    BY <1>1, <1>3
  <2> QED
    BY <1>3, <2>1, ConcatProperties
<1> HIDE DEF r
<1>5. ASSUME NEW i \in 1 .. n PROVE l[i] = r[i]
  <2>1. i \in 1 .. Len(a) + Len(b) /\ l[i] = t[i]
    BY <1>1, <1>2
  <2>2. CASE i <= Len(a)
    BY <1>1, <1>4, <2>1, <2>2
  <2>3. CASE ~(i <= Len(a))
    <3>1. i - Len(a) \in 1 .. n - Len(a)
      BY <1>1, <2>3
    <3> QED
      BY <1>1, <1>3, <1>4, <2>1, <2>3, <3>1
  <2> QED
    BY <2>2, <2>3
<1>6. l = r
  BY <1>2, <1>4, <1>5, SeqEqual
<1> QED
  BY <1>6 DEF l, r, c, t

LEMMA RoomForOne ==
    ASSUME NEW l \in Nat, NEW k \in Nat, NEW most \in Nat \ {0}, 2 * l <= most
    PROVE  LET n == Keyboard!Least(l + k, most)
           IN n \in l .. l + k /\ n - l \in 0 .. k /\ (k = 1 => n - l = 1)
BY DEF Keyboard!Least

(* An atom moves from the text to the buffer, and of a plain byte nothing  *)
(* is cut off.                                                             *)
LEMMA AtomKept == ASSUME PasteInv, Keyboard!push_utf8_atom PROVE PasteInv'
<1>1. PICK r : r = Keyboard!Now
  OBVIOUS
<1> DEFINE h == Head(text)
           w == Width[h]
           c == r.clipboard
           E == Encoded[h]
           filled == c \o E
           n == Keyboard!Least(Len(filled), CLIPBOARD_BUFFER_LIMIT)
           e == SubSeq(E, 1, n - Len(c))
           front == got \o LatchedIn(r) \o c
           K == Plain \ r.lost
<1>s. PICK s : s = (Keyboard!Now)'
  OBVIOUS
<1>2. KeptIn(r) /\ TextTyped /\ Tidy(r) /\ DOMAIN r = Fields
  BY <1>1 DEF PasteInv, KeptIn, Tidy
<1>3. /\ DOMAIN s = Fields /\ s.latch = r.latch /\ s.strobe = r.strobe /\ s.lost = r.lost
      /\ s.clipboard = clipboard' /\ c = clipboard
      /\ got' = got /\ whole' = whole
  BY <1>1, <1>s DEF Keyboard!push_utf8_atom, Keyboard!Now, Fields
<1>4. /\ text # << >> /\ 2 * Len(c) <= CLIPBOARD_BUFFER_LIMIT
      /\ IF w = 0 \/ w > Len(text)
         THEN text' = << >> /\ clipboard' = clipboard
         ELSE /\ clipboard' = SubSeq(filled, 1, n)
              /\ text' = SubSeq(text, (IF w = 1 THEN 2 ELSE w), Len(text))
  BY <1>3 DEF Keyboard!push_utf8_atom, Keyboard!Room
<1>5. /\ CLIPBOARD_BUFFER_LIMIT \in Nat \ {0} /\ h \in DOMAIN Width /\ w \in Nat
      /\ text \in Seq(DOMAIN Width)
  BY <1>2, <1>4, DevicesAssumption DEF TextTyped, Keyboard!KeyboardAssumption
<1>6. E \in Seq(Converted) /\ (h \in Plain => E = <<h>>)
      /\ (h \notin Plain => Range(E) \intersect Plain = {})
  BY <1>5, ConvertedBytes
<1>7. c \in Seq(Converted)
  BY <1>2 DEF Tidy
<1> HIDE DEF h, E, c
<1>l. Len(c) \in Nat /\ Len(E) \in Nat
  BY <1>6, <1>7
<1>8. /\ n \in Len(c) .. Len(c) + Len(E)
      /\ n - Len(c) \in 0 .. Len(E) /\ (Len(E) = 1 => n - Len(c) = 1)
  <2> DEFINE l == Len(c)
             k == Len(E)
  <2>1. n = Keyboard!Least(l + k, CLIPBOARD_BUFFER_LIMIT)
    BY <1>6, <1>7, ConcatProperties
  <2>2. /\ l \in Nat /\ k \in Nat
        /\ 2 * l <= CLIPBOARD_BUFFER_LIMIT /\ CLIPBOARD_BUFFER_LIMIT \in Nat \ {0}
    BY <1>l, <1>4, <1>5
  <2> HIDE DEF l, k, n
  <2>3. n \in l .. l + k /\ n - l \in 0 .. k /\ (k = 1 => n - l = 1)
    BY <2>1, <2>2, RoomForOne
  <2> QED
    BY <2>3 DEF l, k
<1>9. SubSeq(filled, 1, n) = c \o e
  <2> HIDE DEF n
  <2> QED
    BY <1>6, <1>7, <1>8, CutShort
<1> HIDE DEF n, filled
<1>10. /\ e \in Seq(Converted) /\ Range(e) \subseteq Range(E)
       /\ h \in Plain => e = <<h>>
  <2>1. /\ Len(c) \in Nat /\ Len(E) \in Nat /\ n - Len(c) \in 0 .. Len(E)
        /\ Len(E) = 1 => n - Len(c) = 1
    BY <1>l, <1>8, Zenon
  <2> DEFINE m == n - Len(c)
  <2>2. m \in 0 .. Len(E) /\ (Len(E) = 1 => m = 1)
    BY <2>1
  <2> HIDE DEF m
  <2>3. \A i \in 1 .. m : E[i] \in Range(E)
    BY <1>6, <2>1, <2>2 DEF Range
  <2>4. Range(E) \subseteq Converted
    BY <1>6, RangeOfSeq
  <2>5. SubSeq(E, 1, m) \in Seq(Range(E))
    BY <1>6, <2>1, <2>2, <2>3, SubSeqProperties
  <2>6. SubSeq(E, 1, m) \in Seq(Converted) /\ Range(SubSeq(E, 1, m)) \subseteq Range(E)
    <3> DEFINE x == SubSeq(E, 1, m)
               R == Range(E)
    <3>1. x \in Seq(R) /\ R \subseteq Converted
      BY <2>4, <2>5
    <3> HIDE DEF x, R
    <3>2. x \in Seq(Converted) /\ Range(x) \subseteq R
      BY <3>1, RangeOfSeq
    <3> QED
      BY <3>2 DEF x, R
  <2>7. h \in Plain => SubSeq(E, 1, m) = <<h>>
    <3> SUFFICES ASSUME h \in Plain PROVE SubSeq(E, 1, m) = <<h>>
      OBVIOUS
    <3>1. E = <<h>>
      BY <1>6
    <3>2. Len(E) = 1
      BY <3>1
    <3>3. m = 1
      BY <2>2, <3>2
    <3>4. SubSeq(<<h>>, 1, 1) = <<h>>
      <4> DEFINE x == <<h>>
      <4>1. x \in Seq({h}) /\ Len(x) = 1
        OBVIOUS
      <4> HIDE DEF x
      <4>2. SubSeq(x, 1, 1) = x
        BY <4>1, SubSeqFull
      <4> QED
        BY <4>2 DEF x
    <3> QED
      BY <3>1, <3>3, <3>4
  <2> QED
    BY <2>6, <2>7 DEF m
<1> HIDE DEF e
<1>11. clipboard' \in Seq(Converted) /\ text' \in Seq(DOMAIN Width)
  <2>1. CASE w = 0 \/ w > Len(text)
    <3>1. clipboard' = c /\ text' = << >>
      BY <1>3, <1>4, <2>1
    <3>2. << >> \in Seq(DOMAIN Width)
      OBVIOUS
    <3> QED
      BY <1>7, <3>1, <3>2, Zenon
  <2>2. CASE ~(w = 0 \/ w > Len(text))
    <3>1. clipboard' = c \o e
      BY <1>4, <1>9, <2>2
    <3>2. text' \in Seq(DOMAIN Width)
      <4> DEFINE k == IF w = 1 THEN 2 ELSE w
      <4>1. text' = SubSeq(text, k, Len(text))
        BY <1>4, <2>2
      <4>2. k \in 1 .. Len(text) + 1
        BY <1>5, <2>2
      <4> HIDE DEF k
      <4>3. \A i \in k .. Len(text) : text[i] \in DOMAIN Width
        BY <1>5, <4>2
      <4> QED
        BY <1>5, <4>1, <4>2, <4>3, SubSeqProperties
    <3> QED
      BY <1>7, <1>10, <3>1, <3>2, ConcatProperties
  <2> QED
    BY <2>1, <2>2
<1>12. Tidy(s)
  BY <1>2, <1>3, <1>11 DEF Tidy
<1>13. ASSUME AllPlain
       PROVE  /\ clipboard' = c \o e /\ text' = Tail(text)
              /\ \A i \in DOMAIN text' : Width[text'[i]] = 1
  <2>1. \A i \in DOMAIN text : Width[text[i]] = 1
    BY <1>2, <1>13 DEF TextTyped
  <2>2. Len(text) \in Nat /\ Len(text) >= 1 /\ 1 \in DOMAIN text /\ h = text[1]
    BY <1>4, <1>5 DEF h
  <2>3. w = 1
    BY <2>1, <2>2
  <2>4. clipboard' = c \o e /\ text' = SubSeq(text, 2, Len(text))
    <3> HIDE DEF w
    <3>1. ~(w = 0 \/ w > Len(text)) /\ (IF w = 1 THEN 2 ELSE w) = 2
      BY <2>2, <2>3
    <3> QED
      BY <1>4, <1>9, <3>1
  <2>5. text' = Tail(text)
    BY <1>5, <2>4
  <2>6. Len(text') = Len(text) - 1 /\ \A i \in 1 .. Len(text) - 1 : text'[i] = text[i + 1]
    BY <1>4, <1>5, <2>5
  <2> QED
    BY <1>11, <2>1, <2>2, <2>4, <2>5, <2>6
<1>14. ASSUME AllPlain PROVE Keyboard!KeptAs((StreamIn(s))', whole', K)
  <2> DEFINE rest == Tail(text)
             one == <<h>>
             a == got \o LatchedIn(r)
  <2>1. /\ got \in Seq(AnyBytes) /\ LatchedIn(r) \in Seq(AnyBytes) /\ c \in Seq(AnyBytes)
        /\ text \in Seq(AnyBytes)
    BY <1>2, StreamTyped DEF c
  <2>2. front \in Seq(AnyBytes) /\ a \in Seq(AnyBytes)
    BY <2>1, InARow, Regrouped
  <2>3. /\ one \in Seq(AnyBytes) /\ rest \in Seq(AnyBytes) /\ text = one \o rest
        /\ Range(one) = {h}
    BY <1>4, <2>1 DEF h, Range
  <2>4. e \in Seq(AnyBytes)
    <3>1. Converted \subseteq AnyBytes
      BY DEF AnyBytes
    <3> QED
      BY <1>10, <3>1
  <2>5. StreamIn(r) = front \o one \o rest
    <3>1. StreamIn(r) = front \o text
      BY DEF StreamIn, c
    <3> HIDE DEF one, rest, front
    <3> QED
      BY <2>2, <2>3, <3>1, Regrouped
  <2>6. (StreamIn(s))' = front \o e \o rest
    <3>1. (LatchedIn(s))' = LatchedIn(r)
      BY <1>3 DEF LatchedIn
    <3>2. (StreamIn(s))' = got \o LatchedIn(r) \o (c \o e) \o rest
      BY <1>3, <1>13, <1>14, <3>1 DEF StreamIn
    <3> HIDE DEF a, rest
    <3>3. a \o (c \o e) = (a \o c) \o e
      <4>1. a \in Seq(AnyBytes) /\ c \in Seq(AnyBytes) /\ e \in Seq(AnyBytes)
        BY <2>1, <2>2, <2>4
      <4> QED
        BY <4>1, Regrouped
    <3> QED
      BY <3>2, <3>3 DEF a
  <2> HIDE DEF front, rest, K
  <2>7. Keyboard!KeptAs(front \o e \o rest, front \o one \o rest, K)
    <3>1. CASE h \in Plain
      <4>1. e = one
        BY <1>10, <3>1
      <4> QED
        BY <4>1, KeptAlike
    <3>2. CASE h \notin Plain
      <4>1. Range(e) \intersect K = {} /\ Range(one) \intersect K = {}
        BY <1>6, <1>10, <2>3, <3>2 DEF K
      <4> HIDE DEF one
      <4> QED
        BY <2>2, <2>3, <2>4, <4>1, Exchanged
    <3> QED
      BY <3>1, <3>2
  <2>8. Keyboard!KeptAs(StreamIn(r), whole, K)
    BY <1>2, <1>14 DEF KeptIn, K
  <2>9. Keyboard!KeptAs((StreamIn(s))', whole, K)
    BY <2>5, <2>6, <2>7, <2>8, KeptThrough
  <2> QED
    BY <1>3, <2>9
<1>15. AllPlain' <=> AllPlain
  BY <1>3 DEF AllPlain
<1>16. TextTyped'
  BY <1>2, <1>3, <1>11, <1>13, <1>15 DEF TextTyped
<1>17. (KeptIn(Keyboard!Now))'
  <2>1. (KeptIn(s))'
    BY <1>3, <1>12, <1>14, <1>15 DEF KeptIn, Tidy
  <2> QED
    BY <1>s, <2>1 DEF KeptIn, Tidy, StreamIn, LatchedIn
<1> QED
  BY <1>16, <1>17 DEF PasteInv

LEMMA ResetKeyKept == ASSUME PasteInv, Keyboard!SYSTEM_RESET PROVE PasteInv'
<1> DEFINE now == Keyboard!Now
           s == [now EXCEPT !.reset = TRUE]
<1>1. KeptIn(now) /\ TextTyped
  BY DEF PasteInv
<1>2. Keyboard!Becomes(s) /\ UNCHANGED <<text, whole, got>>
  BY Zenon DEF Keyboard!SYSTEM_RESET
<1> HIDE DEF now
<1>3. DOMAIN now = Fields
  BY <1>1 DEF KeptIn, Tidy
<1>4. /\ DOMAIN s = Fields /\ s.clipboard = now.clipboard /\ s.latch = now.latch
      /\ s.strobe = now.strobe /\ s.lost = now.lost
  BY <1>3 DEF Fields
<1> HIDE DEF s
<1>5. KeptIn(s)
  BY <1>1, <1>4, SameKept
<1> QED
  BY <1>1, <1>2, <1>5, PasteBecomes

LEMMA PasteStays == PasteInv /\ [Keyboard!Next]_(Keyboard!vars) => PasteInv'
<1> SUFFICES ASSUME PasteInv, [Keyboard!Next]_(Keyboard!vars) PROVE PasteInv'
  OBVIOUS
<1>1. ASSUME NEW e \in Keyboard!Events, Keyboard!device_input(e) PROVE PasteInv'
  BY <1>1, InputKept
<1>2. ASSUME NEW t \in Texts, Keyboard!SendText(t) PROVE PasteInv'
  BY <1>2, TextSent
<1>3. CASE Keyboard!push_utf8_atom
  BY <1>3, AtomKept
<1>4. ASSUME NEW auto \in BOOLEAN, NEW due \in BOOLEAN, Keyboard!Poll(auto, due)
      PROVE  PasteInv'
  BY <1>4, PollKept
<1>5. CASE Keyboard!POLL_0
  BY <1>5, AskedKept
<1>6. CASE Keyboard!SYSTEM_RESET
  BY <1>6, ResetKeyKept
<1>7. CASE Keyboard!key_strobe
  BY <1>7, StrobeKept
<1>8. CASE Keyboard!Reset
  BY <1>8, PasteReset
<1>9. ASSUME NEW e, Keyboard!SEND_ADB_KEYCODE(e) PROVE PasteInv'
  BY <1>9, KeycodeKept
<1>10. CASE UNCHANGED Keyboard!vars
  BY <1>10 DEF PasteInv, TextTyped, KeptIn, Tidy, StreamIn, LatchedIn, AllPlain,
               Keyboard!Now, Keyboard!vars
<1> QED
  BY <1>1, <1>2, <1>3, <1>4, <1>5, <1>6, <1>7, <1>8, <1>9, <1>10, Zenon DEF Keyboard!Next

(* A pasted text of plain bytes reaches the guest whole, each byte once    *)
(* and in order, but for what a typed key overwrote or a reset cleared:    *)
(* for every text, every buffer and every way in which keys, polls, resets *)
(* and reads of the latch interleave (clipboard_paste, push_utf8_atom).    *)
THEOREM PasteIsWhole == Keyboard!Spec => []PasteInOrderOnce
<1>1. PasteInv => PasteInOrderOnce
  <2> SUFFICES ASSUME PasteInv, AllPlain
               PROVE  Keyboard!KeptAs(Keyboard!Stream, whole, Plain \ lost)
    BY DEF PasteInOrderOnce, Keyboard!PasteInOrderOnce, Keyboard!PlainBytesKept, AllPlain
  <2>1. Keyboard!Now.lost = lost /\ Keyboard!Now.strobe = strobe
        /\ Keyboard!Now.latch = latch /\ Keyboard!Now.clipboard = clipboard
    BY DEF Keyboard!Now
  <2>2. Keyboard!Stream = StreamIn(Keyboard!Now)
    BY <2>1 DEF Keyboard!Stream, Keyboard!Latched, StreamIn, LatchedIn
  <2>3. Keyboard!KeptAs(StreamIn(Keyboard!Now), whole, Plain \ Keyboard!Now.lost)
    BY Zenon DEF PasteInv, KeptIn
  <2> QED
    BY <2>1, <2>2, <2>3
<1> QED
  BY <1>1, PasteStarts, PasteStays, PTL DEF Keyboard!Spec
=============================================================================
