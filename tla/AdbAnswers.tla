----------------------------- MODULE AdbAnswers -----------------------------
(* What the ADB microcontroller promises the guest that asks it: a request *)
(* is served, its answer is taken one byte at a time and in order, and an  *)
(* answer of which the first byte may be taken is taken as a whole.  Until *)
(* then another request may replace it.                                    *)
EXTENDS Sequences

CONSTANTS Commands,
          Reply(_),      \* the bytes that answer a command
          None

VARIABLES request, answer, begun
vars == <<request, answer, begun>>

Init == request = None /\ answer = << >> /\ begun = FALSE

Ask(c) == ~begun /\ request = None /\ request' = c /\ answer' = << >> /\ UNCHANGED begun

Forget == ~begun /\ answer' = << >> /\ UNCHANGED <<request, begun>>

Serve ==
    /\ request # None
    /\ request' = None /\ answer' = Reply(request)
    /\ begun' \in {FALSE, answer' # << >>}

Begin == answer # << >> /\ begun' = TRUE /\ UNCHANGED <<request, answer>>

Take ==
    /\ begun
    /\ answer' = Tail(answer) /\ begun' = (Tail(answer) # << >>)
    /\ UNCHANGED request

Next == (\E c \in Commands : Ask(c)) \/ Forget \/ Serve \/ Begin \/ Take

Spec == Init /\ [][Next]_vars
=============================================================================
