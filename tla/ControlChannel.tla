---------------------------- MODULE ControlChannel ----------------------------
(***************************************************************************)
(* What the client promises about its control messages, whatever threads,  *)
(* locks and buffers it uses: a message is either refused when it is       *)
(* submitted, or handed to the device in the order of submission; display  *)
(* sizes travel beside the messages in a slot where a new size replaces    *)
(* one that was not handed over yet.  Once closed, nothing is handed over. *)
(* Controller.tla implements this specification; modules that need only    *)
(* this much of the controller are built on it.                            *)
(***************************************************************************)
EXTENDS Sequences

CONSTANTS
    Msg,      \* the control messages
    Size,     \* the display sizes that can be requested
    NoSize    \* the empty slot

VARIABLES
    pending,  \* messages accepted and not handed over yet
    handed,   \* messages handed over to the device
    slot,     \* the display size to hand over, or NoSize
    lastSize, \* the last display size handed over, or NoSize
    closed    \* nothing is handed over any more

chanVars == <<pending, handed, slot, lastSize, closed>>

ChanInit ==
    /\ pending = <<>>
    /\ handed = <<>>
    /\ slot = NoSize
    /\ lastSize = NoSize
    /\ closed = FALSE

Accept(m) ==
    /\ pending' = Append(pending, m)
    /\ UNCHANGED <<handed, slot, lastSize, closed>>

Request(s) ==
    /\ slot' = s
    /\ UNCHANGED <<pending, handed, lastSize, closed>>

HandOver ==
    /\ ~closed
    /\ pending # <<>>
    /\ handed' = Append(handed, Head(pending))
    /\ pending' = Tail(pending)
    /\ UNCHANGED <<slot, lastSize, closed>>

HandOverSize ==
    /\ ~closed
    /\ slot # NoSize
    /\ lastSize' = slot
    /\ slot' = NoSize
    /\ UNCHANGED <<pending, handed, closed>>

Close ==
    /\ closed' = TRUE
    /\ UNCHANGED <<pending, handed, slot, lastSize>>

ChanNext ==
    \/ \E m \in Msg : Accept(m)
    \/ \E s \in Size : Request(s)
    \/ HandOver
    \/ HandOverSize
    \/ Close

ChanSpec == ChanInit /\ [][ChanNext]_chanVars
===============================================================================
