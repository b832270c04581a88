------------------------------ MODULE CodeVault ------------------------------
(***************************************************************************)
(* What the runtime store promises its callers, with no clocks, locks,     *)
(* files or dedupe table: every message is settled once.  A message that   *)
(* was never delivered is "unseen"; delivering it either makes its code    *)
(* selectable ("offered") or disposes of it ("gone"); a code that was      *)
(* consumed, cleared, expired or evicted is "gone" and never comes back.   *)
(* RuntimeStore is shown to implement this module.                         *)
(***************************************************************************)
EXTENDS Integers

CONSTANTS
    Messages,   (* the messages the transports deliver                     *)
    ContentOf,  (* the code and service detected in a message, or NoCode   *)
    StampOf,    (* the time a message says it was sent                     *)
    Window      (* the dedupe window between two transports                *)

VARIABLE status

Unseen(m)  == status[m] = "unseen"
Offered(m) == status[m] = "offered"

(* Two deliveries of the same code at nearly the same time.                *)
SameText(m, n) ==
    /\ ContentOf[m] = ContentOf[n]
    /\ StampOf[m] - StampOf[n] <= Window
    /\ StampOf[n] - StampOf[m] <= Window

Init == status = [m \in Messages |-> "unseen"]

(* The code of m becomes selectable; the store may push older codes out.   *)
Offer(m, evicted) ==
    /\ Unseen(m)
    /\ \A n \in evicted : Offered(n)
    /\ \A n \in Messages \ evicted : Offered(n) => ~SameText(m, n)
    /\ status' = [n \in Messages |-> IF n = m THEN "offered"
                                     ELSE IF n \in evicted THEN "gone"
                                     ELSE status[n]]

(* Messages are disposed of: consumed, cleared, expired, duplicates, ...   *)
Settle(settled) ==
    status' = [n \in Messages |-> IF n \in settled THEN "gone" ELSE status[n]]

(* A clear that also forgets which messages were seen starts over.         *)
Forget == status' = [m \in Messages |-> "unseen"]

Next ==
    \/ \E m \in Messages, evicted \in SUBSET Messages : Offer(m, evicted)
    \/ \E settled \in SUBSET Messages : Settle(settled)
    \/ Forget

Spec == Init /\ [][Next]_status
=============================================================================
