--------------------------- MODULE OrderedDelivery ---------------------------
(***************************************************************************)
(* What a run of the record pipeline of internal/app promises, without     *)
(* goroutines or channels: records become ready (or are given up) in any   *)
(* order, are delivered to the output in input order with none skipped,    *)
(* and the run ends with one verdict.  The verdict is "ok" only when       *)
(* nothing deliverable was withheld and, unless the run was interrupted,   *)
(* every record of the input was accounted for.  RecordPipeline (one       *)
(* record per call) and BatchPipeline (several per call) implement it.     *)
(***************************************************************************)
EXTENDS Naturals, Sequences

CONSTANT NRec        \* number of records of the input, a natural: they are 0 .. NRec - 1

VARIABLES
    ready,           \* records whose answer was obtained
    lost,            \* records given up after an error
    delivered,       \* record numbers written to the output, oldest first
    interrupted,     \* whether the caller has cancelled the run
    verdict          \* "none" while running, then "ok" or "error"

vars == <<ready, lost, delivered, interrupted, verdict>>

Records == 0 .. NRec - 1

Init ==
    /\ ready = {} /\ lost = {}
    /\ delivered = <<>>
    /\ interrupted = FALSE
    /\ verdict = "none"

(* Answers and errors for some further records arrive; none is ever taken  *)
(* back and no record has both.                                            *)
Resolve ==
    /\ verdict = "none"
    /\ ready' \in SUBSET Records /\ lost' \in SUBSET Records
    /\ ready \subseteq ready' /\ lost \subseteq lost'
    /\ ready' \cap lost' = {}
    /\ UNCHANGED <<delivered, interrupted, verdict>>

(* The next record in input order is delivered; there is never a choice.   *)
Deliver ==
    /\ verdict = "none"
    /\ Len(delivered) \in ready
    /\ delivered' = Append(delivered, Len(delivered))
    /\ UNCHANGED <<ready, lost, interrupted, verdict>>

Interrupt ==
    /\ interrupted' = TRUE
    /\ UNCHANGED <<ready, lost, delivered, verdict>>

(* "ok" leaves nothing deliverable behind and, if the caller did not       *)
(* interrupt, no record without an answer or an error of its own.          *)
Conclude(v) ==
    /\ verdict = "none"
    /\ v = "ok" => /\ Len(delivered) \notin ready
                   /\ ~interrupted => ready \cup lost = Records
    /\ verdict' = v
    /\ UNCHANGED <<ready, lost, delivered, interrupted>>

Next ==
    \/ Resolve
    \/ Deliver
    \/ Interrupt
    \/ \E v \in {"ok", "error"} : Conclude(v)

Spec == Init /\ [][Next]_vars
=============================================================================
