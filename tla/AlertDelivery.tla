--------------------------- MODULE AlertDelivery ---------------------------
(***************************************************************************)
(* What the alert job promises an admin: at-least-once delivery with an    *)
(* acknowledgement.  An alert may be sent again until it is acknowledged,  *)
(* is acknowledged only after it was sent, and never sent afterwards.      *)
(***************************************************************************)
EXTENDS Naturals

CONSTANT Alert

VARIABLES
  sent,   \* how often an alert was sent; no entry is never
  acked   \* the acknowledged alerts

Init == sent = <<>> /\ acked = {}

Sent(p) == IF p \in DOMAIN sent THEN sent[p] ELSE 0

Send(p) ==
  /\ p \notin acked
  /\ sent' = [q \in DOMAIN sent \cup {p} |-> IF q = p THEN Sent(p) + 1 ELSE sent[q]]
  /\ UNCHANGED acked

Acknowledge(p) ==
  /\ Sent(p) > 0
  /\ acked' = acked \cup {p}
  /\ UNCHANGED sent

\* Whatever is sent or acknowledged in a step has been sent after it.
Next == \E p \in DOMAIN sent' \cap Alert : Send(p) \/ Acknowledge(p)

Spec == Init /\ [][Next]_<<sent, acked>>
=============================================================================
