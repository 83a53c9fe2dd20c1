----------------------------- MODULE MailLedger -----------------------------
(***************************************************************************)
(* What the weekly report promises its readers: the summary of a lot is    *)
(* put on record once and for all, in one row, before any mail quotes it,  *)
(* and a mail quotes at least one lot.                                     *)
(***************************************************************************)
EXTENDS Naturals

CONSTANTS Lot, Account

VARIABLES rows, mails

Init ==
  /\ rows = [l \in Lot |-> 0]
  /\ mails = [a \in Account |-> {}]

Record(l) ==
  /\ rows[l] = 0
  /\ rows' = [rows EXCEPT ![l] = 1]
  /\ UNCHANGED mails

Mail(a, lots) ==
  /\ lots # {}
  /\ \A l \in lots : rows[l] = 1
  /\ mails' = [mails EXCEPT ![a] = @ \cup {lots}]
  /\ UNCHANGED rows

Next ==
  \/ \E l \in Lot : Record(l)
  \/ \E a \in Account, lots \in SUBSET Lot : Mail(a, lots)

Spec == Init /\ [][Next]_<<rows, mails>>
=============================================================================
