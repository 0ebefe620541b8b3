---------------------------- MODULE CreditLedger ----------------------------
(***************************************************************************)
(* What the credit ledger of a workspace promises, without transactions:   *)
(* the invariants 1, 2, 5, 6 at the head of packages/db/src/charge.ts.     *)
(* A row is posted in one step, never changed, and carries the balance.    *)
(***************************************************************************)
EXTENDS Integers, Sequences, SequencesExt

CONSTANTS Row, InitialBalance

VARIABLES balance, ledger

Init == balance = InitialBalance /\ ledger = <<>>

Posted == {ledger[i] : i \in 1..Len(ledger)}

\* Nothing posted yet stands in the way of the row, and it is a move its kind allows.
Allowed(row) ==
    CASE row.kind = "charge" ->
            /\ \A p \in Posted : ~(p.kind = "charge" /\ p.source = row.source)
            /\ row.delta < 0 /\ row.after >= 0
      [] row.kind = "refund" ->
            /\ \A p \in Posted : ~(p.kind = "refund" /\ p.source = row.source)
            /\ \E p \in Posted : /\ p.kind = "charge" /\ p.source = row.source
                                 /\ p.delta = -row.delta
      [] OTHER -> TRUE

\* The row is read off the ledger after the step.
Post ==
    /\ ledger' # <<>> /\ ledger' = Append(ledger, Last(ledger'))
    /\ Last(ledger') \in Row
    /\ Allowed(Last(ledger'))
    /\ balance' = Last(ledger').after

Spec == Init /\ [][Post]_<<balance, ledger>>
=============================================================================
