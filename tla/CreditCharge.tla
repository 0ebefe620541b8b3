---------------------------- MODULE CreditCharge ----------------------------
(***************************************************************************)
(* The credit ledger of one workspace: packages/db/src/charge.ts (charge,  *)
(* refundCharge) and the back office's adjustCredit.  Every request is one *)
(* Postgres transaction at READ COMMITTED; its statements interleave with  *)
(* those of the others, its ledger row and the balance it writes become    *)
(* visible together when it commits.                                       *)
(***************************************************************************)
EXTENDS Integers, Sequences, SequencesExt

CONSTANTS
    Requests,       \* the transactions of the run; several may name one source
    Sources,        \* ids of produced rows (a message, a call, a contact ...)
    Ask,            \* what each request asks: [kind, source, amount]
    Prices,         \* prices per unit the backoffice may set
    Unpriced,       \* no CreditPrice row applies
    InitialBalance

Kinds == {"charge", "refund", "adjust"}

ASSUME AskAssumption ==
    /\ Ask \in [Requests -> [kind: Kinds, source: Sources, amount: Int]]
    /\ \A r \in Requests : Ask[r].kind = "charge" => Ask[r].amount \in Nat
ASSUME PriceAssumption == Prices \subseteq Nat /\ Unpriced \notin Nat
ASSUME BalanceAssumption == InitialBalance \in Int

VARIABLES
    balance,        \* Workspace.creditBalance, committed
    price,          \* what CreditPrice resolves to for the action right now
    ledger,         \* CreditLedger, committed rows in commit order
    posted,         \* history: the sum of the deltas in the ledger
    tx,             \* each request's transaction: [pc, bal, delta]
    overlapped      \* history: two transactions were open at the same time

vars == <<balance, price, ledger, posted, tx, overlapped>>

Row == [req: Requests, kind: Kinds, source: Sources, delta: Int, after: Int]

Settled == {"unpriced", "free", "refused", "replay", "nothing", "committed", "aborted"}
Open    == {"price", "original", "insert", "move", "commit"}

TypeOK ==
    /\ balance \in Int
    /\ price \in Prices \union {Unpriced}
    /\ ledger \in Seq(Row)
    /\ posted \in Int
    /\ tx \in [Requests -> [pc: {"idle"} \union Open \union Settled,
                            bal: Int, delta: Int]]
    /\ overlapped \in BOOLEAN

Init ==
    /\ balance = InitialBalance
    /\ price \in Prices \union {Unpriced}
    /\ ledger = <<>>
    /\ posted = 0
    /\ tx = [r \in Requests |-> [pc |-> "idle", bal |-> 0, delta |-> 0]]
    /\ overlapped = FALSE

Rows == {ledger[i] : i \in 1..Len(ledger)}

\* The idempotency key of the partial unique index; manual adjustments carry
\* no source and stay outside it.
SameKey(kind, source, other, otherSource) ==
    kind # "adjust" /\ kind = other /\ source = otherSource

At(r, pc) == tx[r].pc = pc
Begins(r, kind) ==
    /\ At(r, "idle") /\ Ask[r].kind = kind
    /\ overlapped' = (overlapped \/ \E q \in Requests : tx[q].pc \in Open)
Goto(r, pc) == tx' = [tx EXCEPT ![r].pc = pc]
Settle(r, outcome) == tx' = [tx EXCEPT ![r] = [pc |-> outcome, bal |-> 0, delta |-> 0]]

-----------------------------------------------------------------------------
\* charge: priceFor reads the workspace row first ...
ChargeReadBalance(r) ==
    /\ Begins(r, "charge")
    /\ tx' = [tx EXCEPT ![r] = [pc |-> "price", bal |-> balance, delta |-> 0]]
    /\ UNCHANGED <<balance, price, ledger, posted>>

\* Mutant: a price of zero writes a row of zero.
ChargeReadPriceZero(r) ==
    LET cost == price * Ask[r].amount IN
    /\ At(r, "price")
    /\ \/ price = Unpriced /\ Settle(r, "unpriced")
       \/ price # Unpriced /\ tx[r].bal < cost /\ Settle(r, "refused")
       \/ /\ price # Unpriced /\ tx[r].bal >= cost
          /\ tx' = [tx EXCEPT ![r].pc = "insert", ![r].delta = -cost]
    /\ UNCHANGED <<balance, price, ledger, posted, overlapped>>

\* ... then the price rows; unpriced, free and refused write nothing.
ChargeReadPrice(r) ==
    LET cost == price * Ask[r].amount IN
    /\ At(r, "price")
    /\ \/ price = Unpriced /\ Settle(r, "unpriced")
       \/ price # Unpriced /\ cost = 0 /\ Settle(r, "free")
       \/ price # Unpriced /\ cost > 0 /\ tx[r].bal < cost /\ Settle(r, "refused")
       \/ /\ price # Unpriced /\ cost > 0 /\ tx[r].bal >= cost
          /\ tx' = [tx EXCEPT ![r].pc = "insert", ![r].delta = -cost]
    /\ UNCHANGED <<balance, price, ledger, posted, overlapped>>

\* Mutant: the refund is priced again instead of mirroring its debit.
RefundAtCurrentPrice(r) ==
    /\ Begins(r, "refund")
    /\ \E row \in Rows :
          /\ SameKey("charge", Ask[r].source, row.kind, row.source)
          /\ tx' = [tx EXCEPT ![r].pc = "original",
                              ![r].delta = IF price = Unpriced THEN -row.delta ELSE price]
    /\ UNCHANGED <<balance, price, ledger, posted>>

\* refundCharge: find the original debit of this source; nothing to give back
\* when there is none.  A debit row's delta is never zero (free writes nothing).
RefundReadOriginal(r) ==
    /\ Begins(r, "refund")
    /\ \/ \E row \in Rows :
             /\ SameKey("charge", Ask[r].source, row.kind, row.source)
             /\ tx' = [tx EXCEPT ![r].pc = "original", ![r].delta = -row.delta]
       \/ /\ \A row \in Rows : ~SameKey("charge", Ask[r].source, row.kind, row.source)
          /\ Settle(r, "nothing")
    /\ UNCHANGED <<balance, price, ledger, posted>>

RefundReadBalance(r) ==
    /\ At(r, "original")
    /\ tx' = [tx EXCEPT ![r].pc = "insert", ![r].bal = balance]
    /\ UNCHANGED <<balance, price, ledger, posted, overlapped>>

\* adjustCredit: an operator's manual move, unbounded below and keyed to nothing.
AdjustRead(r) ==
    /\ Begins(r, "adjust")
    /\ tx' = [tx EXCEPT ![r] = [pc |-> "insert", bal |-> balance,
                                delta |-> Ask[r].amount]]
    /\ UNCHANGED <<balance, price, ledger, posted>>

\* Mutants: the insert sees committed rows only; the insert queues behind every
\* other request that is about to insert its key.
InsertSeeingCommitted(r) ==
    /\ At(r, "insert")
    /\ IF \E row \in Rows : SameKey(Ask[r].kind, Ask[r].source, row.kind, row.source)
          THEN Settle(r, "replay")
          ELSE Goto(r, "move")
    /\ UNCHANGED <<balance, price, ledger, posted, overlapped>>
InsertBehindOthers(r) ==
    /\ At(r, "insert")
    /\ \A q \in Requests \ {r} :
          SameKey(Ask[r].kind, Ask[r].source, Ask[q].kind, Ask[q].source)
             => tx[q].pc \notin {"insert", "move", "commit"}
    /\ IF \E row \in Rows : SameKey(Ask[r].kind, Ask[r].source, row.kind, row.source)
          THEN Settle(r, "replay")
          ELSE Goto(r, "move")
    /\ UNCHANGED <<balance, price, ledger, posted, overlapped>>

\* creditLedger.createMany(skipDuplicates): ON CONFLICT DO NOTHING waits for an
\* uncommitted row with the same key, and inserts nothing beside a committed one.
InsertRow(r) ==
    /\ At(r, "insert")
    /\ \A q \in Requests \ {r} :
          SameKey(Ask[r].kind, Ask[r].source, Ask[q].kind, Ask[q].source)
             => tx[q].pc \notin {"move", "commit"}
    /\ IF \E row \in Rows : SameKey(Ask[r].kind, Ask[r].source, row.kind, row.source)
          THEN Settle(r, "replay")
          ELSE Goto(r, "move")
    /\ UNCHANGED <<balance, price, ledger, posted, overlapped>>

\* workspace.update writes the absolute balance this transaction computed; the
\* row lock makes a second writer wait for the first one's commit.
MoveBalance(r) ==
    /\ At(r, "move")
    /\ \A q \in Requests : tx[q].pc # "commit"
    /\ Goto(r, "commit")
    /\ UNCHANGED <<balance, price, ledger, posted, overlapped>>

\* The row a request commits: balanceAfter is the balance it read plus its delta.
NewRow(r) == [req |-> r, kind |-> Ask[r].kind, source |-> Ask[r].source,
              delta |-> tx[r].delta, after |-> tx[r].bal + tx[r].delta]

Commit(r) ==
    /\ At(r, "commit")
    /\ balance' = NewRow(r).after
    /\ ledger' = Append(ledger, NewRow(r))
    /\ posted' = posted + tx[r].delta
    /\ Settle(r, "committed")
    /\ UNCHANGED <<price, overlapped>>

\* A crash, a lost connection or a later throw in the caller rolls everything back.
Rollback(r) ==
    /\ tx[r].pc \in Open
    /\ Settle(r, "aborted")
    /\ UNCHANGED <<balance, price, ledger, posted, overlapped>>

\* The backoffice publishes a newer CreditPrice row (or an agency override).
Reprice(p) ==
    /\ p # price
    /\ price' = p
    /\ UNCHANGED <<balance, ledger, posted, tx, overlapped>>

Step(r) ==
    \/ ChargeReadBalance(r) \/ ChargeReadPrice(r)
    \/ RefundReadOriginal(r) \/ RefundReadBalance(r)
    \/ AdjustRead(r)
    \/ InsertRow(r) \/ MoveBalance(r) \/ Commit(r)

Next ==
    \/ \E r \in Requests : Step(r) \/ Rollback(r)
    \/ \E p \in Prices : Reprice(p)

Spec == Init /\ [][Next]_vars /\ \A r \in Requests : WF_vars(Step(r))
-----------------------------------------------------------------------------
\* A produced row is charged, and refunded, at most once however many requests
\* name it and however they interleave (invariant 5 of charge.ts).
OneRowPerSource ==
    \A i, j \in 1..Len(ledger) :
        SameKey(ledger[i].kind, ledger[i].source, ledger[j].kind, ledger[j].source)
            => i = j

\* A refund gives back exactly what its source was charged, whatever the price
\* has become since: the pair of rows nets to zero.
RefundNetsToZero ==
    \A row \in Rows : row.kind = "refund" =>
        \E debit \in Rows : /\ debit.kind = "charge"
                            /\ debit.source = row.source
                            /\ debit.delta = -row.delta

\* The balance a workspace sees is the one the newest ledger row explains
\* (invariant 2: balanceAfter on the row, in one transaction with the move).
NewestRowExplainsBalance ==
    balance = IF ledger = <<>> THEN InitialBalance ELSE Last(ledger).after

\* No charge takes the balance below zero, also when the balance moved between
\* its read and its commit; only an operator's adjustment may.
ChargeNeverOverdraws ==
    [][(Len(ledger') > Len(ledger) /\ Last(ledger').kind = "charge")
          => balance' >= 0]_vars

\* As long as no two transactions were ever open together the balance is the
\* opening balance plus every delta of the ledger: nothing lost, nothing invented.
SerialReconciles == ~overlapped => balance = InitialBalance + posted

\* adjustCredit's comment says the cached balance is "moved to match" the ledger;
\* this is that promise for any traffic (it fails: see README).
LedgerReconciles == balance = InitialBalance + posted

Ledger == INSTANCE CreditLedger
    WITH Row <- Row, InitialBalance <- InitialBalance, balance <- balance, ledger <- ledger

\* The interleaved transactions implement the ledger of CreditLedger: each commit
\* is one allowed posting and everything else is invisible to a reader (charge.ts
\* invariants 1, 2, 5 and 6, its refund and its refusal rule at once).
ImplementsLedger == Ledger!Spec

\* Every request ends: no statement waits for ever on a key or a row lock.
EveryRequestSettles == \A r \in Requests : <>(tx[r].pc \in Settled)
=============================================================================
