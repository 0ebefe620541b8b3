------------------------- MODULE CreditChargeProofs -------------------------
(* What holds of the credit ledger for every set of requests, every price     *)
(* and every opening balance.                                                 *)
EXTENDS CreditCharge, TLAPS

Assumptions == /\ Ask \in [Requests -> [kind: Kinds, source: Sources, amount: Int]]
               /\ \A r \in Requests : Ask[r].kind = "charge" => Ask[r].amount \in Nat
               /\ Prices \subseteq Nat /\ Unpriced \notin Nat
               /\ InitialBalance \in Int

\* The assumptions of CreditCharge in one place.
LEMMA Assumed == Assumptions
  BY AskAssumption, PriceAssumption, BalanceAssumption DEF Assumptions

\* What appending a row does to a ledger, used wherever Commit is taken.
LEMMA AppendRow ==
    ASSUME NEW S, NEW s \in Seq(S), NEW e \in S
    PROVE  /\ Append(s, e) \in Seq(S)
           /\ Len(Append(s, e)) = Len(s) + 1
           /\ \A i \in 1..Len(s) : Append(s, e)[i] = s[i]
           /\ Append(s, e)[Len(s) + 1] = e
  OBVIOUS

\* The cost of a charge is a natural number once a price applies.
LEMMA CostIsNat ==
    ASSUME NEW r \in Requests, Ask[r].kind = "charge", TypeOK, price # Unpriced
    PROVE  price * Ask[r].amount \in Nat
<1>1. price \in Nat /\ Ask[r].amount \in Nat
  BY Assumed DEF Assumptions, TypeOK
<1>2. \A a, b \in Nat : a * b \in Nat
  OBVIOUS
<1> QED BY <1>1, <1>2

-----------------------------------------------------------------------------
(* Type correctness.                                                          *)

TxType == [Requests -> [pc: {"idle"} \union Open \union Settled, bal: Int, delta: Int]]

\* The initial state is well formed.
LEMMA TypeInit == Init => TypeOK
<1> SUFFICES ASSUME Init PROVE TypeOK
  OBVIOUS
<1>1. balance \in Int /\ price \in Prices \union {Unpriced} /\ posted \in Int
  BY Assumed DEF Assumptions, Init
<1>2. ledger \in Seq(Row)
  BY DEF Init
<1>3. overlapped \in BOOLEAN
  BY DEF Init
<1>4. tx \in TxType
  BY DEF Init, TxType
<1> QED BY <1>1, <1>2, <1>3, <1>4 DEF TypeOK, TxType

\* Ending a transaction keeps tx well formed.
LEMMA SettleTyped ==
    ASSUME TypeOK, NEW r \in Requests, NEW o \in Settled, Settle(r, o)
    PROVE  tx' \in TxType
  BY DEF TypeOK, TxType, Settle

\* So does moving one on.
LEMMA GotoTyped ==
    ASSUME TypeOK, NEW r \in Requests, NEW pc \in Open, Goto(r, pc)
    PROVE  tx' \in TxType
  BY DEF TypeOK, TxType, Goto

\* A transaction whose numbers are integers stays well formed.
LEMMA ComputedTyped ==
    ASSUME TypeOK, NEW r \in Requests, NEW pc \in Open, NEW d \in Int,
           tx' = [tx EXCEPT ![r].pc = pc, ![r].delta = d]
    PROVE  tx' \in TxType
  BY DEF TypeOK, TxType

\* Every step keeps the state well formed.
LEMMA TypeStep == TypeOK /\ [Next]_vars => TypeOK'
<1> SUFFICES ASSUME TypeOK, [Next]_vars PROVE TypeOK'
  OBVIOUS
<1>1. ASSUME NEW r \in Requests, ChargeReadBalance(r) PROVE TypeOK'
  BY <1>1 DEF ChargeReadBalance, Begins, TypeOK, Open
<1>2. ASSUME NEW r \in Requests, ChargeReadPrice(r) PROVE TypeOK'
  <2> DEFINE cost == price * Ask[r].amount
  <2>1. price # Unpriced => cost \in Int
    <3>1. price # Unpriced => price \in Int /\ Ask[r].amount \in Int
      BY Assumed DEF Assumptions, TypeOK
    <3>2. \A a, b \in Int : a * b \in Int
      OBVIOUS
    <3> QED BY <3>1, <3>2
  <2> HIDE DEF cost
  <2>2. \/ \E o \in Settled : Settle(r, o)
        \/ price # Unpriced /\ tx' = [tx EXCEPT ![r].pc = "insert", ![r].delta = -cost]
    BY <1>2 DEF ChargeReadPrice, cost, Settled
  <2>3. ASSUME price # Unpriced, tx' = [tx EXCEPT ![r].pc = "insert", ![r].delta = -cost]
        PROVE  tx' \in TxType
    <3>1. -cost \in Int /\ "insert" \in Open
      BY <2>1, <2>3 DEF Open
    <3> QED BY <2>3, <3>1, ComputedTyped
  <2>4. tx' \in TxType
    BY <2>2, <2>3, SettleTyped
  <2> QED BY <1>2, <2>4 DEF ChargeReadPrice, TypeOK, TxType
<1>3. ASSUME NEW r \in Requests, RefundReadOriginal(r) PROVE TypeOK'
  <2>1. ASSUME NEW row \in Rows,
               tx' = [tx EXCEPT ![r].pc = "original", ![r].delta = -row.delta]
        PROVE  tx' \in TxType
    <3>1. row \in Row
      BY DEF Rows, TypeOK
    <3>2. -row.delta \in Int /\ "original" \in Open
      BY <3>1 DEF Row, Open
    <3> QED BY <2>1, <3>2, ComputedTyped
  <2>2. tx' \in TxType
    BY <1>3, <2>1, SettleTyped DEF RefundReadOriginal, Settled
  <2> QED BY <1>3, <2>2 DEF RefundReadOriginal, Begins, TypeOK, TxType
<1>4. ASSUME NEW r \in Requests, RefundReadBalance(r) PROVE TypeOK'
  BY <1>4 DEF RefundReadBalance, TypeOK, Open
<1>5. ASSUME NEW r \in Requests, AdjustRead(r) PROVE TypeOK'
  <2>1. Ask[r].amount \in Int
    BY Assumed DEF Assumptions
  <2> QED BY <1>5, <2>1 DEF AdjustRead, Begins, TypeOK, Open
<1>6. ASSUME NEW r \in Requests, InsertRow(r) PROVE TypeOK'
  <2>1. tx' \in TxType
    BY <1>6, SettleTyped, GotoTyped DEF InsertRow, Settled, Open
  <2> QED BY <1>6, <2>1 DEF InsertRow, TypeOK, TxType
<1>7. ASSUME NEW r \in Requests, MoveBalance(r) PROVE TypeOK'
  <2>1. tx' \in TxType
    BY <1>7, GotoTyped DEF MoveBalance, Open
  <2> QED BY <1>7, <2>1 DEF MoveBalance, TypeOK, TxType
<1>8. ASSUME NEW r \in Requests, Commit(r) PROVE TypeOK'
  <2>1. tx' \in TxType
    BY <1>8, SettleTyped DEF Commit, Settled
  <2>2. tx[r].bal \in Int /\ tx[r].delta \in Int
    BY DEF TypeOK
  <2>3. NewRow(r) \in Row
    BY <2>2, Assumed DEF NewRow, Assumptions, Row
  <2>4. ledger' \in Seq(Row)
    BY <1>8, <2>3, AppendRow DEF Commit, TypeOK
  <2> QED BY <1>8, <2>1, <2>2, <2>4 DEF Commit, NewRow, TypeOK, TxType
<1>9. ASSUME NEW r \in Requests, Rollback(r) PROVE TypeOK'
  <2>1. tx' \in TxType
    BY <1>9, SettleTyped DEF Rollback, Settled
  <2> QED BY <1>9, <2>1 DEF Rollback, TypeOK, TxType
<1>10. ASSUME NEW p \in Prices, Reprice(p) PROVE TypeOK'
  BY <1>10 DEF Reprice, TypeOK
<1>11. CASE UNCHANGED vars
  BY <1>11 DEF vars, TypeOK
<1> QED
  BY <1>1, <1>2, <1>3, <1>4, <1>5, <1>6, <1>7, <1>8, <1>9, <1>10, <1>11 DEF Next, Step

\* Every state of the ledger, its transactions and the price is well formed.
THEOREM Typing == Spec => []TypeOK
  BY TypeInit, TypeStep, PTL DEF Spec

-----------------------------------------------------------------------------
(* Only a commit changes what the workspace sees.                             *)

Quiet == UNCHANGED <<balance, ledger, posted>>

\* A step either leaves balance, ledger and posted alone or commits a request.
LEMMA QuietOrCommit ==
    ASSUME [Next]_vars
    PROVE  Quiet \/ \E r \in Requests : Commit(r)
  BY DEF Next, Step, vars, Quiet, ChargeReadBalance, ChargeReadPrice, RefundReadOriginal,
         RefundReadBalance, AdjustRead, InsertRow, MoveBalance, Rollback, Reprice

\* The row a commit appends, and the ledger it leaves.
LEMMA CommitAppends ==
    ASSUME TypeOK, NEW r \in Requests, Commit(r)
    PROVE  /\ NewRow(r) \in Row
           /\ ledger \in Seq(Row) /\ ledger' = Append(ledger, NewRow(r))
           /\ Len(ledger') = Len(ledger) + 1
           /\ \A i \in 1..Len(ledger) : ledger'[i] = ledger[i]
           /\ ledger'[Len(ledger')] = NewRow(r)
           /\ Rows' = Rows \union {NewRow(r)}
<1>1. tx[r].bal \in Int /\ tx[r].delta \in Int
  BY DEF TypeOK
<1>2. NewRow(r) \in Row
  BY <1>1, Assumed DEF NewRow, Assumptions, Row
<1>3. ledger \in Seq(Row) /\ ledger' = Append(ledger, NewRow(r))
  BY DEF TypeOK, Commit
<1>4. /\ Len(ledger') = Len(ledger) + 1
      /\ \A i \in 1..Len(ledger) : ledger'[i] = ledger[i]
      /\ ledger'[Len(ledger')] = NewRow(r)
  BY <1>2, <1>3
<1>5. Len(ledger) \in Nat /\ 1..Len(ledger') = (1..Len(ledger)) \union {Len(ledger')}
  BY <1>3, <1>4
<1>6. Rows' = Rows \union {NewRow(r)}
  BY <1>4, <1>5 DEF Rows
<1> QED BY <1>2, <1>3, <1>4, <1>6

\* NewestRowExplainsBalance is inductive: each commit writes both at once.
LEMMA NewestStep ==
    ASSUME TypeOK, NewestRowExplainsBalance, [Next]_vars
    PROVE  NewestRowExplainsBalance'
<1>1. CASE Quiet
  BY <1>1 DEF Quiet, NewestRowExplainsBalance
<1>2. ASSUME NEW r \in Requests, Commit(r) PROVE NewestRowExplainsBalance'
  <2>1. ledger' # <<>> /\ Last(ledger') = NewRow(r)
    BY <1>2, CommitAppends DEF Last
  <2> QED BY <1>2, <2>1 DEF Commit, NewestRowExplainsBalance
<1> QED BY <1>1, <1>2, QuietOrCommit

\* The balance is always the one on the newest ledger row.
THEOREM NewestRow == Spec => []NewestRowExplainsBalance
<1>1. Init => NewestRowExplainsBalance
  BY DEF Init, NewestRowExplainsBalance
<1>2. TypeOK /\ NewestRowExplainsBalance /\ [Next]_vars => NewestRowExplainsBalance'
  BY NewestStep
<1> QED BY <1>1, <1>2, Typing, PTL DEF Spec

-----------------------------------------------------------------------------
(* One row per source.  A transaction past its insert holds its key: no       *)
(* committed row and no other such transaction has it.                        *)

Key(r, q) == SameKey(Ask[r].kind, Ask[r].source, Ask[q].kind, Ask[q].source)
KeyOfRow(r, row) == SameKey(Ask[r].kind, Ask[r].source, row.kind, row.source)
Holds(r) == tx[r].pc \in {"move", "commit"}

HeldKeys ==
    /\ \A r, q \in Requests : Holds(r) /\ Holds(q) /\ Key(r, q) => r = q
    /\ \A r \in Requests : Holds(r) => \A row \in Rows : ~KeyOfRow(r, row)

\* A step that takes no key and commits nothing keeps HeldKeys.
LEMMA KeysKept ==
    ASSUME TypeOK, HeldKeys, ledger' = ledger, \A q \in Requests : Holds(q)' => Holds(q)
    PROVE  HeldKeys'
<1>1. Rows' = Rows
  BY DEF Rows
<1> QED BY <1>1 DEF HeldKeys, Key, KeyOfRow

\* An insert that goes through is the first to hold its key.
LEMMA KeyTaken ==
    ASSUME TypeOK, HeldKeys, NEW r \in Requests, InsertRow(r)
    PROVE  HeldKeys'
<1>1. ledger' = ledger /\ Rows' = Rows
  BY DEF InsertRow, Rows
<1>2. CASE \E row \in Rows : KeyOfRow(r, row)
  <2>1. \A q \in Requests : Holds(q)' => Holds(q)
    <3>1. Settle(r, "replay")
      BY <1>2 DEF InsertRow, KeyOfRow
    <3> QED BY <3>1 DEF Settle, Holds, TypeOK
  <2> QED BY <1>1, <2>1, KeysKept
<1>3. CASE ~\E row \in Rows : KeyOfRow(r, row)
  <2>1. \A q \in Requests \ {r} : (Holds(q)' <=> Holds(q)) /\ (Key(r, q) => ~Holds(q))
    BY <1>3 DEF InsertRow, KeyOfRow, Key, Goto, Holds, TypeOK
  <2>2. \A q \in Requests \ {r} : Key(q, r) => Key(r, q)
    BY DEF Key, SameKey
  <2>3. \A q \in Requests : \A row \in Rows' : Holds(q)' => ~KeyOfRow(q, row)
    BY <1>1, <1>3, <2>1 DEF HeldKeys
  <2>4. \A q, o \in Requests : Holds(q)' /\ Holds(o)' /\ Key(q, o) => q = o
    BY <2>1, <2>2 DEF HeldKeys
  <2> QED BY <2>3, <2>4 DEF HeldKeys, Key, KeyOfRow
<1> QED BY <1>2, <1>3

\* A commit turns the key its transaction held into a row.
LEMMA KeyCommitted ==
    ASSUME TypeOK, HeldKeys, OneRowPerSource, NEW r \in Requests, Commit(r)
    PROVE  HeldKeys' /\ OneRowPerSource'
<1>1. Holds(r)
  BY DEF Commit, At, Holds
<1>2. \A q \in Requests \ {r} : Holds(q)' <=> Holds(q)
  BY DEF Commit, Settle, Holds, TypeOK
<1>3. ~Holds(r)'
  BY DEF Commit, Settle, Holds, TypeOK
<1>4. \A q \in Requests : KeyOfRow(q, NewRow(r)) <=> Key(q, r)
  BY DEF KeyOfRow, Key, NewRow
<1>5. HeldKeys'
  BY <1>1, <1>2, <1>3, <1>4, CommitAppends DEF HeldKeys, Key, KeyOfRow
<1>6. \A i \in 1..Len(ledger) : ~KeyOfRow(r, ledger[i])
  BY <1>1 DEF HeldKeys, Rows
<1>7. OneRowPerSource'
  <2> SUFFICES ASSUME NEW i \in 1..Len(ledger'), NEW j \in 1..Len(ledger'),
                      SameKey(ledger'[i].kind, ledger'[i].source,
                              ledger'[j].kind, ledger'[j].source)
               PROVE  i = j
    BY DEF OneRowPerSource
  <2> DEFINE n == Len(ledger)
  <2>1. n \in Nat /\ 1..Len(ledger') = (1..n) \union {n + 1}
    BY CommitAppends
  <2>2. \A k \in 1..n : ledger'[k] = ledger[k] /\ ~KeyOfRow(r, ledger[k])
    BY <1>6, CommitAppends
  <2>3. ledger'[n + 1].kind = Ask[r].kind /\ ledger'[n + 1].source = Ask[r].source
    <3>1. ledger'[n + 1] = NewRow(r)
      BY CommitAppends
    <3> QED BY <3>1 DEF NewRow
  <2>4. CASE i \in 1..n /\ j \in 1..n
    BY <2>2, <2>4 DEF OneRowPerSource
  <2>5. CASE i = n + 1 /\ j \in 1..n
    BY <2>2, <2>3, <2>5 DEF KeyOfRow
  <2>6. CASE i \in 1..n /\ j = n + 1
    BY <2>2, <2>3, <2>6 DEF KeyOfRow, SameKey
  <2> QED BY <2>1, <2>4, <2>5, <2>6
<1> QED BY <1>5, <1>7

\* No other step takes a key.
LEMMA KeysStep ==
    ASSUME TypeOK, HeldKeys, OneRowPerSource, [Next]_vars
    PROVE  HeldKeys' /\ OneRowPerSource'
<1>1. ASSUME ledger' = ledger PROVE OneRowPerSource'
  BY <1>1 DEF OneRowPerSource
<1>2. ASSUME NEW r \in Requests, InsertRow(r) PROVE HeldKeys' /\ OneRowPerSource'
  BY <1>1, <1>2, KeyTaken DEF InsertRow
<1>3. ASSUME NEW r \in Requests, Commit(r) PROVE HeldKeys' /\ OneRowPerSource'
  BY <1>3, KeyCommitted
<1>4. ASSUME NEW r \in Requests,
             ChargeReadBalance(r) \/ ChargeReadPrice(r) \/ RefundReadOriginal(r)
                \/ RefundReadBalance(r) \/ AdjustRead(r) \/ MoveBalance(r) \/ Rollback(r)
      PROVE  ledger' = ledger /\ \A q \in Requests : Holds(q)' => Holds(q)
  <2>1. CASE ChargeReadBalance(r) \/ AdjustRead(r)
    BY <2>1 DEF ChargeReadBalance, AdjustRead, Begins, Holds, TypeOK
  <2>2. CASE ChargeReadPrice(r)
    BY <2>2 DEF ChargeReadPrice, Settle, Holds, TypeOK
  <2>3. CASE RefundReadOriginal(r)
    <3>1. ASSUME NEW d, tx' = [tx EXCEPT ![r].pc = "original", ![r].delta = d]
          PROVE  \A q \in Requests : Holds(q)' => Holds(q)
      BY <3>1 DEF Holds, TypeOK
    <3>2. ASSUME Settle(r, "nothing") PROVE \A q \in Requests : Holds(q)' => Holds(q)
      BY <3>2 DEF Settle, Holds, TypeOK
    <3>3. ledger' = ledger
      BY <2>3 DEF RefundReadOriginal
    <3> QED BY <2>3, <3>1, <3>2, <3>3 DEF RefundReadOriginal
  <2>6. CASE RefundReadBalance(r)
    BY <2>6 DEF RefundReadBalance, Holds, TypeOK
  <2>4. CASE MoveBalance(r)
    BY <2>4 DEF MoveBalance, At, Goto, Holds, TypeOK
  <2>5. CASE Rollback(r)
    BY <2>5 DEF Rollback, Settle, Holds, TypeOK
  <2> QED BY <1>4, <2>1, <2>2, <2>3, <2>4, <2>5, <2>6
<1>5. ASSUME (\E p \in Prices : Reprice(p)) \/ UNCHANGED vars
      PROVE  ledger' = ledger /\ \A q \in Requests : Holds(q)' => Holds(q)
  BY <1>5 DEF Reprice, vars, Holds
<1> QED BY <1>1, <1>2, <1>3, <1>4, <1>5, KeysKept DEF Next, Step

\* A produced row is charged, and refunded, at most once.
THEOREM ChargedOnce == Spec => []OneRowPerSource
<1>1. Init => HeldKeys /\ OneRowPerSource
  BY DEF Init, HeldKeys, Holds, Rows, OneRowPerSource
<1>2. TypeOK /\ HeldKeys /\ OneRowPerSource /\ [Next]_vars => HeldKeys' /\ OneRowPerSource'
  BY KeysStep
<1> QED BY <1>1, <1>2, Typing, PTL DEF Spec

-----------------------------------------------------------------------------
(* A charge past its price check carries a debit its own snapshot covers.     *)

ByKind ==
    \A r \in Requests :
        /\ tx[r].pc = "price" => Ask[r].kind = "charge"
        /\ tx[r].pc = "original" => Ask[r].kind = "refund"

\* Only charges read a price, only refunds look for their debit.
LEMMA ByKindStep == TypeOK /\ ByKind /\ [Next]_vars => ByKind'
<1> SUFFICES ASSUME TypeOK, ByKind, [Next]_vars PROVE ByKind'
  OBVIOUS
<1>1. ASSUME NEW r \in Requests, NEW t, tx' = [tx EXCEPT ![r] = t],
             /\ t.pc = "price" => Ask[r].kind = "charge"
             /\ t.pc = "original" => Ask[r].kind = "refund"
      PROVE  ByKind'
  BY <1>1 DEF ByKind, TypeOK
<1>2. ASSUME NEW r \in Requests, NEW pc, NEW d, pc \notin {"price", "original"},
             tx' = [tx EXCEPT ![r].pc = pc] \/ tx' = [tx EXCEPT ![r].pc = pc, ![r].delta = d]
                \/ tx' = [tx EXCEPT ![r].pc = pc, ![r].bal = d]
      PROVE  ByKind'
  BY <1>2 DEF ByKind, TypeOK
<1>3. ASSUME NEW r \in Requests, Step(r) \/ Rollback(r) PROVE ByKind'
  <2>1. CASE ChargeReadBalance(r) \/ AdjustRead(r)
    BY <1>1, <2>1 DEF ChargeReadBalance, AdjustRead, Begins
  <2>2. CASE ChargeReadPrice(r)
    BY <1>1, <1>2, <2>2 DEF ChargeReadPrice, Settle
  <2>3. CASE RefundReadOriginal(r)
    <3>1. ASSUME NEW row, tx' = [tx EXCEPT ![r].pc = "original", ![r].delta = -row.delta]
          PROVE  ByKind'
      BY <2>3, <3>1 DEF RefundReadOriginal, Begins, ByKind, TypeOK
    <3> QED BY <1>1, <2>3, <3>1 DEF RefundReadOriginal, Settle
  <2>4. CASE RefundReadBalance(r) \/ InsertRow(r) \/ MoveBalance(r)
    BY <1>1, <1>2, <2>4 DEF RefundReadBalance, InsertRow, MoveBalance, Goto, Settle
  <2>5. CASE Commit(r) \/ Rollback(r)
    BY <1>1, <2>5 DEF Commit, Rollback, Settle
  <2> QED BY <1>3, <2>1, <2>2, <2>3, <2>4, <2>5 DEF Step
<1>4. ASSUME (\E p \in Prices : Reprice(p)) \/ UNCHANGED vars PROVE ByKind'
  BY <1>4 DEF Reprice, vars, ByKind
<1> QED BY <1>3, <1>4 DEF Next

Covered ==
    \A r \in Requests :
        Ask[r].kind = "charge" /\ tx[r].pc \in {"insert", "move", "commit"}
            => tx[r].delta < 0 /\ tx[r].bal + tx[r].delta >= 0

\* No step changes the numbers of a transaction that has been checked.
LEMMA CoveredStep == TypeOK /\ ByKind /\ Covered /\ [Next]_vars => Covered'
<1> SUFFICES ASSUME TypeOK, ByKind, Covered, [Next]_vars PROVE Covered'
  OBVIOUS
<1>1. ASSUME NEW r \in Requests, ChargeReadPrice(r) PROVE Covered'
  <2>0. Ask[r].kind = "charge"
    BY <1>1 DEF ChargeReadPrice, At, ByKind
  <2> DEFINE cost == price * Ask[r].amount
  <2>1. CASE tx' = [tx EXCEPT ![r].pc = "insert", ![r].delta = -cost] /\ tx[r].bal >= cost
                /\ price # Unpriced /\ cost > 0
    <3>1. cost \in Nat
      BY <2>0, <2>1, CostIsNat
    <3> HIDE DEF cost
    <3>2. tx[r].bal \in Int /\ -cost < 0 /\ tx[r].bal + (-cost) >= 0
      BY <2>1, <3>1 DEF TypeOK
    <3> QED BY <2>1, <3>1, <3>2 DEF Covered, TypeOK
  <2>2. CASE \E o \in Settled : Settle(r, o)
    BY <2>2 DEF Settle, Settled, Covered, TypeOK
  <2> QED BY <1>1, <2>1, <2>2 DEF ChargeReadPrice, Settled
<1>2. ASSUME NEW r \in Requests, \/ ChargeReadBalance(r) \/ InsertRow(r) \/ MoveBalance(r)
                                 \/ Commit(r) \/ Rollback(r)
      PROVE  Covered'
  <2>1. CASE ChargeReadBalance(r)
    BY <2>1 DEF ChargeReadBalance, Begins, Covered, TypeOK
  <2>2. CASE InsertRow(r)
    <3>1. Settle(r, "replay") \/ Goto(r, "move")
      BY <2>2 DEF InsertRow
    <3>2. CASE Settle(r, "replay")
      BY <3>2 DEF Settle, Covered, TypeOK
    <3>3. CASE Goto(r, "move")
      BY <2>2, <3>3 DEF InsertRow, At, Goto, Covered, TypeOK
    <3> QED BY <3>1, <3>2, <3>3
  <2>3. CASE MoveBalance(r)
    BY <2>3 DEF MoveBalance, At, Goto, Covered, TypeOK
  <2>4. CASE Commit(r) \/ Rollback(r)
    <3>1. Settle(r, "committed") \/ Settle(r, "aborted")
      BY <2>4 DEF Commit, Rollback
    <3>2. tx'[r].pc \in {"committed", "aborted"} /\ \A q \in Requests \ {r} : tx'[q] = tx[q]
      BY <3>1 DEF Settle, TypeOK
    <3> QED BY <3>2 DEF Covered
  <2> QED BY <1>2, <2>1, <2>2, <2>3, <2>4
<1>3. ASSUME NEW r \in Requests, RefundReadOriginal(r) \/ RefundReadBalance(r) \/ AdjustRead(r)
      PROVE  Covered'
  <2>1. CASE AdjustRead(r)
    BY <2>1 DEF AdjustRead, Begins, Covered, TypeOK
  <2>2. CASE RefundReadBalance(r)
    <3>1. Ask[r].kind = "refund"
      BY <2>2 DEF RefundReadBalance, At, ByKind
    <3> QED BY <2>2, <3>1 DEF RefundReadBalance, Covered, TypeOK
  <2>3. CASE RefundReadOriginal(r)
    <3>1. Ask[r].kind = "refund" /\ \A q \in Requests \ {r} : tx'[q] = tx[q]
      BY <2>3 DEF RefundReadOriginal, Begins, Settle, TypeOK
    <3> QED BY <3>1 DEF Covered
  <2> QED BY <1>3, <2>1, <2>2, <2>3
<1>4. ASSUME (\E p \in Prices : Reprice(p)) \/ UNCHANGED vars PROVE Covered'
  BY <1>4 DEF Reprice, vars, Covered
<1> QED BY <1>1, <1>2, <1>3, <1>4 DEF Next, Step

\* No charge ever takes the balance below zero.
THEOREM NeverOverdrawn == Spec => ChargeNeverOverdraws
<1> DEFINE Debited == Len(ledger') > Len(ledger) /\ Last(ledger').kind = "charge"
<1>1. Init => ByKind /\ Covered
  BY DEF Init, ByKind, Covered
<1>2. TypeOK /\ Covered /\ [Next]_vars => [Debited => balance' >= 0]_vars
  <2> SUFFICES ASSUME TypeOK, Covered, [Next]_vars, Debited PROVE balance' >= 0
    OBVIOUS
  <2>1. ~Quiet
    BY DEF Quiet, TypeOK
  <2>2. PICK r \in Requests : Commit(r)
    BY <2>1, QuietOrCommit
  <2>3. Last(ledger') = NewRow(r)
    BY <2>2, CommitAppends DEF Last
  <2>4. Ask[r].kind = "charge" /\ tx[r].pc = "commit"
    BY <2>2, <2>3 DEF Commit, At, NewRow
  <2> QED BY <2>2, <2>4 DEF Commit, NewRow, Covered
<1> QED BY <1>1, <1>2, ByKindStep, CoveredStep, Typing, PTL DEF Spec, ChargeNeverOverdraws

-----------------------------------------------------------------------------
(* Refunds.  From the moment it found its debit a refund carries the exact    *)
(* mirror of it, and committed rows never go away.                            *)

DebitIn(rows, source, delta) ==
    \E debit \in rows : /\ debit.kind = "charge"
                        /\ debit.source = source
                        /\ debit.delta = -delta

Mirroring(r) == Ask[r].kind = "refund" /\ tx[r].pc \in {"original", "insert", "move", "commit"}

Mirrored == \A r \in Requests : Mirroring(r) => DebitIn(Rows, Ask[r].source, tx[r].delta)

\* The ledger only grows.
LEMMA RowsGrow == TypeOK /\ [Next]_vars => Rows \subseteq Rows'
<1> SUFFICES ASSUME TypeOK, [Next]_vars PROVE Rows \subseteq Rows'
  OBVIOUS
<1>1. CASE Quiet
  BY <1>1 DEF Quiet, Rows
<1>2. ASSUME NEW r \in Requests, Commit(r) PROVE Rows \subseteq Rows'
  BY <1>2, CommitAppends
<1> QED BY <1>1, <1>2, QuietOrCommit

\* A refund that was already mirroring keeps the delta it found.
LEMMA MirrorKept ==
    ASSUME TypeOK, Mirrored, Rows \subseteq Rows',
           \A r \in Requests : Mirroring(r)' => Mirroring(r) /\ tx'[r].delta = tx[r].delta
    PROVE  Mirrored'
  BY DEF Mirrored, DebitIn, Mirroring

\* Only finding the debit makes a refund mirror one.
LEMMA MirrorStep == TypeOK /\ ByKind /\ Mirrored /\ [Next]_vars => Mirrored'
<1> SUFFICES ASSUME TypeOK, ByKind, Mirrored, [Next]_vars PROVE Mirrored'
  OBVIOUS
<1> DEFINE Kept == \A q \in Requests : Mirroring(q)' => Mirroring(q) /\ tx'[q].delta = tx[q].delta
<1>1. Rows \subseteq Rows'
  BY RowsGrow
<1>2. ASSUME NEW r \in Requests, NEW o \in Settled, Settle(r, o) PROVE Kept
  BY <1>2 DEF Settle, Settled, Mirroring, TypeOK
<1>3. ASSUME NEW r \in Requests, ChargeReadBalance(r) \/ AdjustRead(r) PROVE Kept
  BY <1>3 DEF ChargeReadBalance, AdjustRead, Begins, Mirroring, TypeOK
<1>4. ASSUME NEW r \in Requests, ChargeReadPrice(r) PROVE Kept
  <2>1. Ask[r].kind = "charge" /\ \A q \in Requests \ {r} : tx'[q] = tx[q]
    BY <1>4 DEF ChargeReadPrice, At, Settle, ByKind, TypeOK
  <2> QED BY <2>1 DEF Mirroring
<1>5. ASSUME NEW r \in Requests, RefundReadBalance(r) PROVE Kept
  BY <1>5 DEF RefundReadBalance, At, Mirroring, TypeOK
<1>6. ASSUME NEW r \in Requests, InsertRow(r) \/ MoveBalance(r) PROVE Kept
  <2>1. CASE Settle(r, "replay")
    BY <1>2, <2>1 DEF Settled
  <2>2. CASE InsertRow(r) /\ Goto(r, "move")
    BY <2>2 DEF InsertRow, At, Goto, Mirroring, TypeOK
  <2>3. CASE MoveBalance(r)
    BY <2>3 DEF MoveBalance, At, Goto, Mirroring, TypeOK
  <2> QED BY <1>6, <2>1, <2>2, <2>3 DEF InsertRow
<1>7. ASSUME NEW r \in Requests, Commit(r) \/ Rollback(r) PROVE Kept
  BY <1>2, <1>7 DEF Commit, Rollback, Settled
<1>8. ASSUME NEW r \in Requests, RefundReadOriginal(r) PROVE Mirrored'
  <2>1. CASE Settle(r, "nothing")
    <3>1. Kept
      BY <1>2, <2>1 DEF Settled
    <3> QED BY <1>1, <3>1, MirrorKept
  <2>2. ASSUME NEW row \in Rows, row.kind = "charge", row.source = Ask[r].source,
               tx' = [tx EXCEPT ![r].pc = "original", ![r].delta = -row.delta]
        PROVE  Mirrored'
    <3>0. ledger \in Seq(Row)
      BY DEF TypeOK
    <3>a. row \in Row
      BY <3>0 DEF Rows
    <3>1. row.delta \in Int
      BY <3>a DEF Row
    <3>2. DebitIn(Rows', Ask[r].source, tx'[r].delta)
      BY <1>1, <2>2, <3>1 DEF DebitIn, TypeOK
    <3>3. \A q \in Requests \ {r} : tx'[q] = tx[q]
      BY <2>2 DEF TypeOK
    <3>4. ASSUME NEW q \in Requests \ {r}, Mirroring(q)'
          PROVE  DebitIn(Rows', Ask[q].source, tx'[q].delta)
      BY <1>1, <3>3, <3>4 DEF Mirrored, Mirroring, DebitIn
    <3> QED BY <3>2, <3>4 DEF Mirrored
  <2> QED BY <1>8, <2>1, <2>2 DEF RefundReadOriginal, SameKey
<1>9. ASSUME (\E p \in Prices : Reprice(p)) \/ UNCHANGED vars PROVE Kept
  BY <1>9 DEF Reprice, vars, Mirroring
<1> QED
  <2>1. CASE \E r \in Requests : RefundReadOriginal(r)
    BY <1>8, <2>1
  <2>2. CASE Kept
    BY <1>1, <2>2, MirrorKept
  <2> QED BY <2>1, <2>2, <1>3, <1>4, <1>5, <1>6, <1>7, <1>9 DEF Next, Step

\* A refund commits the mirror it found, beside the debit it mirrors.
LEMMA NetStep ==
    TypeOK /\ Mirrored /\ RefundNetsToZero /\ [Next]_vars => RefundNetsToZero'
<1> SUFFICES ASSUME TypeOK, Mirrored, RefundNetsToZero, [Next]_vars
             PROVE  RefundNetsToZero'
  OBVIOUS
<1>1. CASE Quiet
  BY <1>1 DEF Quiet, RefundNetsToZero, Rows
<1>2. ASSUME NEW r \in Requests, Commit(r) PROVE RefundNetsToZero'
  <2>1. Rows' = Rows \union {NewRow(r)}
    BY <1>2, CommitAppends
  <2>2. Ask[r].kind = "refund" => DebitIn(Rows, Ask[r].source, tx[r].delta)
    BY <1>2 DEF Commit, At, Mirrored, Mirroring
  <2>3. NewRow(r).kind = "refund" => DebitIn(Rows', NewRow(r).source, NewRow(r).delta)
    BY <2>1, <2>2 DEF NewRow, DebitIn
  <2> QED BY <2>1, <2>3 DEF RefundNetsToZero, DebitIn
<1> QED BY <1>1, <1>2, QuietOrCommit

\* A refund gives back exactly what its source was charged.
THEOREM RefundsNet == Spec => []RefundNetsToZero
<1>1. Init => ByKind /\ Mirrored /\ RefundNetsToZero
  BY DEF Init, ByKind, Mirrored, Mirroring, RefundNetsToZero, Rows
<1> QED BY <1>1, ByKindStep, MirrorStep, NetStep, Typing, PTL DEF Spec

-----------------------------------------------------------------------------
(* Serial traffic.  While transactions never overlapped there is at most one  *)
(* open, and what it read as the balance is still the balance.                *)

IsOpen(r) == tx[r].pc \in Open
Snapshots == {"price", "insert", "move", "commit"}

Serial ==
    ~overlapped =>
        /\ \A r, q \in Requests : IsOpen(r) /\ IsOpen(q) => r = q
        /\ \A r \in Requests : tx[r].pc \in Snapshots => tx[r].bal = balance
        /\ balance = InitialBalance + posted

\* The step of one request, seen from the others: they stand where they stood.
LEMMA OneMoves ==
    ASSUME TypeOK, NEW r \in Requests, Step(r) \/ Rollback(r)
    PROVE  \A q \in Requests \ {r} : tx'[q] = tx[q]
  BY DEF TypeOK, Step, ChargeReadBalance, ChargeReadPrice, RefundReadOriginal,
         RefundReadBalance, AdjustRead, InsertRow, MoveBalance, Commit, Rollback, Goto, Settle

\* Serial is inductive.
LEMMA SerialStep == TypeOK /\ Serial /\ [Next]_vars => Serial'
<1> SUFFICES ASSUME TypeOK, Serial, [Next]_vars, ~overlapped' PROVE
        /\ \A r, q \in Requests : IsOpen(r)' /\ IsOpen(q)' => r = q
        /\ \A r \in Requests : tx'[r].pc \in Snapshots => tx'[r].bal = balance'
        /\ balance' = InitialBalance + posted'
  BY DEF Serial
<1>1. ASSUME NEW r \in Requests, ~overlapped, IsOpen(r),
             \A q \in Requests \ {r} : tx'[q] = tx[q],
             tx'[r].pc \in Snapshots => tx'[r].bal = balance',
             balance' = InitialBalance + posted'
      PROVE  /\ \A o, q \in Requests : IsOpen(o)' /\ IsOpen(q)' => o = q
             /\ \A q \in Requests : tx'[q].pc \in Snapshots => tx'[q].bal = balance'
  <2>1. \A q \in Requests \ {r} : ~IsOpen(q)
    BY <1>1 DEF Serial
  <2>2. \A q \in Requests \ {r} : ~IsOpen(q)'
    BY <1>1, <2>1 DEF IsOpen
  <2>3. \A q \in Requests : tx'[q].pc \in Snapshots => IsOpen(q)'
    BY DEF IsOpen, Snapshots, Open
  <2> QED BY <1>1, <2>2, <2>3
<1>2. ASSUME NEW r \in Requests, NEW kind, Begins(r, kind),
             \A q \in Requests \ {r} : tx'[q] = tx[q], UNCHANGED <<balance, posted>>,
             tx'[r].pc \in Snapshots => tx'[r].bal = balance
      PROVE  /\ \A o, q \in Requests : IsOpen(o)' /\ IsOpen(q)' => o = q
             /\ \A q \in Requests : tx'[q].pc \in Snapshots => tx'[q].bal = balance'
             /\ balance' = InitialBalance + posted'
  <2>1. ~overlapped /\ \A q \in Requests : ~IsOpen(q)
    BY <1>2 DEF Begins, IsOpen
  <2>2. \A q \in Requests \ {r} : ~IsOpen(q)'
    BY <1>2, <2>1 DEF IsOpen
  <2>3. \A q \in Requests : tx'[q].pc \in Snapshots => IsOpen(q)'
    BY DEF IsOpen, Snapshots, Open
  <2>4. balance' = InitialBalance + posted'
    BY <1>2, <2>1 DEF Serial
  <2> QED BY <1>2, <2>2, <2>3, <2>4
<1>3. ASSUME NEW r \in Requests,
             ChargeReadBalance(r) \/ AdjustRead(r) \/ RefundReadOriginal(r)
      PROVE  /\ \E kind : Begins(r, kind)
             /\ UNCHANGED <<balance, posted>>
             /\ tx'[r].pc \in Snapshots => tx'[r].bal = balance
  <2>1. CASE ChargeReadBalance(r)
    BY <2>1 DEF ChargeReadBalance, TypeOK
  <2>2. CASE AdjustRead(r)
    BY <2>2 DEF AdjustRead, TypeOK
  <2>3. CASE RefundReadOriginal(r)
    <3>1. tx'[r].pc \notin Snapshots
      BY <2>3 DEF RefundReadOriginal, Settle, Snapshots, TypeOK
    <3> QED BY <2>3, <3>1 DEF RefundReadOriginal
  <2> QED BY <1>3, <2>1, <2>2, <2>3
<1>4. ASSUME NEW r \in Requests,
             \/ ChargeReadPrice(r) \/ RefundReadBalance(r) \/ InsertRow(r)
             \/ MoveBalance(r) \/ Rollback(r)
      PROVE  /\ IsOpen(r) /\ UNCHANGED <<overlapped, balance, posted>>
             /\ tx'[r].pc \in Snapshots =>
                    \/ tx[r].pc \in Snapshots /\ tx'[r].bal = tx[r].bal
                    \/ tx'[r].bal = balance
  <2>1. CASE ChargeReadPrice(r)
    BY <2>1 DEF ChargeReadPrice, At, Settle, IsOpen, Open, Snapshots, TypeOK
  <2>2. CASE RefundReadBalance(r)
    BY <2>2 DEF RefundReadBalance, At, IsOpen, Open, TypeOK
  <2>3. CASE InsertRow(r)
    <3>1. Settle(r, "replay") \/ Goto(r, "move")
      BY <2>3 DEF InsertRow
    <3>2. tx[r].pc = "insert" /\ UNCHANGED <<overlapped, balance, posted>>
      BY <2>3 DEF InsertRow, At
    <3>3. CASE Settle(r, "replay")
      BY <3>2, <3>3 DEF Settle, IsOpen, Open, Snapshots, TypeOK
    <3>4. CASE Goto(r, "move")
      BY <3>2, <3>4 DEF Goto, IsOpen, Open, Snapshots, TypeOK
    <3> QED BY <3>1, <3>3, <3>4
  <2>4. CASE MoveBalance(r)
    BY <2>4 DEF MoveBalance, At, Goto, IsOpen, Open, Snapshots, TypeOK
  <2>5. CASE Rollback(r)
    BY <2>5 DEF Rollback, Settle, IsOpen, Snapshots, TypeOK
  <2> QED BY <1>4, <2>1, <2>2, <2>3, <2>4, <2>5
<1>5. ASSUME NEW r \in Requests, Commit(r)
      PROVE  /\ IsOpen(r) /\ overlapped' = overlapped
             /\ tx'[r].pc \notin Snapshots
             /\ tx[r].bal = balance => balance' = balance + posted' - posted
  BY <1>5 DEF Commit, At, NewRow, Settle, IsOpen, Open, Snapshots, TypeOK
<1>6. ASSUME NEW r \in Requests, Commit(r), ~overlapped
      PROVE  balance' = InitialBalance + posted'
  <2>1. tx[r].bal = balance /\ balance = InitialBalance + posted
    BY <1>6 DEF Serial, Commit, At, Snapshots
  <2>2. posted' \in Int /\ posted \in Int /\ balance \in Int /\ InitialBalance \in Int
    BY <1>6, Assumed DEF Assumptions, Commit, TypeOK
  <2> QED BY <1>5, <1>6, <2>1, <2>2
<1>7. CASE (\E p \in Prices : Reprice(p)) \/ UNCHANGED vars
  BY <1>7 DEF Reprice, vars, Serial, IsOpen
<1>8. ASSUME NEW r \in Requests, Step(r) \/ Rollback(r)
      PROVE  /\ \A o, q \in Requests : IsOpen(o)' /\ IsOpen(q)' => o = q
             /\ \A q \in Requests : tx'[q].pc \in Snapshots => tx'[q].bal = balance'
             /\ balance' = InitialBalance + posted'
  <2>1. \A q \in Requests \ {r} : tx'[q] = tx[q]
    BY <1>8, OneMoves
  <2>2. CASE ChargeReadBalance(r) \/ AdjustRead(r) \/ RefundReadOriginal(r)
    BY <1>2, <1>3, <2>1, <2>2
  <2>3. CASE Commit(r)
    <3>1. ~overlapped
      BY <1>5, <2>3
    <3> QED BY <1>1, <1>5, <1>6, <2>1, <2>3, <3>1
  <2>4. CASE \/ ChargeReadPrice(r) \/ RefundReadBalance(r) \/ InsertRow(r)
             \/ MoveBalance(r) \/ Rollback(r)
    <3>1. ~overlapped /\ IsOpen(r)
      BY <1>4, <2>4
    <3>2. tx'[r].pc \in Snapshots => tx'[r].bal = balance'
      BY <1>4, <2>4, <3>1 DEF Serial
    <3>3. balance' = InitialBalance + posted'
      BY <1>4, <2>4, <3>1 DEF Serial
    <3> QED BY <1>1, <2>1, <3>1, <3>2, <3>3
  <2> QED BY <1>8, <2>2, <2>3, <2>4 DEF Step
<1> QED BY <1>7, <1>8 DEF Next

\* While requests ran one after the other the balance is the opening balance
\* plus every delta of the ledger.
THEOREM Reconciled == Spec => []SerialReconciles
<1>1. Init => Serial
  BY Assumed DEF Assumptions, Init, Serial, IsOpen, Open, Snapshots
<1>2. Serial => SerialReconciles
  BY DEF Serial, SerialReconciles
<1> QED BY <1>1, <1>2, SerialStep, Typing, PTL DEF Spec

-----------------------------------------------------------------------------
(* The interleaved transactions implement the ledger they are meant to be.    *)

\* A commit is an allowed posting.
LEMMA CommitPosts ==
    ASSUME TypeOK, HeldKeys, Covered, Mirrored, NEW r \in Requests, Commit(r)
    PROVE  Ledger!Post
<1> DEFINE row == NewRow(r)
<1>1. /\ row \in Row /\ ledger' # <<>> /\ ledger' = Append(ledger, row)
      /\ Ledger!Last(ledger') = row
  BY CommitAppends DEF Ledger!Last
<1>2. balance' = row.after
  BY DEF Commit
<1>3. /\ row.kind = Ask[r].kind /\ row.source = Ask[r].source /\ row.delta = tx[r].delta
      /\ row.after = tx[r].bal + tx[r].delta
  BY DEF NewRow
<1> HIDE DEF row
<1>4. tx[r].pc = "commit" /\ Ledger!Posted = Rows
  BY DEF Commit, At, Ledger!Posted, Rows
<1>5. \A p \in Rows : ~SameKey(row.kind, row.source, p.kind, p.source)
  BY <1>3, <1>4 DEF HeldKeys, Holds, KeyOfRow
<1>a. ASSUME Ledger!Allowed(row) PROVE Ledger!Post
  <2>1. Ledger!Allowed(Ledger!Last(ledger'))
    BY <1>1, <1>a
  <2> QED BY <1>1, <1>2, <2>1 DEF Ledger!Post
<1>6. CASE row.kind = "charge"
  <2>1. row.delta < 0 /\ row.after >= 0
    BY <1>3, <1>4, <1>6 DEF Covered
  <2>2. \A p \in Rows : ~(p.kind = "charge" /\ p.source = row.source)
    BY <1>5, <1>6 DEF SameKey
  <2>3. Ledger!Allowed(row)
    BY <1>4, <1>6, <2>1, <2>2 DEF Ledger!Allowed
  <2> QED BY <1>a, <2>3
<1>7. CASE row.kind = "refund"
  <2>1. DebitIn(Rows, row.source, row.delta)
    BY <1>3, <1>4, <1>7 DEF Mirrored, Mirroring
  <2>2. \A p \in Rows : ~(p.kind = "refund" /\ p.source = row.source)
    BY <1>5, <1>7 DEF SameKey
  <2>3. Ledger!Allowed(row)
    BY <1>4, <1>7, <2>1, <2>2 DEF Ledger!Allowed, DebitIn
  <2> QED BY <1>a, <2>3
<1>8. CASE row.kind \notin {"charge", "refund"}
  <2>1. Ledger!Allowed(row)
    BY <1>8 DEF Ledger!Allowed
  <2> QED BY <1>a, <2>1
<1> QED BY <1>6, <1>7, <1>8

\* Every behaviour of the transactions is one of the abstract ledger.
THEOREM Implements == Spec => ImplementsLedger
<1>1. Init => Ledger!Init
  BY DEF Init, Ledger!Init
<1>2. Init => HeldKeys /\ OneRowPerSource /\ ByKind /\ Covered /\ Mirrored
  BY DEF Init, HeldKeys, Holds, Rows, OneRowPerSource, ByKind, Covered, Mirrored, Mirroring
<1>3. TypeOK /\ HeldKeys /\ Covered /\ Mirrored /\ [Next]_vars
        => [Ledger!Post]_<<balance, ledger>>
  BY CommitPosts, QuietOrCommit DEF Quiet
<1> QED BY <1>1, <1>2, <1>3, KeysStep, ByKindStep, CoveredStep, MirrorStep, Typing, PTL
        DEF Spec, ImplementsLedger, Ledger!Spec
=============================================================================
