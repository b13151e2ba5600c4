-------------------------- MODULE BlockchainProofs --------------------------
(***************************************************************************)
(* Lemmas about the operators of Blockchain.tla and Mempool.tla.  The main  *)
(* one, ApplyValidated, says what applying a validated block does to the    *)
(* account state.                                                           *)
(*                                                                          *)
(* The operators are recursive functions, so the lemmas are proved by       *)
(* induction on the position in the block (MathLemmas).                *)
(***************************************************************************)
EXTENDS Mempool, MathLemmas, FiniteSetTheorems, TLAPS

-----------------------------------------------------------------------------
(* The recursive functions exist, so their defining equations hold. *)

LEMMA SumTraceDef ==
  ASSUME NEW f, NEW n \in Nat
  PROVE  SumTrace(f, n) =
           [i \in 0..n |-> IF i = 0 THEN 0 ELSE SumTrace(f, n)[i-1] + f[i]]
<1> DEFINE S == {m \in Nat : \E g :
                   g = [i \in 0..m |-> IF i = 0 THEN 0 ELSE g[i-1] + f[i]]}
<1>1. 0 \in S
  <2>1. [i \in 0..0 |-> 0] = [i \in 0..0 |-> IF i = 0 THEN 0
                               ELSE [j \in 0..0 |-> 0][i-1] + f[i]]
    OBVIOUS
  <2> QED BY <2>1
<1>2. ASSUME NEW m \in Nat, m \in S PROVE m + 1 \in S
  <2>1. PICK g : g = [i \in 0..m |-> IF i = 0 THEN 0 ELSE g[i-1] + f[i]]
    BY <1>2
  <2> DEFINE h == [i \in 0..(m+1) |-> IF i = m + 1 THEN g[m] + f[m+1] ELSE g[i]]
  <2>2. \A i \in 0..(m+1) : h[i] = IF i = 0 THEN 0 ELSE h[i-1] + f[i]
    BY <2>1
  <2>3. h = [i \in 0..(m+1) |-> IF i = 0 THEN 0 ELSE h[i-1] + f[i]]
    <3> HIDE DEF h
    <3>1. h = [i \in 0..(m+1) |-> h[i]] BY DEF h
    <3> QED BY <2>2, <3>1
  <2> HIDE DEF h
  <2> QED BY <2>3
<1> HIDE DEF S
<1>3. n \in S
  BY <1>1, <1>2, SetInduction
<1> QED BY <1>3 DEF S, SumTrace

LEMMA ApplyTraceDef ==
  ASSUME NEW acct, NEW txs, Len(txs) \in Nat
  PROVE  ApplyTrace(acct, txs) =
           [i \in 0..Len(txs) |->
              IF i = 0 THEN acct ELSE Apply(ApplyTrace(acct, txs)[i-1], txs[i])]
<1> DEFINE S == {m \in Nat : \E g :
             g = [i \in 0..m |-> IF i = 0 THEN acct ELSE Apply(g[i-1], txs[i])]}
<1>1. 0 \in S
  <2>1. [i \in 0..0 |-> acct] =
          [i \in 0..0 |-> IF i = 0 THEN acct
                          ELSE Apply([j \in 0..0 |-> acct][i-1], txs[i])]
    OBVIOUS
  <2> QED BY <2>1
<1>2. ASSUME NEW m \in Nat, m \in S PROVE m + 1 \in S
  <2>1. PICK g : g = [i \in 0..m |->
                        IF i = 0 THEN acct ELSE Apply(g[i-1], txs[i])]
    BY <1>2
  <2> DEFINE h == [i \in 0..(m+1) |->
                     IF i = m + 1 THEN Apply(g[m], txs[m+1]) ELSE g[i]]
  <2>2. \A i \in 0..(m+1) :
          h[i] = IF i = 0 THEN acct ELSE Apply(h[i-1], txs[i])
    BY <2>1
  <2>3. h = [i \in 0..(m+1) |-> IF i = 0 THEN acct ELSE Apply(h[i-1], txs[i])]
    <3> HIDE DEF h
    <3>1. h = [i \in 0..(m+1) |-> h[i]] BY DEF h
    <3> QED BY <2>2, <3>1
  <2> HIDE DEF h
  <2> QED BY <2>3
<1> HIDE DEF S
<1>3. Len(txs) \in S
  BY <1>1, <1>2, SetInduction
<1> QED BY <1>3 DEF S, ApplyTrace

LEMMA CheckTraceDef ==
  ASSUME NEW acct, NEW txs, Len(txs) \in Nat
  PROVE  CheckTrace(acct, txs) =
           [i \in 0..Len(txs) |->
              IF i = 0
              THEN [ok |-> TRUE, seen |-> FALSE,
                    balances |-> acct.balances, nonces |-> acct.nonces]
              ELSE Check(CheckTrace(acct, txs)[i-1], txs[i],
                         BLOCK_REWARD + Fees(txs))]
<1> DEFINE w0 == [ok |-> TRUE, seen |-> FALSE,
                  balances |-> acct.balances, nonces |-> acct.nonces]
           E == BLOCK_REWARD + Fees(txs)
           S == {m \in Nat : \E g :
             g = [i \in 0..m |-> IF i = 0 THEN w0 ELSE Check(g[i-1], txs[i], E)]}
<1> HIDE DEF w0, E
<1>1. 0 \in S
  <2>1. [i \in 0..0 |-> w0] =
          [i \in 0..0 |-> IF i = 0 THEN w0
                          ELSE Check([j \in 0..0 |-> w0][i-1], txs[i], E)]
    OBVIOUS
  <2> QED BY <2>1
<1>2. ASSUME NEW m \in Nat, m \in S PROVE m + 1 \in S
  <2>1. PICK g : g = [i \in 0..m |->
                        IF i = 0 THEN w0 ELSE Check(g[i-1], txs[i], E)]
    BY <1>2
  <2> DEFINE h == [i \in 0..(m+1) |->
                     IF i = m + 1 THEN Check(g[m], txs[m+1], E) ELSE g[i]]
  <2>2. \A i \in 0..(m+1) :
          h[i] = IF i = 0 THEN w0 ELSE Check(h[i-1], txs[i], E)
    BY <2>1
  <2>3. h = [i \in 0..(m+1) |-> IF i = 0 THEN w0 ELSE Check(h[i-1], txs[i], E)]
    <3> HIDE DEF h
    <3>1. h = [i \in 0..(m+1) |-> h[i]] BY DEF h
    <3> QED BY <2>2, <3>1
  <2> HIDE DEF h
  <2> QED BY <2>3
<1> HIDE DEF S
<1>3. Len(txs) \in S
  BY <1>1, <1>2, SetInduction
<1> QED BY <1>3 DEF S, CheckTrace, w0, E

(* Both traces start at the account state given. *)
LEMMA TracesStart ==
  ASSUME NEW acct, NEW txs, Len(txs) \in Nat
  PROVE  /\ ApplyTrace(acct, txs)[0] = acct
         /\ CheckTrace(acct, txs)[0] =
              [ok |-> TRUE, seen |-> FALSE,
               balances |-> acct.balances, nonces |-> acct.nonces]
<1> DEFINE w == CheckTrace(acct, txs)
           w0 == [ok |-> TRUE, seen |-> FALSE,
                  balances |-> acct.balances, nonces |-> acct.nonces]
<1>1. ApplyTrace(acct, txs)[0] = acct
  BY ApplyTraceDef
<1>2. w = [i \in 0..Len(txs) |->
             IF i = 0 THEN w0
             ELSE Check(w[i-1], txs[i], BLOCK_REWARD + Fees(txs))]
  BY CheckTraceDef
<1> HIDE DEF w0, w
<1>3. w[0] = w0
  BY <1>2
<1> QED BY <1>1, <1>3 DEF w0, w

-----------------------------------------------------------------------------
(* Sums *)

LEMMA SumSteps ==
  ASSUME NEW n \in Nat, NEW f, \A i \in 1..n : f[i] \in Int
  PROVE  /\ SumTrace(f, n)[0] = 0
         /\ \A i \in 1..n : SumTrace(f, n)[i] = SumTrace(f, n)[i-1] + f[i]
         /\ \A i \in 0..n : SumTrace(f, n)[i] \in Int
         /\ Sum(f, n) = SumTrace(f, n)[n]
<1> DEFINE t == SumTrace(f, n)
<1>1. t = [i \in 0..n |-> IF i = 0 THEN 0 ELSE t[i-1] + f[i]]
  BY SumTraceDef
<1> HIDE DEF t
<1>2. t[0] = 0 /\ \A i \in 1..n : t[i] = t[i-1] + f[i]
  BY <1>1
<1> DEFINE S == {i \in 0..n : t[i] \in Int}
<1>3. \A i \in 0..n : i \in S
  <2>1. 0 \in S
    BY <1>2
  <2>2. \A i \in 0..(n-1) : i \in S => i + 1 \in S
    BY <1>2
  <2> HIDE DEF S
  <2> QED BY <2>1, <2>2, UpTo
<1> QED BY <1>2, <1>3 DEF t, Sum

(* A sum of non-negative numbers is not negative. *)
LEMMA SumNat ==
  ASSUME NEW n \in Nat, NEW f, \A i \in 1..n : f[i] \in Nat
  PROVE  \A i \in 0..n : SumTrace(f, n)[i] \in Nat
<1> DEFINE t == SumTrace(f, n)
<1>1. t[0] = 0 /\ \A i \in 1..n : t[i] = t[i-1] + f[i]
  BY SumSteps
<1> HIDE DEF t
<1> DEFINE S == {i \in 0..n : t[i] \in Nat}
<1>2. 0 \in S
  BY <1>1
<1>3. \A i \in 0..(n-1) : i \in S => i + 1 \in S
  BY <1>1
<1> HIDE DEF S
<1>4. \A i \in 0..n : i \in S
  BY <1>2, <1>3, UpTo
<1> QED BY <1>4 DEF S, t

(* Changing one summand by d changes the sum by d. *)
LEMMA SumUpdate ==
  ASSUME NEW n \in Nat, NEW f, \A i \in 1..n : f[i] \in Int,
         NEW g, NEW k \in 1..n, NEW d \in Int,
         \A i \in 1..n : g[i] = IF i = k THEN f[i] + d ELSE f[i]
  PROVE  Sum(g, n) = Sum(f, n) + d
<1> DEFINE s == SumTrace(f, n)
           t == SumTrace(g, n)
<1>1. /\ s[0] = 0 /\ \A i \in 1..n : s[i] = s[i-1] + f[i]
      /\ \A i \in 0..n : s[i] \in Int /\ Sum(f, n) = s[n]
  BY SumSteps
<1>2. /\ t[0] = 0 /\ \A i \in 1..n : t[i] = t[i-1] + g[i]
      /\ \A i \in 0..n : t[i] \in Int /\ Sum(g, n) = t[n]
  <2>1. \A i \in 1..n : g[i] \in Int
    OBVIOUS
  <2> QED BY <2>1, SumSteps
<1> HIDE DEF s, t
<1> DEFINE S == {i \in 0..n : t[i] = s[i] + (IF i >= k THEN d ELSE 0)}
<1>3. 0 \in S
  BY <1>1, <1>2
<1>4. ASSUME NEW i \in 0..(n-1), i \in S PROVE i + 1 \in S
  <2>1. i + 1 \in 1..n /\ (i + 1) - 1 = i
    OBVIOUS
  <2>2. s[i+1] = s[i] + f[i+1] /\ t[i+1] = t[i] + g[i+1]
    BY <2>1, <1>1, <1>2
  <2> QED BY <1>4, <2>1, <2>2, <1>1, <1>2
<1> HIDE DEF S
<1>5. \A i \in 0..n : i \in S
  BY <1>3, <1>4, UpTo
<1> QED BY <1>1, <1>2, <1>5 DEF S

(* A longer sum adds the summands beyond the shorter one. *)
LEMMA SumAppend ==
  ASSUME NEW n \in Nat, NEW f, NEW g, \A i \in 1..(n+1) : g[i] \in Int,
         \A i \in 1..n : g[i] = f[i]
  PROVE  Sum(g, n + 1) = Sum(f, n) + g[n+1]
<1> DEFINE s == SumTrace(f, n)
           t == SumTrace(g, n + 1)
           S == {i \in 0..n : t[i] = s[i]}
<1>1. /\ s[0] = 0 /\ \A i \in 1..n : s[i] = s[i-1] + f[i]
      /\ Sum(f, n) = s[n]
  BY SumSteps
<1>2. /\ t[0] = 0 /\ \A i \in 1..(n+1) : t[i] = t[i-1] + g[i]
      /\ Sum(g, n + 1) = t[n+1]
  BY SumSteps
<1> HIDE DEF s, t
<1>3. 0 \in S
  BY <1>1, <1>2
<1>4. \A i \in 0..(n-1) : i \in S => i + 1 \in S
  BY <1>1, <1>2
<1> HIDE DEF S
<1>5. t[n] = s[n]
  <2>1. \A i \in 0..n : i \in S
    BY <1>3, <1>4, UpTo
  <2> QED BY <2>1 DEF S
<1> QED BY <1>1, <1>2, <1>5

-----------------------------------------------------------------------------
(* One transaction *)

LEMMA MintTotal ==
  ASSUME NEW bal \in [Accounts -> Int], NEW tx \in Transaction
  PROVE  /\ Mint(bal, tx) \in [Accounts -> Int]
         /\ Total(Mint(bal, tx)) = Total(bal) + tx.amount
<1>1. NumAccounts \in Nat /\ Accounts = 1..NumAccounts
  BY NumAccountsAssumption DEF Accounts
<1>2. tx.recipient \in Accounts /\ tx.amount \in Int
  BY DEF Transaction
<1>3. Mint(bal, tx) \in [Accounts -> Int]
  BY <1>2 DEF Mint
<1>4. \A i \in 1..NumAccounts :
        Mint(bal, tx)[i] = IF i = tx.recipient THEN bal[i] + tx.amount ELSE bal[i]
  BY <1>1, <1>2 DEF Mint
<1>5. \A i \in 1..NumAccounts : bal[i] \in Int
  BY <1>1
<1>6. tx.recipient \in 1..NumAccounts
  BY <1>1, <1>2
<1>7. Total(Mint(bal, tx)) = Total(bal) + tx.amount
  <2> HIDE DEF Total, Mint
  <2> QED BY <1>1, <1>2, <1>4, <1>5, <1>6, SumUpdate DEF Total
<1> QED BY <1>3, <1>7

LEMMA TransferTotal ==
  ASSUME NEW bal \in [Accounts -> Int], NEW tx \in Transaction, ~IsCoinbase(tx)
  PROVE  /\ Transfer(bal, tx) \in [Accounts -> Int]
         /\ Total(Transfer(bal, tx)) = Total(bal) - tx.fee
<1>1. NumAccounts \in Nat /\ Accounts = 1..NumAccounts
  BY NumAccountsAssumption DEF Accounts
<1>2. /\ tx.sender \in Accounts /\ tx.recipient \in Accounts
      /\ tx.sender \in 1..NumAccounts /\ tx.recipient \in 1..NumAccounts
      /\ tx.amount \in Int /\ tx.fee \in Int
  BY <1>1 DEF Transaction, IsCoinbase
<1>0. PICK debit \in Int : debit = 0 - (tx.amount + tx.fee)
  BY <1>2
<1> DEFINE paid == [a \in Accounts |-> IF a = tx.sender THEN bal[a] + debit ELSE bal[a]]
<1>3. paid \in [Accounts -> Int] /\ Transfer(bal, tx) \in [Accounts -> Int]
  BY <1>0, <1>2 DEF Transfer
<1>4. /\ \A i \in 1..NumAccounts : bal[i] \in Int
      /\ \A i \in 1..NumAccounts : paid[i] \in Int
  BY <1>1, <1>3
<1>5. \A i \in 1..NumAccounts :
        paid[i] = IF i = tx.sender THEN bal[i] + debit ELSE bal[i]
  BY <1>1
<1>6. \A i \in 1..NumAccounts :
        Transfer(bal, tx)[i] =
          IF i = tx.recipient THEN paid[i] + tx.amount ELSE paid[i]
  BY <1>0, <1>1, <1>2 DEF Transfer
<1>7. Sum(paid, NumAccounts) = Sum(bal, NumAccounts) + debit
  <2>1. /\ NumAccounts \in Nat /\ tx.sender \in 1..NumAccounts
        /\ \A i \in 1..NumAccounts : bal[i] \in Int
    BY <1>1, <1>2, <1>4
  <2> HIDE DEF paid
  <2> QED BY <2>1, <1>5, SumUpdate
<1>8. Sum(Transfer(bal, tx), NumAccounts) = Sum(paid, NumAccounts) + tx.amount
  <2>1. NumAccounts \in Nat /\ tx.recipient \in 1..NumAccounts /\ tx.amount \in Int
    BY <1>1, <1>2
  <2> HIDE DEF paid
  <2> QED BY <2>1, <1>4, <1>6, SumUpdate
<1>9. Sum(bal, NumAccounts) \in Int
  BY <1>1, <1>4, SumSteps
<1> QED
  <2> HIDE DEF paid
  <2> QED BY <1>0, <1>2, <1>3, <1>7, <1>8, <1>9 DEF Total

-----------------------------------------------------------------------------
(* The validator's working copy and the applied state side by side *)

CheckState == [ok: BOOLEAN, seen: BOOLEAN,
               balances: [Accounts -> Int], nonces: [Accounts -> Nat]]

(* The working copy has the nonces of the applied state. *)
Agrees(w, st) ==
  w \in CheckState /\ st \in AccountState /\ w.nonces = st.nonces

LEMMA TakenType ==
  ASSUME NEW tx \in Transaction, NEW a \in Accounts
  PROVE  Taken(tx, a) \in Nat
<1>1. tx.amount \in Int
  BY DEF Transaction
<1> QED BY <1>1 DEF Taken

(* Between s0 and st, but for what coinbases took, account a lost money     *)
(* only with its nonce.                                                     *)
Moved(s0, st, a, lost) ==
  /\ st.nonces[a] >= s0.nonces[a]
  /\ st.balances[a] + lost < s0.balances[a] => st.nonces[a] > s0.nonces[a]

LEMMA MovedOn ==
  ASSUME NEW s0 \in AccountState, NEW s1 \in AccountState, NEW s2 \in AccountState,
         NEW a \in Accounts, NEW lost \in Nat, NEW taken \in Nat,
         Moved(s0, s1, a, lost), Moved(s1, s2, a, taken)
  PROVE  Moved(s0, s2, a, lost + taken)
<1>1. /\ s0.balances[a] \in Int /\ s0.nonces[a] \in Nat
      /\ s1.balances[a] \in Int /\ s1.nonces[a] \in Nat
      /\ s2.balances[a] \in Int /\ s2.nonces[a] \in Nat
  BY DEF AccountState
<1> QED BY <1>1 DEF Moved

(* Checking and applying one accepted transaction keeps the nonces equal    *)
(* and lowers the applied balance of an account, but for what a coinbase    *)
(* takes, only with its nonce.  The working balance of an account never     *)
(* gets below zero and, but for what coinbases took, not above the applied  *)
(* one.                                                                     *)
LEMMA StepAgrees ==
  ASSUME NEW w, NEW st, Agrees(w, st), NEW tx \in Transaction,
         NEW E \in Int, Accepted(w, tx, E)
  PROVE  /\ Agrees(Check(w, tx, E), Apply(st, tx))
         /\ \A a \in Accounts : Moved(st, Apply(st, tx), a, Taken(tx, a))
         /\ \A a \in Accounts : \A owed, lost \in Nat :
              /\ -owed <= w.balances[a]
              /\ w.balances[a] <= st.balances[a] + lost
              => /\ -owed <= Check(w, tx, E).balances[a]
                 /\ Check(w, tx, E).balances[a]
                      <= Apply(st, tx).balances[a] + (lost + Taken(tx, a))
<1>1. /\ w \in CheckState /\ st \in AccountState /\ w.nonces = st.nonces
      /\ w.balances \in [Accounts -> Int] /\ w.nonces \in [Accounts -> Nat]
      /\ st.balances \in [Accounts -> Int] /\ st.nonces \in [Accounts -> Nat]
      /\ w.ok \in BOOLEAN /\ w.seen \in BOOLEAN
  BY DEF Agrees, CheckState, AccountState
<1>2. /\ tx.recipient \in Accounts /\ tx.amount \in Int /\ tx.fee \in Int
      /\ tx.nonce \in Nat
  BY DEF Transaction
<1> DEFINE w2 == Check(w, tx, E)
           st2 == Apply(st, tx)
<1>3. Agrees(w2, st2)
  <2>1. CASE IsCoinbase(tx)
    BY <1>1, <1>2, <2>1
      DEF Agrees, Check, Apply, NextNonces, CheckState, AccountState, Mint
  <2>2. CASE ~IsCoinbase(tx)
    <3>1. tx.sender \in Accounts
      BY <2>2 DEF Transaction, IsCoinbase
    <3> QED BY <1>1, <1>2, <2>2, <3>1
          DEF Agrees, Check, Apply, NextNonces, CheckState, AccountState, Transfer
  <2> QED BY <2>1, <2>2
<1>4. ASSUME NEW a \in Accounts
      PROVE  /\ st2.nonces[a] >= st.nonces[a]
             /\ st2.balances[a] + Taken(tx, a) < st.balances[a]
                  => st2.nonces[a] > st.nonces[a]
             /\ \A owed, lost \in Nat :
                  /\ -owed <= w.balances[a]
                  /\ w.balances[a] <= st.balances[a] + lost
                  => /\ -owed <= w2.balances[a]
                     /\ w2.balances[a] <= st2.balances[a] + (lost + Taken(tx, a))
  <2>0. /\ w.balances[a] \in Int /\ st.balances[a] \in Int /\ st.nonces[a] \in Nat
    BY <1>1
  <2>1. CASE IsCoinbase(tx)
    <3>1. /\ w2.balances[a] = w.balances[a] /\ st2.nonces[a] = st.nonces[a]
          /\ st2.balances[a] =
               IF a = tx.recipient THEN st.balances[a] + tx.amount ELSE st.balances[a]
      BY <1>1, <1>2, <2>1 DEF Check, Apply, NextNonces, Mint
    <3>2. Taken(tx, a) =
            IF a = tx.recipient /\ tx.amount < 0 THEN -tx.amount ELSE 0
      BY <2>1 DEF Taken
    <3> HIDE DEF w2, st2
    <3> QED BY <1>2, <2>0, <3>1, <3>2
  <2>2. CASE ~IsCoinbase(tx)
    <3>1. /\ tx.sender \in Accounts /\ tx.amount >= 0 /\ tx.fee >= 0
          /\ tx.nonce = st.nonces[tx.sender]
          /\ w.balances[tx.sender] >= tx.amount + tx.fee
      BY <1>1, <2>2 DEF Transaction, IsCoinbase, Accepted, TransferAccepted, IsValid
    <3> DEFINE moved == (IF a = tx.recipient THEN tx.amount ELSE 0)
                        - (IF a = tx.sender THEN tx.amount + tx.fee ELSE 0)
    <3>2. /\ w2.balances[a] = w.balances[a] + moved
          /\ st2.balances[a] = st.balances[a] + moved
          /\ st2.nonces[a] = IF a = tx.sender THEN st.nonces[a] + 1 ELSE st.nonces[a]
      BY <1>1, <1>2, <2>0, <2>2, <3>1 DEF Check, Apply, NextNonces, Transfer
    <3>3. Taken(tx, a) = 0
      BY <2>2 DEF Taken
    <3>4. moved \in Int /\ (a # tx.sender => moved >= 0)
          /\ (a = tx.sender => w.balances[a] + moved >= 0)
      BY <1>2, <2>0, <3>1
    <3> HIDE DEF w2, st2, moved
    <3> QED BY <2>0, <3>2, <3>3, <3>4
  <2> QED BY <2>1, <2>2
<1> QED BY <1>3, <1>4 DEF Moved

-----------------------------------------------------------------------------
(* Whole blocks *)

LEMMA FeesType ==
  ASSUME NEW txs \in Seq(Transaction)
  PROVE  /\ Len(txs) \in Nat /\ \A i \in 1..Len(txs) : txs[i] \in Transaction
         /\ \A i \in 1..Len(txs) :
              TransferFees(txs)[i] = IF IsCoinbase(txs[i]) THEN 0 ELSE txs[i].fee
         /\ \A i \in 1..Len(txs) : TransferFees(txs)[i] \in Int
         /\ Fees(txs) \in Int
<1>1. Len(txs) \in Nat /\ \A i \in 1..Len(txs) : txs[i] \in Transaction
  OBVIOUS
<1>2. \A i \in 1..Len(txs) :
        TransferFees(txs)[i] = IF IsCoinbase(txs[i]) THEN 0 ELSE txs[i].fee
  BY DEF TransferFees
<1>3. \A i \in 1..Len(txs) : TransferFees(txs)[i] \in Int
  <2> SUFFICES ASSUME NEW i \in 1..Len(txs) PROVE TransferFees(txs)[i] \in Int
    OBVIOUS
  <2>1. PICK tx \in Transaction : tx = txs[i]
    BY <1>1
  <2>2. tx.fee \in Int
    BY DEF Transaction
  <2> QED BY <1>2, <2>1, <2>2
<1>4. Len(txs) \in 0..Len(txs)
  BY <1>1
<1>5. Fees(txs) \in Int
  BY <1>1, <1>3, <1>4, SumSteps DEF Fees
<1> QED BY <1>1, <1>2, <1>3, <1>5

(* Validation succeeds only if every transaction is accepted where it       *)
(* stands.                                                                  *)
LEMMA AllAccepted ==
  ASSUME NEW acct \in AccountState, NEW txs \in Seq(Transaction),
         ValidTransactions(acct, txs)
  PROVE  \A i \in 1..Len(txs) :
           Accepted(CheckTrace(acct, txs)[i-1], txs[i], BLOCK_REWARD + Fees(txs))
<1> DEFINE w == CheckTrace(acct, txs)
           E == BLOCK_REWARD + Fees(txs)
           n == Len(txs)
<1>1. n \in Nat
  BY FeesType
<1>2. \A i \in 1..n : w[i] = Check(w[i-1], txs[i], E)
  BY <1>1, CheckTraceDef
<1> HIDE DEF w, E
<1>3. \A i \in 1..n : w[i].ok => w[i-1].ok /\ Accepted(w[i-1], txs[i], E)
  <2> TAKE i \in 1..n
  <2>1. w[i] = Check(w[i-1], txs[i], E)
    BY <1>2
  <2>2. Check(w[i-1], txs[i], E).ok = (w[i-1].ok /\ Accepted(w[i-1], txs[i], E))
    BY Zenon DEF Check
  <2> QED BY Zenon, <2>1, <2>2
<1>4. w[n].ok
  BY DEF ValidTransactions, w
<1> DEFINE S == {k \in 0..n : w[n-k].ok}
<1>5. 0 \in S
  BY <1>1, <1>4
<1>6. \A k \in 0..(n-1) : k \in S => k + 1 \in S
  <2> SUFFICES ASSUME NEW k \in 0..(n-1), w[n-k].ok PROVE w[n-(k+1)].ok
    BY <1>1
  <2>1. n - k \in 1..n /\ n - (k+1) = (n - k) - 1
    BY <1>1
  <2> QED BY <2>1, <1>3
<1> HIDE DEF S
<1>7. \A k \in 0..n : k \in S
  BY <1>1, <1>5, <1>6, UpTo
<1>8. \A i \in 1..n : w[i].ok
  <2> SUFFICES ASSUME NEW i \in 1..n PROVE w[i].ok
    OBVIOUS
  <2>1. n - i \in 0..n /\ n - (n - i) = i
    BY <1>1
  <2> QED BY <2>1, <1>7 DEF S
<1> QED BY <1>3, <1>8 DEF w, E

(* What coinbases take from an account, transaction by transaction. *)
LEMMA LostSteps ==
  ASSUME NEW txs \in Seq(Transaction), NEW a \in Accounts
  PROVE  /\ Lost(txs, a)[0] = 0
         /\ \A i \in 1..Len(txs) :
              Lost(txs, a)[i] = Lost(txs, a)[i-1] + Taken(txs[i], a)
         /\ \A i \in 0..Len(txs) : Lost(txs, a)[i] \in Nat
         /\ CoinbaseDebit(txs, a) \in Nat
<1> DEFINE f == [i \in 1..Len(txs) |-> Taken(txs[i], a)]
           n == Len(txs)
<1>1. n \in Nat /\ \A i \in 1..n : f[i] = Taken(txs[i], a) /\ f[i] \in Nat
  BY TakenType
<1>2. Lost(txs, a) = SumTrace(f, n) /\ CoinbaseDebit(txs, a) = Lost(txs, a)[n]
  BY DEF Lost, CoinbaseDebit
<1> HIDE DEF f
<1>3. \A i \in 0..n : SumTrace(f, n)[i] \in Nat
  BY <1>1, SumNat
<1>4. /\ SumTrace(f, n)[0] = 0
      /\ \A i \in 1..n : SumTrace(f, n)[i] = SumTrace(f, n)[i-1] + f[i]
  BY <1>1, SumSteps
<1>5. n \in 0..n
  BY <1>1
<1> QED BY <1>1, <1>2, <1>3, <1>4, <1>5

(* The working copy keeps every bound below zero that held at the start,    *)
(* and the applied state is below it only by what coinbases took.           *)
Kept(s0, w, st, a, lost) ==
  \A owed \in Nat :
    -owed <= s0.balances[a] =>
      -owed <= w.balances[a] /\ w.balances[a] <= st.balances[a] + lost

(* The working copy and the applied state after each transaction of a       *)
(* validated block.                                                         *)
LEMMA TracesAgree ==
  ASSUME NEW s0 \in AccountState, NEW txs \in Seq(Transaction),
         ValidTransactions(s0, txs)
  PROVE  \A i \in 0..Len(txs) :
           /\ Agrees(CheckTrace(s0, txs)[i], ApplyTrace(s0, txs)[i])
           /\ \A a \in Accounts :
                /\ Moved(s0, ApplyTrace(s0, txs)[i], a, Lost(txs, a)[i])
                /\ Kept(s0, CheckTrace(s0, txs)[i], ApplyTrace(s0, txs)[i], a,
                        Lost(txs, a)[i])
<1> DEFINE w == CheckTrace(s0, txs)
           st == ApplyTrace(s0, txs)
           E == BLOCK_REWARD + Fees(txs)
           n == Len(txs)
           Both(i, a) == /\ Moved(s0, st[i], a, Lost(txs, a)[i])
                         /\ Kept(s0, w[i], st[i], a, Lost(txs, a)[i])
           S == {i \in 0..n : Agrees(w[i], st[i]) /\ \A a \in Accounts : Both(i, a)}
<1>1. /\ n \in Nat /\ E \in Int /\ \A i \in 1..n : txs[i] \in Transaction
  BY FeesType, RewardAssumption
<1>2. \A i \in 1..n : Accepted(w[i-1], txs[i], E)
  BY AllAccepted
<1>3. /\ st[0] = s0
      /\ w[0] = [ok |-> TRUE, seen |-> FALSE,
                 balances |-> s0.balances, nonces |-> s0.nonces]
  BY <1>1, TracesStart
<1>4. \A i \in 1..n : st[i] = Apply(st[i-1], txs[i]) /\ w[i] = Check(w[i-1], txs[i], E)
  BY <1>1, ApplyTraceDef, CheckTraceDef
<1>5. \A a \in Accounts :
        /\ Lost(txs, a)[0] = 0
        /\ \A i \in 1..n : Lost(txs, a)[i] = Lost(txs, a)[i-1] + Taken(txs[i], a)
        /\ \A i \in 0..n : Lost(txs, a)[i] \in Nat
  BY LostSteps
<1> HIDE DEF w, st, E
<1>6. 0 \in S
  <2>1. Agrees(w[0], st[0])
    BY <1>3 DEF Agrees, CheckState, AccountState
  <2>2. ASSUME NEW a \in Accounts PROVE Both(0, a)
    <3>1. s0.balances[a] \in Int /\ s0.nonces[a] \in Nat
      BY DEF AccountState
    <3> QED BY <1>3, <1>5, <3>1 DEF Moved, Kept
  <2> HIDE DEF Both
  <2> QED BY <1>1, <2>1, <2>2
<1>7. \A i \in 0..(n-1) : i \in S => i + 1 \in S
  <2> HIDE DEF Both
  <2> SUFFICES ASSUME NEW i \in 0..(n-1), Agrees(w[i], st[i]),
                      \A a \in Accounts : Both(i, a)
               PROVE  Agrees(w[i+1], st[i+1]) /\ \A a \in Accounts : Both(i+1, a)
    BY <1>1
  <2>1. i + 1 \in 1..n /\ (i + 1) - 1 = i /\ i \in 0..n
    BY <1>1
  <2>2. /\ Accepted(w[i], txs[i+1], E)
        /\ txs[i+1] \in Transaction
        /\ st[i+1] = Apply(st[i], txs[i+1]) /\ w[i+1] = Check(w[i], txs[i+1], E)
    BY <2>1, <1>1, <1>2, <1>4
  <2>3. /\ Agrees(w[i+1], st[i+1])
        /\ \A a \in Accounts : Moved(st[i], st[i+1], a, Taken(txs[i+1], a))
        /\ \A a \in Accounts : \A owed, lost \in Nat :
             /\ -owed <= w[i].balances[a]
             /\ w[i].balances[a] <= st[i].balances[a] + lost
             => /\ -owed <= w[i+1].balances[a]
                /\ w[i+1].balances[a]
                     <= st[i+1].balances[a] + (lost + Taken(txs[i+1], a))
    BY <1>1, <2>2, StepAgrees
  <2>4. ASSUME NEW a \in Accounts PROVE Both(i+1, a)
    <3>1. /\ Lost(txs, a)[i+1] = Lost(txs, a)[i] + Taken(txs[i+1], a)
          /\ Lost(txs, a)[i] \in Nat /\ Taken(txs[i+1], a) \in Nat
      BY <1>5, <2>1, <2>2, TakenType
    <3>2. st[i] \in AccountState /\ st[i+1] \in AccountState
      BY <2>3 DEF Agrees
    <3>3. /\ Moved(s0, st[i], a, Lost(txs, a)[i])
          /\ Kept(s0, w[i], st[i], a, Lost(txs, a)[i])
      BY DEF Both
    <3>4. Moved(s0, st[i+1], a, Lost(txs, a)[i+1])
      BY <2>3, <3>1, <3>2, <3>3, MovedOn
    <3>5. Kept(s0, w[i+1], st[i+1], a, Lost(txs, a)[i+1])
      BY <2>3, <3>1, <3>3 DEF Kept
    <3> QED BY <3>4, <3>5 DEF Both
  <2> QED BY <2>3, <2>4
<1> HIDE DEF S
<1>8. \A i \in 0..n : i \in S
  BY <1>1, <1>6, <1>7, UpTo
<1> QED BY <1>8 DEF S, Both, w, st

(* What a validated block does to the account state: still well typed, and  *)
(* but for what its coinbases take, money leaves an account only with its   *)
(* nonce and no account gets further below zero.                            *)
LEMMA ApplyValidated ==
  ASSUME NEW s0 \in AccountState, NEW txs \in Seq(Transaction),
         ValidTransactions(s0, txs)
  PROVE  /\ ApplyBlock(s0, txs) \in AccountState
         /\ \A a \in Accounts :
              /\ Moved(s0, ApplyBlock(s0, txs), a, CoinbaseDebit(txs, a))
              /\ \A owed \in Nat :
                   -owed <= s0.balances[a] =>
                     -owed <= ApplyBlock(s0, txs).balances[a] + CoinbaseDebit(txs, a)
<1> DEFINE st == ApplyBlock(s0, txs)
<1>1. Len(txs) \in 0..Len(txs)
  OBVIOUS
<1>2. PICK w : /\ Agrees(w, st)
               /\ \A a \in Accounts : /\ Moved(s0, st, a, CoinbaseDebit(txs, a))
                                      /\ Kept(s0, w, st, a, CoinbaseDebit(txs, a))
  BY <1>1, TracesAgree DEF ApplyBlock, CoinbaseDebit
<1> HIDE DEF st
<1>3. st \in AccountState
  BY <1>2 DEF Agrees
<1>4. ASSUME NEW a \in Accounts, NEW owed \in Nat, -owed <= s0.balances[a]
      PROVE  -owed <= st.balances[a] + CoinbaseDebit(txs, a)
  <2>1. -owed <= w.balances[a] /\ w.balances[a] <= st.balances[a] + CoinbaseDebit(txs, a)
    BY <1>2, <1>4 DEF Kept
  <2>2. w.balances[a] \in Int /\ st.balances[a] \in Int /\ CoinbaseDebit(txs, a) \in Nat
    BY <1>2, <1>3, LostSteps DEF Agrees, CheckState, AccountState
  <2> QED BY <2>1, <2>2
<1> QED BY <1>2, <1>3, <1>4 DEF st

-----------------------------------------------------------------------------
(* Issuance *)

LEMMA TotalType ==
  ASSUME NEW bal \in [Accounts -> Int]
  PROVE  Total(bal) \in Int
<1>1. NumAccounts \in Nat /\ NumAccounts \in 0..NumAccounts
      /\ \A i \in 1..NumAccounts : bal[i] \in Int
  BY NumAccountsAssumption DEF Accounts
<1> QED BY <1>1, SumSteps DEF Total

(* Suppose each transfer of a validated block lowers a total by its fee and *)
(* a coinbase raises it by no more than a coinbase may pay.  Then the whole *)
(* block raises it by BLOCK_REWARD at most: there is one coinbase, and the  *)
(* fees it may collect have left the total.                                 *)
LEMMA IssuanceByTotals ==
  ASSUME NEW s0 \in AccountState, NEW txs \in Seq(Transaction),
         ValidTransactions(s0, txs),
         NEW T, \A i \in 0..Len(txs) : T[i] \in Int,
         BLOCK_REWARD + Fees(txs) \in Nat =>
           \A i \in 1..Len(txs) :
             IF IsCoinbase(txs[i])
             THEN (txs[i].amount <= BLOCK_REWARD + Fees(txs)) =>
                    T[i] <= T[i-1] + (BLOCK_REWARD + Fees(txs))
             ELSE T[i] = T[i-1] - txs[i].fee
  PROVE  T[Len(txs)] <= T[0] + BLOCK_REWARD
<1> DEFINE w == CheckTrace(s0, txs)
           E == BLOCK_REWARD + Fees(txs)
           n == Len(txs)
           fee == TransferFees(txs)
           paid == SumTrace(fee, n)
           S == {i \in 0..n : /\ w[i].seen => T[i] + paid[i] <= T[0] + E
                              /\ ~w[i].seen => T[i] + paid[i] <= T[0]}
<1>1. /\ n \in Nat /\ E \in Int
      /\ \A i \in 1..n : txs[i] \in Transaction
      /\ \A i \in 1..n : fee[i] = IF IsCoinbase(txs[i]) THEN 0 ELSE txs[i].fee
      /\ \A i \in 1..n : fee[i] \in Int
      /\ Fees(txs) \in Int
  BY FeesType, RewardAssumption
<1>2. \A i \in 1..n : Accepted(w[i-1], txs[i], E)
  BY AllAccepted
<1>3. w[0].seen = FALSE
  BY <1>1, CheckTraceDef
<1>4. \A i \in 1..n : w[i] = Check(w[i-1], txs[i], E)
  BY <1>1, CheckTraceDef
<1>5. /\ paid[0] = 0
      /\ \A i \in 1..n : paid[i] = paid[i-1] + fee[i]
      /\ \A i \in 0..n : paid[i] \in Int
      /\ Fees(txs) = paid[n]
  BY <1>1, SumSteps DEF Fees
<1>6. \A i \in 1..n : fee[i] \in Nat
  <2> SUFFICES ASSUME NEW i \in 1..n, ~IsCoinbase(txs[i]) PROVE txs[i].fee >= 0
    BY <1>1
  <2> QED BY <1>2 DEF Accepted, TransferAccepted, IsValid
<1>7. paid[n] \in Nat
  <2>1. n \in 0..n
    BY <1>1
  <2> QED BY <2>1, <1>1, <1>6, SumNat
<1>8. E \in Nat /\ E = BLOCK_REWARD + paid[n] /\ BLOCK_REWARD \in Nat
  BY <1>5, <1>7, RewardAssumption
<1>9. \A i \in 1..n :
        IF IsCoinbase(txs[i])
        THEN txs[i].amount <= E => T[i] <= T[i-1] + E
        ELSE T[i] = T[i-1] - txs[i].fee
  BY <1>8
<1> HIDE DEF w, E, fee, paid
<1>10. 0 \in S
  BY <1>1, <1>3, <1>5
<1>11. \A i \in 0..(n-1) : i \in S => i + 1 \in S
  <2> SUFFICES ASSUME NEW i \in 0..(n-1), i \in S PROVE i + 1 \in S
    OBVIOUS
  <2>1. i + 1 \in 1..n /\ (i + 1) - 1 = i /\ i \in 0..n /\ i + 1 \in 0..n
    BY <1>1
  <2>2. PICK tx \in Transaction : tx = txs[i+1]
    BY <1>1, <2>1
  <2>0. tx.fee \in Int /\ tx.amount \in Int
    BY DEF Transaction
  <2>3. /\ Accepted(w[i], tx, E) /\ w[i+1] = Check(w[i], tx, E)
        /\ paid[i+1] = paid[i] + (IF IsCoinbase(tx) THEN 0 ELSE tx.fee)
        /\ paid[i] \in Int /\ paid[i+1] \in Int
        /\ T[i] \in Int /\ T[i+1] \in Int /\ T[0] \in Int
    <3>1. fee[i+1] = IF IsCoinbase(tx) THEN 0 ELSE tx.fee
      BY <2>1, <2>2, <1>1
    <3>2. paid[i+1] = paid[i] + fee[i+1]
      BY <2>1, <1>5
    <3>3. Accepted(w[i], tx, E) /\ w[i+1] = Check(w[i], tx, E)
      BY <2>1, <2>2, <1>2, <1>4
    <3>4. 0 \in 0..n
      BY <1>1
    <3> QED BY <2>1, <1>5, <3>1, <3>2, <3>3, <3>4
  <2>4. /\ w[i].seen => T[i] + paid[i] <= T[0] + E
        /\ ~w[i].seen => T[i] + paid[i] <= T[0]
    OBVIOUS
  <2>5. w[i+1].seen = (w[i].seen \/ IsCoinbase(tx))
    BY <2>3 DEF Check
  <2>6. /\ IsCoinbase(tx) /\ tx.amount <= E => T[i+1] <= T[i] + E
        /\ ~IsCoinbase(tx) => T[i+1] = T[i] - tx.fee
    BY <2>1, <2>2, <1>9
  <2>7. CASE IsCoinbase(tx)
    <3>1. ~w[i].seen /\ tx.amount <= E
      BY <2>3, <2>7 DEF Accepted, CoinbaseAccepted
    <3>2. T[i+1] + paid[i+1] <= T[0] + E
      <4>1. paid[i+1] = paid[i] /\ T[i+1] <= T[i] + E /\ T[i] + paid[i] <= T[0]
        BY <2>3, <2>4, <2>6, <2>7, <3>1
      <4> QED BY <1>8, <2>3, <4>1
    <3> QED BY <2>1, <2>5, <2>7, <3>2
  <2>8. CASE ~IsCoinbase(tx)
    <3>1. T[i+1] + paid[i+1] = T[i] + paid[i]
      BY <2>0, <2>3, <2>6, <2>8
    <3>2. w[i+1].seen <=> w[i].seen
      BY <2>5, <2>8
    <3> HIDE DEF S
    <3>3. /\ w[i+1].seen => T[i+1] + paid[i+1] <= T[0] + E
          /\ ~w[i+1].seen => T[i+1] + paid[i+1] <= T[0]
      BY <2>4, <3>1, <3>2
    <3> QED BY <2>1, <3>3 DEF S
  <2> QED BY <2>7, <2>8
<1> HIDE DEF S
<1>12. n \in S
  <2>1. \A i \in 0..n : i \in S
    BY <1>1, <1>10, <1>11, UpTo
  <2> QED BY <1>1, <2>1
<1>13. /\ T[n] \in Int /\ T[0] \in Int
       /\ T[n] + paid[n] <= T[0] + E \/ T[n] + paid[n] <= T[0]
  <2>1. n \in 0..n /\ 0 \in 0..n
    BY <1>1
  <2> QED BY <1>12, <2>1 DEF S
<1> QED BY <1>7, <1>8, <1>13

(* A validated block issues at most BLOCK_REWARD. *)
LEMMA IssuanceBound ==
  ASSUME NEW s0 \in AccountState, NEW txs \in Seq(Transaction),
         ValidTransactions(s0, txs)
  PROVE  Total(ApplyBlock(s0, txs).balances) <= Total(s0.balances) + BLOCK_REWARD
<1> DEFINE st == ApplyTrace(s0, txs)
           n == Len(txs)
           T == [i \in 0..n |-> Total(st[i].balances)]
<1>1. n \in Nat /\ \A i \in 1..n : txs[i] \in Transaction
  BY FeesType
<1>2. st[0] = s0 /\ \A i \in 1..n : st[i] = Apply(st[i-1], txs[i])
  BY <1>1, ApplyTraceDef
<1>3. \A i \in 0..n : st[i].balances \in [Accounts -> Int]
  BY TracesAgree DEF Agrees, AccountState
<1> HIDE DEF st
<1>4. \A i \in 0..n : T[i] \in Int /\ T[i] = Total(st[i].balances)
  BY <1>3, TotalType
<1>5. ASSUME NEW i \in 1..n
      PROVE  T[i] = IF IsCoinbase(txs[i]) THEN T[i-1] + txs[i].amount
                    ELSE T[i-1] - txs[i].fee
  <2>1. i \in 0..n /\ i - 1 \in 0..n
    BY <1>1
  <2>2. /\ st[i] = Apply(st[i-1], txs[i]) /\ txs[i] \in Transaction
        /\ st[i-1].balances \in [Accounts -> Int]
        /\ T[i] = Total(st[i].balances) /\ T[i-1] = Total(st[i-1].balances)
    BY <1>1, <1>2, <1>3, <1>4, <2>1
  <2> HIDE DEF T
  <2>3. CASE IsCoinbase(txs[i])
    BY <2>2, <2>3, MintTotal DEF Apply
  <2>4. CASE ~IsCoinbase(txs[i])
    BY <2>2, <2>4, TransferTotal DEF Apply
  <2> QED BY <2>3, <2>4
<1> HIDE DEF T
<1>6. \A i \in 1..n :
        IF IsCoinbase(txs[i])
        THEN txs[i].amount <= BLOCK_REWARD + Fees(txs) =>
               T[i] <= T[i-1] + (BLOCK_REWARD + Fees(txs))
        ELSE T[i] = T[i-1] - txs[i].fee
  <2> TAKE i \in 1..n
  <2>1. PICK tx \in Transaction : tx = txs[i]
    BY <1>1
  <2>2. tx.amount \in Int
    BY DEF Transaction
  <2>3. T[i-1] \in Int /\ BLOCK_REWARD + Fees(txs) \in Int
    BY <1>1, <1>4, FeesType, RewardAssumption
  <2>4. T[i] = IF IsCoinbase(tx) THEN T[i-1] + tx.amount ELSE T[i-1] - tx.fee
    BY <1>5, <2>1
  <2> QED BY <2>1, <2>2, <2>3, <2>4
<1>7. T[n] <= T[0] + BLOCK_REWARD
  BY <1>4, <1>6, IssuanceByTotals
<1>8. n \in 0..n /\ 0 \in 0..n
  BY <1>1
<1>9. T[n] = Total(ApplyBlock(s0, txs).balances) /\ T[0] = Total(s0.balances)
  BY <1>2, <1>4, <1>8 DEF ApplyBlock, st
<1> QED BY <1>7, <1>9

(* Balances to which what coinbases took has been given back, and the debt  *)
(* after one more transaction.                                              *)
GiveBack(bal, debt) == [a \in Accounts |-> bal[a] + debt[a]]

MoreDebt(debt, tx) == [a \in Accounts |-> debt[a] + Taken(tx, a)]

(* On them a coinbase of negative amount changes nothing, and any other     *)
(* transaction does what it does.                                           *)
LEMMA GivenBack ==
  ASSUME NEW acct \in AccountState, NEW tx \in Transaction,
         NEW debt \in [Accounts -> Nat]
  PROVE  GiveBack(Apply(acct, tx).balances, MoreDebt(debt, tx)) =
           IF ~IsCoinbase(tx) THEN Transfer(GiveBack(acct.balances, debt), tx)
           ELSE IF tx.amount < 0 THEN GiveBack(acct.balances, debt)
           ELSE Mint(GiveBack(acct.balances, debt), tx)
<1> DEFINE bal == acct.balances
           r1 == GiveBack(bal, debt)
           r2 == GiveBack(Apply(acct, tx).balances, MoreDebt(debt, tx))
<1>1. /\ bal \in [Accounts -> Int] /\ tx.amount \in Int /\ tx.fee \in Int
      /\ tx.recipient \in Accounts
  BY DEF AccountState, Transaction
<1>2. r1 \in [Accounts -> Int] /\ \A a \in Accounts : r1[a] = bal[a] + debt[a]
  BY <1>1 DEF GiveBack
<1>3. /\ r2 = [a \in Accounts |-> r2[a]]
      /\ \A a \in Accounts : r2[a] = Apply(acct, tx).balances[a] + (debt[a] + Taken(tx, a))
  BY DEF GiveBack, MoreDebt
<1> SUFFICES r2 = IF ~IsCoinbase(tx) THEN Transfer(r1, tx)
                  ELSE IF tx.amount < 0 THEN r1 ELSE Mint(r1, tx)
  OBVIOUS
<1> HIDE DEF r1, r2, bal
<1>4. CASE ~IsCoinbase(tx)
  <2>1. ASSUME NEW a \in Accounts PROVE r2[a] = Transfer(r1, tx)[a]
    <3>1. Taken(tx, a) = 0 /\ Apply(acct, tx).balances = Transfer(bal, tx)
      BY <1>4 DEF Taken, Apply, bal
    <3>2. bal[a] \in Int /\ debt[a] \in Nat /\ r1[a] = bal[a] + debt[a]
      BY <1>1, <1>2
    <3>3. r2[a] = Transfer(bal, tx)[a] + debt[a]
      BY <1>3, <3>1, <3>2
    <3> QED BY <1>1, <3>2, <3>3 DEF Transfer
  <2>2. Transfer(r1, tx) = [a \in Accounts |-> Transfer(r1, tx)[a]]
    BY DEF Transfer
  <2> QED BY <1>3, <1>4, <2>1, <2>2
<1>5. CASE IsCoinbase(tx)
  <2>1. ASSUME NEW a \in Accounts
        PROVE  r2[a] = IF a = tx.recipient /\ ~(tx.amount < 0) THEN r1[a] + tx.amount
                       ELSE r1[a]
    <3>1. /\ Taken(tx, a) = IF tx.recipient = a /\ tx.amount < 0 THEN -tx.amount ELSE 0
          /\ Apply(acct, tx).balances[a] =
               IF a = tx.recipient THEN bal[a] + tx.amount ELSE bal[a]
      BY <1>1, <1>5 DEF Taken, Apply, Mint, bal
    <3>2. /\ bal[a] \in Int /\ debt[a] \in Nat /\ r1[a] = bal[a] + debt[a]
          /\ r2[a] = Apply(acct, tx).balances[a] + (debt[a] + Taken(tx, a))
      BY <1>1, <1>2, <1>3
    <3> QED BY <1>1, <3>1, <3>2
  <2>2. CASE tx.amount < 0
    <3>1. \A a \in Accounts : r2[a] = r1[a]
      BY <2>1, <2>2
    <3> QED BY <1>2, <1>3, <1>5, <2>2, <3>1
  <2>3. CASE ~(tx.amount < 0)
    <3>1. \A a \in Accounts : r2[a] = Mint(r1, tx)[a]
      BY <1>1, <1>2, <2>1, <2>3 DEF Mint
    <3>2. Mint(r1, tx) = [a \in Accounts |-> Mint(r1, tx)[a]]
      BY <1>2 DEF Mint
    <3> QED BY <1>3, <1>5, <2>3, <3>1, <3>2
  <2> QED BY <2>2, <2>3
<1> QED BY <1>4, <1>5

(* The same on balances to which what coinbases took, before the block and  *)
(* in it, has been given back.                                              *)
LEMMA RestoredIssuance ==
  ASSUME NEW s0 \in AccountState, NEW txs \in Seq(Transaction),
         ValidTransactions(s0, txs),
         NEW owed \in [Accounts -> Nat], NEW after,
         after = [a \in Accounts |-> owed[a] + CoinbaseDebit(txs, a)]
  PROVE  Total(GiveBack(ApplyBlock(s0, txs).balances, after))
           <= Total(GiveBack(s0.balances, owed)) + BLOCK_REWARD
<1> DEFINE st == ApplyTrace(s0, txs)
           n == Len(txs)
           debt(i) == [a \in Accounts |-> owed[a] + Lost(txs, a)[i]]
           r(i) == GiveBack(st[i].balances, debt(i))
           T == [i \in 0..n |-> Total(r(i))]
<1>1. n \in Nat /\ \A i \in 1..n : txs[i] \in Transaction
  BY FeesType
<1>2. st[0] = s0 /\ \A i \in 1..n : st[i] = Apply(st[i-1], txs[i])
  BY <1>1, ApplyTraceDef
<1>3. \A i \in 0..n : st[i].balances \in [Accounts -> Int]
  BY TracesAgree DEF Agrees, AccountState
<1>4. \A a \in Accounts :
        /\ Lost(txs, a)[0] = 0
        /\ \A i \in 1..n : Lost(txs, a)[i] = Lost(txs, a)[i-1] + Taken(txs[i], a)
        /\ \A i \in 0..n : Lost(txs, a)[i] \in Nat
  BY LostSteps
<1> HIDE DEF st
<1>5. \A i \in 0..n : r(i) \in [Accounts -> Int]
  BY <1>3, <1>4 DEF GiveBack
<1>6. \A i \in 0..n : T[i] \in Int /\ T[i] = Total(r(i))
  <2> HIDE DEF r
  <2> QED BY <1>5, TotalType
<1>7. ASSUME NEW i \in 1..n
      PROVE  r(i) = IF ~IsCoinbase(txs[i]) THEN Transfer(r(i-1), txs[i])
                    ELSE IF txs[i].amount < 0 THEN r(i-1)
                    ELSE Mint(r(i-1), txs[i])
  <2>1. i \in 0..n /\ i - 1 \in 0..n
    BY <1>1
  <2>2. PICK tx \in Transaction : tx = txs[i]
    BY <1>1
  <2>3. PICK acct \in AccountState :
          /\ acct.balances = st[i-1].balances
          /\ Apply(acct, tx) = st[i]
    BY <1>2, <2>1, <2>2, TracesAgree DEF Agrees, st
  <2>4. debt(i-1) \in [Accounts -> Nat] /\ debt(i) = MoreDebt(debt(i-1), tx)
    <3>1. ASSUME NEW a \in Accounts
          PROVE  /\ owed[a] + Lost(txs, a)[i-1] \in Nat
                 /\ owed[a] + Lost(txs, a)[i] =
                      owed[a] + Lost(txs, a)[i-1] + Taken(tx, a)
      <4>1. /\ owed[a] \in Nat /\ Lost(txs, a)[i-1] \in Nat /\ Taken(tx, a) \in Nat
            /\ Lost(txs, a)[i] = Lost(txs, a)[i-1] + Taken(tx, a)
        BY <1>4, <2>1, <2>2, TakenType
      <4> QED BY <4>1
    <3> QED BY <3>1 DEF MoreDebt
  <2> HIDE DEF debt
  <2> QED BY <2>2, <2>3, <2>4, GivenBack
<1> DEFINE E == BLOCK_REWARD + Fees(txs)
<1>8. ASSUME NEW i \in 1..n, E \in Nat
      PROVE  IF IsCoinbase(txs[i])
             THEN txs[i].amount <= E => T[i] <= T[i-1] + E
             ELSE T[i] = T[i-1] - txs[i].fee
  <2>1. i \in 0..n /\ i - 1 \in 0..n
    BY <1>1
  <2>2. PICK tx \in Transaction : tx = txs[i]
    BY <1>1
  <2>3. /\ tx.amount \in Int /\ r(i-1) \in [Accounts -> Int]
        /\ T[i] = Total(r(i)) /\ T[i-1] = Total(r(i-1)) /\ T[i-1] \in Int
    BY <1>5, <1>6, <2>1 DEF Transaction
  <2> HIDE DEF r, T, E
  <2>4. CASE ~IsCoinbase(tx)
    BY <1>7, <2>2, <2>3, <2>4, TransferTotal
  <2>5. CASE IsCoinbase(tx) /\ tx.amount < 0
    <3>1. T[i] = T[i-1]
      BY <1>7, <2>2, <2>3, <2>5
    <3> QED BY <1>8, <2>2, <2>3, <2>5, <3>1
  <2>6. CASE IsCoinbase(tx) /\ ~(tx.amount < 0)
    <3>1. T[i] = T[i-1] + tx.amount
      BY <1>7, <2>2, <2>3, <2>6, MintTotal
    <3> QED BY <1>8, <2>2, <2>3, <2>6, <3>1
  <2> QED BY <2>2, <2>4, <2>5, <2>6
<1>9. n \in 0..n /\ 0 \in 0..n
  BY <1>1
<1>10. /\ T[0] = Total(GiveBack(s0.balances, owed))
       /\ T[n] = Total(GiveBack(ApplyBlock(s0, txs).balances, after))
  <2>1. debt(0) = owed /\ debt(n) = after
    BY <1>4 DEF CoinbaseDebit
  <2> HIDE DEF T, debt
  <2> QED BY <1>2, <1>6, <1>9, <2>1 DEF st, ApplyBlock
<1>11. T[n] <= T[0] + BLOCK_REWARD
  <2> HIDE DEF T
  <2> QED BY <1>6, <1>8, IssuanceByTotals
<1> QED BY <1>10, <1>11

-----------------------------------------------------------------------------
(* Nonces *)

(* The transfers of a validated block use each nonce of their senders once: *)
(* at or above what the ledger expected before the block, below what it     *)
(* expects after it, and no two the same.                                   *)
LEMMA BlockNonces ==
  ASSUME NEW s0 \in AccountState, NEW txs \in Seq(Transaction),
         ValidTransactions(s0, txs)
  PROVE  \A j \in 1..Len(txs) : ~IsCoinbase(txs[j]) =>
           /\ s0.nonces[txs[j].sender] <= txs[j].nonce
           /\ txs[j].nonce < ApplyBlock(s0, txs).nonces[txs[j].sender]
           /\ \A k \in 1..Len(txs) :
                /\ ~IsCoinbase(txs[k])
                /\ txs[k].sender = txs[j].sender
                /\ txs[k].nonce = txs[j].nonce
                => k = j
<1> DEFINE w == CheckTrace(s0, txs)
           st == ApplyTrace(s0, txs)
           n == Len(txs)
           Below(i) == \A j \in 1..i : ~IsCoinbase(txs[j]) =>
                         /\ s0.nonces[txs[j].sender] <= txs[j].nonce
                         /\ txs[j].nonce < st[i].nonces[txs[j].sender]
           Once(i) == \A j, k \in 1..i :
                         /\ ~IsCoinbase(txs[j]) /\ ~IsCoinbase(txs[k])
                         /\ txs[k].sender = txs[j].sender
                         /\ txs[k].nonce = txs[j].nonce
                         => k = j
           S == {i \in 0..n : Below(i) /\ Once(i)}
<1>1. /\ n \in Nat
      /\ \A i \in 1..n : txs[i] \in Transaction
  BY FeesType
<1>2. \A i \in 1..n : Accepted(w[i-1], txs[i], BLOCK_REWARD + Fees(txs))
  BY AllAccepted
<1>3. \A i \in 1..n : st[i] = Apply(st[i-1], txs[i])
  BY <1>1, ApplyTraceDef
<1>4. \A i \in 0..n : /\ Agrees(w[i], st[i])
                     /\ \A a \in Accounts : st[i].nonces[a] >= s0.nonces[a]
  BY TracesAgree DEF Moved
<1> HIDE DEF w, st
<1>5. 0 \in S
  BY <1>1
<1>6. \A i \in 0..(n-1) : i \in S => i + 1 \in S
  <2> HIDE DEF Below, Once
  <2> SUFFICES ASSUME NEW i \in 0..(n-1), Below(i), Once(i)
               PROVE  Below(i+1) /\ Once(i+1)
    BY <1>1
  <2> USE DEF Below, Once
  <2> DEFINE tx == txs[i+1]
  <2>1. i + 1 \in 1..n /\ (i + 1) - 1 = i /\ i \in 0..n /\ i + 1 \in 0..n
    BY <1>1
  <2>2. /\ tx \in Transaction
        /\ Accepted(w[i], tx, BLOCK_REWARD + Fees(txs))
        /\ st[i+1] = Apply(st[i], tx)
    BY <2>1, <1>1, <1>2, <1>3
  <2>3. /\ st[i].nonces \in [Accounts -> Nat]
        /\ w[i].nonces = st[i].nonces
        /\ s0.nonces \in [Accounts -> Nat]
        /\ \A a \in Accounts : st[i].nonces[a] >= s0.nonces[a]
    BY <2>1, <1>4 DEF Agrees, AccountState
  <2>4. \A j \in 1..(i+1) :
          txs[j] \in Transaction /\ (~IsCoinbase(txs[j]) => txs[j].sender \in Accounts)
    BY <2>1, <1>1 DEF Transaction, IsCoinbase
  <2>5. \A j \in 1..(i+1) : j \in 1..i \/ j = i + 1
    BY <2>1
  <2>6. CASE IsCoinbase(tx)
    <3>1. st[i+1].nonces = st[i].nonces
      BY <2>2, <2>6 DEF Apply, NextNonces
    <3>2. Below(i+1)
      BY <3>1, <2>5, <2>6
    <3>3. Once(i+1)
      BY <2>5, <2>6
    <3> QED BY <3>2, <3>3
  <2>7. CASE ~IsCoinbase(tx)
    <3>1. /\ tx.sender \in Accounts /\ tx.nonce \in Nat
          /\ tx.nonce = st[i].nonces[tx.sender]
      BY <2>2, <2>3, <2>7
        DEF Transaction, IsCoinbase, Accepted, TransferAccepted
    <3>2. st[i+1].nonces = [st[i].nonces EXCEPT ![tx.sender] = tx.nonce + 1]
      BY <2>2, <2>7 DEF Apply, NextNonces
    <3>3. /\ st[i+1].nonces[tx.sender] = tx.nonce + 1
          /\ \A a \in Accounts : st[i+1].nonces[a] >= st[i].nonces[a]
          /\ st[i+1].nonces \in [Accounts -> Nat]
      <4>1. PICK f \in [Accounts -> Nat] : f = st[i].nonces
        BY <2>3
      <4>2. PICK g : g = [f EXCEPT ![tx.sender] = tx.nonce + 1]
        OBVIOUS
      <4>3. g \in [Accounts -> Nat] /\ g[tx.sender] = tx.nonce + 1
        BY <3>1, <4>2
      <4>4. \A a \in Accounts : g[a] >= f[a]
        BY <3>1, <4>1, <4>2
      <4> QED BY <3>2, <4>1, <4>2, <4>3, <4>4
    <3>4. Below(i+1)
      <4> SUFFICES ASSUME NEW j \in 1..(i+1), ~IsCoinbase(txs[j])
                   PROVE  /\ s0.nonces[txs[j].sender] <= txs[j].nonce
                          /\ txs[j].nonce < st[i+1].nonces[txs[j].sender]
        OBVIOUS
      <4>1. txs[j].sender \in Accounts /\ txs[j].nonce \in Nat
        BY <2>4 DEF Transaction
      <4>2. CASE j \in 1..i
        <5>1. /\ s0.nonces[txs[j].sender] <= txs[j].nonce
              /\ txs[j].nonce < st[i].nonces[txs[j].sender]
          BY <4>2
        <5>2. /\ st[i+1].nonces[txs[j].sender] >= st[i].nonces[txs[j].sender]
              /\ st[i+1].nonces[txs[j].sender] \in Nat
              /\ st[i].nonces[txs[j].sender] \in Nat
          BY <4>1, <3>3, <2>3
        <5> HIDE DEF Below, Once
        <5> QED BY <5>1, <5>2, <4>1
      <4>3. CASE j = i + 1
        BY <4>3, <3>1, <3>3, <2>3
      <4> QED BY <2>5, <4>2, <4>3
    <3>5. \A j \in 1..i :
            ~IsCoinbase(txs[j]) /\ txs[j].sender = tx.sender => txs[j].nonce < tx.nonce
      BY <3>1
    <3>6. Once(i+1)
      <4> SUFFICES ASSUME NEW j \in 1..(i+1), NEW k \in 1..(i+1),
                          ~IsCoinbase(txs[j]), ~IsCoinbase(txs[k]),
                          txs[k].sender = txs[j].sender,
                          txs[k].nonce = txs[j].nonce, k # j
                   PROVE  FALSE
        OBVIOUS
      <4>1. CASE j \in 1..i /\ k \in 1..i
        BY <4>1
      <4>2. CASE j \in 1..i /\ k = i + 1
        BY <4>2, <3>1, <3>5
      <4>3. CASE j = i + 1 /\ k \in 1..i
        BY <4>3, <3>1, <3>5
      <4> QED BY <2>5, <4>1, <4>2, <4>3
    <3> QED BY <3>4, <3>6
  <2> QED BY <2>6, <2>7
<1>7. n \in S
  <2> HIDE DEF S
  <2>1. \A i \in 0..n : i \in S
    BY <1>1, <1>5, <1>6, UpTo
  <2> QED BY <2>1, <1>1
<1> QED BY <1>7 DEF ApplyBlock, st

-----------------------------------------------------------------------------
(* Blocks whose coinbases take nothing *)

(* A transaction list whose coinbases are not negative. *)
LegalBody(txs) ==
  /\ txs \in Seq(Transaction)
  /\ \A i \in 1..Len(txs) : IsCoinbase(txs[i]) => txs[i].amount >= 0

LEMMA NothingLost ==
  ASSUME NEW txs, LegalBody(txs), NEW a \in Accounts
  PROVE  \A i \in 0..Len(txs) : Lost(txs, a)[i] = 0
<1> DEFINE n == Len(txs)
           S == {i \in 0..n : Lost(txs, a)[i] = 0}
<1>1. /\ n \in Nat /\ Lost(txs, a)[0] = 0
      /\ \A i \in 1..n : Lost(txs, a)[i] = Lost(txs, a)[i-1] + Taken(txs[i], a)
  BY LostSteps DEF LegalBody
<1>2. \A i \in 1..n : Taken(txs[i], a) = 0
  <2> TAKE i \in 1..n
  <2>1. PICK tx \in Transaction : tx = txs[i]
    BY DEF LegalBody
  <2>2. tx.amount \in Int /\ (IsCoinbase(tx) => tx.amount >= 0)
    BY <2>1 DEF LegalBody, Transaction
  <2> QED BY <2>1, <2>2 DEF Taken
<1>3. 0 \in S
  BY <1>1
<1>4. \A i \in 0..(n-1) : i \in S => i + 1 \in S
  BY <1>1, <1>2
<1> HIDE DEF S
<1>5. \A i \in 0..n : i \in S
  BY <1>1, <1>3, <1>4, UpTo
<1> QED BY <1>5 DEF S

(* Such a block takes no account below zero, at any of its transactions,    *)
(* and money leaves an account only with its nonce.                         *)
LEMMA ApplyLegal ==
  ASSUME NEW s0 \in AccountState, \A a \in Accounts : s0.balances[a] >= 0,
         NEW txs, LegalBody(txs), ValidTransactions(s0, txs)
  PROVE  /\ \A i \in 0..Len(txs) :
              /\ ApplyTrace(s0, txs)[i] \in AccountState
              /\ \A a \in Accounts : ApplyTrace(s0, txs)[i].balances[a] >= 0
         /\ ApplyBlock(s0, txs) \in AccountState
         /\ \A a \in Accounts :
              /\ ApplyBlock(s0, txs).balances[a] >= 0
              /\ Moved(s0, ApplyBlock(s0, txs), a, 0)
<1> DEFINE st == ApplyTrace(s0, txs)
           w == CheckTrace(s0, txs)
<1>1. ASSUME NEW i \in 0..Len(txs)
      PROVE  /\ st[i] \in AccountState
             /\ \A a \in Accounts : st[i].balances[a] >= 0 /\ Moved(s0, st[i], a, 0)
  <2>1. /\ Agrees(w[i], st[i])
        /\ \A a \in Accounts : /\ Moved(s0, st[i], a, Lost(txs, a)[i])
                               /\ Kept(s0, w[i], st[i], a, Lost(txs, a)[i])
    BY TracesAgree DEF LegalBody
  <2> HIDE DEF w, st
  <2>2. \A a \in Accounts : Lost(txs, a)[i] = 0
    BY NothingLost
  <2>3. w[i] \in CheckState /\ st[i] \in AccountState
    BY <2>1 DEF Agrees
  <2>4. ASSUME NEW a \in Accounts PROVE st[i].balances[a] >= 0
    <3>1. /\ w[i].balances[a] \in Int /\ st[i].balances[a] \in Int
          /\ s0.balances[a] \in Int
      BY <2>3 DEF CheckState, AccountState
    <3>2. -0 <= s0.balances[a] /\ Kept(s0, w[i], st[i], a, 0)
      BY <2>1, <2>2, <3>1
    <3>3. -0 <= w[i].balances[a] /\ w[i].balances[a] <= st[i].balances[a] + 0
      BY <3>2 DEF Kept
    <3> QED BY <3>1, <3>3
  <2> QED BY <2>1, <2>2, <2>3, <2>4
<1>2. Len(txs) \in 0..Len(txs)
  BY DEF LegalBody
<1> QED BY <1>1, <1>2 DEF ApplyBlock

(* The block a miner builds of any transactions is well typed. *)
LEMMA CandidateBodyType ==
  ASSUME NEW txs \in Seq(Transaction), NEW miner \in Accounts
  PROVE  CandidateBody(txs, miner) \in Seq(Transaction)
<1> DEFINE fee == [i \in 1..Len(txs) |-> txs[i].fee]
<1>1. Len(txs) \in Nat /\ Len(txs) \in 0..Len(txs)
      /\ \A i \in 1..Len(txs) : txs[i] \in Transaction
  OBVIOUS
<1>2. \A i \in 1..Len(txs) : fee[i] \in Int
  BY <1>1 DEF Transaction
<1>3. BLOCK_REWARD + Sum(fee, Len(txs)) \in Int
  <2> HIDE DEF fee
  <2> QED BY <1>1, <1>2, SumSteps, RewardAssumption
<1>4. Coinbase(miner, txs) \in Transaction
  BY <1>3 DEF Coinbase, Transaction
<1> QED BY <1>4 DEF CandidateBody

(* The block a miner builds has a legal body: its coinbase, then the        *)
(* transactions in their order.                                             *)
LEMMA CandidateBodyLegal ==
  ASSUME NEW txs \in Seq(Transaction), NEW miner \in Accounts,
         \A i \in 1..Len(txs) :
           txs[i].fee >= 0 /\ (IsCoinbase(txs[i]) => txs[i].amount >= 0)
  PROVE  /\ LegalBody(CandidateBody(txs, miner))
         /\ Len(CandidateBody(txs, miner)) = Len(txs) + 1
         /\ \A i \in 1..Len(txs) : CandidateBody(txs, miner)[i+1] = txs[i]
<1> DEFINE fee == [i \in 1..Len(txs) |-> txs[i].fee]
           cb == Coinbase(miner, txs)
           body == CandidateBody(txs, miner)
<1>1. Len(txs) \in Nat /\ \A i \in 1..Len(txs) : txs[i] \in Transaction
  OBVIOUS
<1>2. \A i \in 1..Len(txs) : fee[i] \in Nat
  <2> TAKE i \in 1..Len(txs)
  <2>1. txs[i].fee \in Int /\ txs[i].fee >= 0
    BY <1>1 DEF Transaction
  <2> QED BY <2>1
<1>3. Sum(fee, Len(txs)) \in Nat
  <2>1. Len(txs) \in 0..Len(txs)
    BY <1>1
  <2> HIDE DEF fee
  <2> QED BY <1>1, <1>2, <2>1, SumNat DEF Sum
<1>4. cb \in Transaction /\ cb.amount >= 0
  <2>1. BLOCK_REWARD + Sum(fee, Len(txs)) \in Nat
    BY <1>3, RewardAssumption
  <2> QED BY <2>1 DEF Coinbase, Transaction
<1> HIDE DEF cb, fee
<1>5. body = <<cb>> \o txs
  BY DEF CandidateBody, cb
<1>6. body \in Seq(Transaction) /\ Len(body) = Len(txs) + 1
  BY <1>1, <1>4, <1>5
<1>7. ASSUME NEW i \in 1..Len(body) PROVE body[i] = IF i = 1 THEN cb ELSE txs[i-1]
  BY <1>1, <1>4, <1>5, <1>6
<1>8. ASSUME NEW i \in 1..Len(txs) PROVE body[i+1] = txs[i]
  <2>1. i + 1 \in 1..Len(body) /\ i + 1 # 1 /\ (i + 1) - 1 = i
    BY <1>1, <1>6
  <2> QED BY <1>7, <2>1
<1>9. ASSUME NEW i \in 1..Len(body), IsCoinbase(body[i]) PROVE body[i].amount >= 0
  <2>1. CASE i = 1
    BY <2>1, <1>7, <1>4
  <2>2. CASE i # 1
    <3>1. i - 1 \in 1..Len(txs) /\ body[i] = txs[i-1]
      BY <2>2, <1>6, <1>7, <1>1
    <3> QED BY <3>1, <1>9
  <2> QED BY <2>1, <2>2
<1> HIDE DEF body
<1> QED BY <1>6, <1>8, <1>9 DEF LegalBody, body

-----------------------------------------------------------------------------
(* Replaying a chain *)

LEMMA ReplayDef ==
  ASSUME NEW bs, Len(bs) \in Nat
  PROVE  Replay(bs) =
           [i \in 1..Len(bs) |->
              IF i = 1 THEN EmptyState
              ELSE ApplyBlock(Replay(bs)[i-1], bs[i].transactions)]
<1> DEFINE S == {m \in Nat : \E g :
             g = [i \in 1..m |-> IF i = 1 THEN EmptyState
                                 ELSE ApplyBlock(g[i-1], bs[i].transactions)]}
<1>1. 0 \in S
  <2>1. [i \in 1..0 |-> EmptyState] =
          [i \in 1..0 |->
             IF i = 1 THEN EmptyState
             ELSE ApplyBlock([j \in 1..0 |-> EmptyState][i-1], bs[i].transactions)]
    OBVIOUS
  <2> QED BY <2>1
<1>2. ASSUME NEW m \in Nat, m \in S PROVE m + 1 \in S
  <2>1. PICK g : g = [i \in 1..m |->
                        IF i = 1 THEN EmptyState
                        ELSE ApplyBlock(g[i-1], bs[i].transactions)]
    BY <1>2
  <2> DEFINE new == IF m = 0 THEN EmptyState
                    ELSE ApplyBlock(g[m], bs[m+1].transactions)
             h == [i \in 1..(m+1) |-> IF i = m + 1 THEN new ELSE g[i]]
  <2>2. \A i \in 1..(m+1) :
          h[i] = IF i = 1 THEN EmptyState
                 ELSE ApplyBlock(h[i-1], bs[i].transactions)
    <3> SUFFICES ASSUME NEW i \in 1..(m+1)
                 PROVE  h[i] = IF i = 1 THEN EmptyState
                               ELSE ApplyBlock(h[i-1], bs[i].transactions)
      OBVIOUS
    <3>1. CASE i = m + 1
      BY <3>1
    <3>2. CASE i # m + 1
      <4>1. i \in 1..m /\ h[i] = g[i] /\ (i # 1 => h[i-1] = g[i-1])
        BY <3>2
      <4> HIDE DEF h
      <4> QED BY <2>1, <4>1
    <3> QED BY <3>1, <3>2
  <2>3. h = [i \in 1..(m+1) |-> IF i = 1 THEN EmptyState
                               ELSE ApplyBlock(h[i-1], bs[i].transactions)]
    <3> HIDE DEF h
    <3>1. h = [i \in 1..(m+1) |-> h[i]] BY DEF h
    <3> QED BY <2>2, <3>1
  <2> HIDE DEF h
  <2> QED BY <2>3
<1> HIDE DEF S
<1>3. Len(bs) \in S
  BY <1>1, <1>2, SetInduction
<1> QED BY <1>3 DEF S, Replay

(* Chains that begin alike leave the same states behind there. *)
LEMMA ReplayPrefix ==
  ASSUME NEW bs, NEW cs, Len(bs) \in Nat, Len(cs) \in Nat,
         NEW k \in Nat, k <= Len(bs), k <= Len(cs),
         \A i \in 1..k : bs[i] = cs[i]
  PROVE  \A i \in 1..k : Replay(bs)[i] = Replay(cs)[i]
<1> DEFINE r == Replay(bs)
           s == Replay(cs)
           S == {i \in 0..k : i = 0 \/ r[i] = s[i]}
<1>1. \A i \in 1..k :
        r[i] = IF i = 1 THEN EmptyState ELSE ApplyBlock(r[i-1], bs[i].transactions)
  BY ReplayDef
<1>2. \A i \in 1..k :
        s[i] = IF i = 1 THEN EmptyState ELSE ApplyBlock(s[i-1], cs[i].transactions)
  BY ReplayDef
<1> HIDE DEF r, s
<1>3. 0 \in S
  OBVIOUS
<1>4. \A i \in 0..(k-1) : i \in S => i + 1 \in S
  <2> SUFFICES ASSUME NEW i \in 0..(k-1), i = 0 \/ r[i] = s[i]
               PROVE  r[i+1] = s[i+1]
    OBVIOUS
  <2>1. i + 1 \in 1..k /\ (i + 1) - 1 = i /\ bs[i+1] = cs[i+1]
    OBVIOUS
  <2> QED BY <1>1, <1>2, <2>1
<1> HIDE DEF S
<1>5. \A i \in 0..k : i \in S
  BY <1>3, <1>4, UpTo
<1> QED BY <1>5 DEF S, r, s

(* One block more. *)
LEMMA ReplayAppend ==
  ASSUME NEW B, NEW bs \in Seq(B), NEW b \in B, Len(bs) >= 1
  PROVE  /\ \A i \in 1..Len(bs) : Replay(Append(bs, b))[i] = Replay(bs)[i]
         /\ Replay(Append(bs, b))[Len(bs)+1] =
              ApplyBlock(Replay(bs)[Len(bs)], b.transactions)
<1> DEFINE cs == Append(bs, b)
           n == Len(bs)
<1>1. /\ n \in Nat /\ n >= 1 /\ Len(cs) = n + 1
      /\ \A i \in 1..n : cs[i] = bs[i]
      /\ cs[n+1] = b
  OBVIOUS
<1> HIDE DEF cs
<1>2. \A i \in 1..n : Replay(cs)[i] = Replay(bs)[i]
  BY <1>1, ReplayPrefix
<1>3. Replay(cs)[n+1] = ApplyBlock(Replay(cs)[n], cs[n+1].transactions)
  <2>1. Len(cs) \in Nat /\ n + 1 \in 1..Len(cs) /\ n + 1 # 1 /\ (n + 1) - 1 = n
    BY <1>1
  <2> QED BY <2>1, ReplayDef
<1> QED BY <1>1, <1>2, <1>3 DEF cs

LEMMA ReplayableAppend ==
  ASSUME NEW B, NEW bs \in Seq(B), NEW b \in B, Len(bs) >= 1,
         Replayable(bs), LinksTo(b, bs[Len(bs)]),
         ValidTransactions(Replay(bs)[Len(bs)], b.transactions)
  PROVE  Replayable(Append(bs, b))
<1> DEFINE cs == Append(bs, b)
           n == Len(bs)
<1>1. /\ n \in Nat /\ n >= 1 /\ Len(cs) = n + 1
      /\ \A i \in 1..n : cs[i] = bs[i]
      /\ cs[n+1] = b
  OBVIOUS
<1>2. \A i \in 1..n : Replay(cs)[i] = Replay(bs)[i]
  BY ReplayAppend
<1> HIDE DEF cs
<1> SUFFICES ASSUME NEW i \in 2..Len(cs)
             PROVE  /\ LinksTo(cs[i], cs[i-1])
                    /\ ValidTransactions(Replay(cs)[i-1], cs[i].transactions)
  BY DEF Replayable, cs
<1>3. CASE i = n + 1
  <2>1. i - 1 = n /\ n \in 1..n /\ cs[i-1] = bs[n] /\ cs[i] = b
    BY <1>1, <1>3
  <2>2. Replay(cs)[n] = Replay(bs)[n]
    BY <1>2, <2>1
  <2> QED BY <2>1, <2>2
<1>4. CASE i # n + 1
  <2>1. i \in 2..n /\ i - 1 \in 1..n /\ cs[i-1] = bs[i-1] /\ cs[i] = bs[i]
    BY <1>1, <1>4
  <2>2. Replay(cs)[i-1] = Replay(bs)[i-1]
    BY <1>2, <2>1
  <2> QED BY <2>1, <2>2 DEF Replayable
<1> QED BY <1>3, <1>4

-----------------------------------------------------------------------------
(* The mempool *)

LEMMA ByFeeTraceDef ==
  ASSUME NEW txs, Len(txs) \in Nat
  PROVE  ByFeeTrace(txs) =
           [i \in 0..Len(txs) |->
              IF i = 0 THEN <<>> ELSE InsertByFee(ByFeeTrace(txs)[i-1], txs[i])]
<1> DEFINE S == {m \in Nat : \E g :
             g = [i \in 0..m |-> IF i = 0 THEN <<>> ELSE InsertByFee(g[i-1], txs[i])]}
<1>1. 0 \in S
  <2>1. [i \in 0..0 |-> <<>>] =
          [i \in 0..0 |-> IF i = 0 THEN <<>>
                          ELSE InsertByFee([j \in 0..0 |-> <<>>][i-1], txs[i])]
    OBVIOUS
  <2> QED BY <2>1
<1>2. ASSUME NEW m \in Nat, m \in S PROVE m + 1 \in S
  <2>1. PICK g : g = [i \in 0..m |->
                        IF i = 0 THEN <<>> ELSE InsertByFee(g[i-1], txs[i])]
    BY <1>2
  <2> DEFINE h == [i \in 0..(m+1) |->
                     IF i = m + 1 THEN InsertByFee(g[m], txs[m+1]) ELSE g[i]]
  <2>2. \A i \in 0..(m+1) :
          h[i] = IF i = 0 THEN <<>> ELSE InsertByFee(h[i-1], txs[i])
    BY <2>1
  <2>3. h = [i \in 0..(m+1) |-> IF i = 0 THEN <<>> ELSE InsertByFee(h[i-1], txs[i])]
    <3> HIDE DEF h
    <3>1. h = [i \in 0..(m+1) |-> h[i]] BY DEF h
    <3> QED BY <2>2, <3>1
  <2> HIDE DEF h
  <2> QED BY <2>3
<1> HIDE DEF S
<1>3. Len(txs) \in S
  BY <1>1, <1>2, SetInduction
<1> QED BY <1>3 DEF S, ByFeeTrace

(* Inserting by fee adds one element to a list and no other. *)
LEMMA InsertType ==
  ASSUME NEW T, NEW sorted \in Seq(T), NEW tx \in T
  PROVE  InsertByFee(sorted, tx) \in Seq(T)
<1> DEFINE P == {i \in 1..Len(sorted) : sorted[i].fee >= tx.fee}
           place == Cardinality(P)
<1>1. Len(sorted) \in Nat
  OBVIOUS
<1>2. place \in 0..Len(sorted)
  <2>1. /\ IsFiniteSet(1..Len(sorted))
        /\ Cardinality(1..Len(sorted)) = Len(sorted)
    BY <1>1, FS_Interval
  <2>2. IsFiniteSet(P) /\ Cardinality(P) <= Cardinality(1..Len(sorted))
    BY <2>1, FS_Subset
  <2>3. Cardinality(P) \in Nat
    BY <2>2, FS_CardinalityType
  <2> HIDE DEF P
  <2>4. Cardinality(P) <= Len(sorted)
    BY <2>1, <2>2
  <2> QED BY <1>1, <2>3, <2>4
<1> HIDE DEF place
<1>3. SubSeq(sorted, 1, place) \in Seq(T)
  BY <1>1, <1>2
<1>4. SubSeq(sorted, place + 1, Len(sorted)) \in Seq(T)
  BY <1>1, <1>2
<1>5. InsertByFee(sorted, tx) =
        SubSeq(sorted, 1, place) \o <<tx>> \o SubSeq(sorted, place + 1, Len(sorted))
  BY DEF InsertByFee, place
<1> QED BY <1>3, <1>4, <1>5

(* select returns pending transactions. *)
LEMMA SelectType ==
  ASSUME NEW T, NEW p, p.pending \in Seq(T)
  PROVE  Select(p) \in Seq(T)
<1> DEFINE txs == p.pending
           n == Len(txs)
           t == ByFeeTrace(txs)
           S == {i \in 0..n : t[i] \in Seq(T)}
<1>1. n \in Nat /\ \A i \in 1..n : txs[i] \in T
  OBVIOUS
<1>2. t[0] = <<>> /\ \A i \in 1..n : t[i] = InsertByFee(t[i-1], txs[i])
  BY <1>1, ByFeeTraceDef
<1> HIDE DEF t, txs
<1>3. 0 \in S
  <2>1. <<>> \in Seq(T) /\ 0 \in 0..n
    BY <1>1
  <2> QED BY <1>2, <2>1
<1>4. \A i \in 0..(n-1) : i \in S => i + 1 \in S
  <2> SUFFICES ASSUME NEW i \in 0..(n-1), t[i] \in Seq(T) PROVE t[i+1] \in Seq(T)
    BY <1>1
  <2>1. i + 1 \in 1..n /\ (i + 1) - 1 = i /\ txs[i+1] \in T
    BY <1>1
  <2>2. t[i+1] = InsertByFee(t[i], txs[i+1])
    BY <1>2, <2>1
  <2> QED BY <2>1, <2>2, InsertType
<1> HIDE DEF S
<1>5. \A i \in 0..n : i \in S
  BY <1>1, <1>3, <1>4, UpTo
<1>6. t[n] \in Seq(T)
  BY <1>1, <1>5 DEF S
<1>7. Select(p) = SubSeq(t[n], 1, IF Len(t[n]) < limit THEN Len(t[n]) ELSE limit)
  BY DEF Select, t, txs
<1> QED BY <1>6, <1>7, PoolAssumption

LEMMA KeptTraceDef ==
  ASSUME NEW pending, NEW txs, Len(pending) \in Nat
  PROVE  KeptTrace(pending, txs) =
           [i \in 0..Len(pending) |->
              IF i = 0 THEN <<>>
              ELSE IF \E j \in 1..Len(txs) : txs[j] = pending[i]
              THEN KeptTrace(pending, txs)[i-1]
              ELSE Append(KeptTrace(pending, txs)[i-1], pending[i])]
<1> DEFINE Gone(i) == \E j \in 1..Len(txs) : txs[j] = pending[i]
           S == {m \in Nat : \E g :
             g = [i \in 0..m |-> IF i = 0 THEN <<>>
                                 ELSE IF Gone(i) THEN g[i-1]
                                 ELSE Append(g[i-1], pending[i])]}
<1> HIDE DEF Gone
<1>1. 0 \in S
  <2>1. [i \in 0..0 |-> <<>>] =
          [i \in 0..0 |-> IF i = 0 THEN <<>>
                          ELSE IF Gone(i) THEN [j \in 0..0 |-> <<>>][i-1]
                          ELSE Append([j \in 0..0 |-> <<>>][i-1], pending[i])]
    OBVIOUS
  <2> QED BY <2>1
<1>2. ASSUME NEW m \in Nat, m \in S PROVE m + 1 \in S
  <2>1. PICK g : g = [i \in 0..m |-> IF i = 0 THEN <<>>
                                     ELSE IF Gone(i) THEN g[i-1]
                                     ELSE Append(g[i-1], pending[i])]
    BY <1>2
  <2> DEFINE new == IF Gone(m+1) THEN g[m] ELSE Append(g[m], pending[m+1])
             h == [i \in 0..(m+1) |-> IF i = m + 1 THEN new ELSE g[i]]
  <2>2. \A i \in 0..(m+1) :
          h[i] = IF i = 0 THEN <<>> ELSE IF Gone(i) THEN h[i-1]
                 ELSE Append(h[i-1], pending[i])
    <3> SUFFICES ASSUME NEW i \in 0..(m+1)
                 PROVE  h[i] = IF i = 0 THEN <<>> ELSE IF Gone(i) THEN h[i-1]
                               ELSE Append(h[i-1], pending[i])
      OBVIOUS
    <3>1. CASE i = m + 1
      BY <3>1
    <3>2. CASE i # m + 1
      <4>1. i \in 0..m /\ h[i] = g[i] /\ (i # 0 => h[i-1] = g[i-1])
        BY <3>2
      <4> HIDE DEF h
      <4> QED BY <2>1, <4>1
    <3> QED BY <3>1, <3>2
  <2>3. h = [i \in 0..(m+1) |-> IF i = 0 THEN <<>>
                                ELSE IF Gone(i) THEN h[i-1]
                                ELSE Append(h[i-1], pending[i])]
    <3> HIDE DEF h
    <3>1. h = [i \in 0..(m+1) |-> h[i]] BY DEF h
    <3> QED BY <2>2, <3>1
  <2> HIDE DEF h
  <2> QED BY <2>3
<1> HIDE DEF S
<1>3. Len(pending) \in S
  BY <1>1, <1>2, SetInduction
<1> QED BY <1>3 DEF S, KeptTrace, Gone

LEMMA KeptSteps ==
  ASSUME NEW pending, NEW txs, Len(pending) \in Nat
  PROVE  /\ KeptTrace(pending, txs)[0] = <<>>
         /\ \A i \in 1..Len(pending) :
              KeptTrace(pending, txs)[i] =
                IF \E j \in 1..Len(txs) : txs[j] = pending[i]
                THEN KeptTrace(pending, txs)[i-1]
                ELSE Append(KeptTrace(pending, txs)[i-1], pending[i])
<1> DEFINE n == Len(pending)
           t == KeptTrace(pending, txs)
           Gone(i) == \E j \in 1..Len(txs) : txs[j] = pending[i]
<1>1. t = [i \in 0..n |-> IF i = 0 THEN <<>> ELSE IF Gone(i) THEN t[i-1]
                          ELSE Append(t[i-1], pending[i])]
  BY KeptTraceDef
<1> HIDE DEF t, Gone
<1>2. t[0] = <<>>
  BY <1>1
<1>3. ASSUME NEW i \in 1..n
      PROVE  t[i] = IF Gone(i) THEN t[i-1] ELSE Append(t[i-1], pending[i])
  <2>1. i \in 0..n /\ i # 0
    OBVIOUS
  <2> QED BY <1>1, <2>1, Zenon
<1> QED BY <1>2, <1>3 DEF t, Gone

(* remove_confirmed keeps only what was pending, and all of that but what   *)
(* was confirmed.                                                           *)
LEMMA RemoveType ==
  ASSUME NEW T, NEW p, p.pending \in Seq(T), NEW txs
  PROVE  /\ RemoveConfirmed(p, txs).pending \in Seq(T)
         /\ RemoveConfirmed(p, txs).flagged = p.flagged
         /\ Len(RemoveConfirmed(p, txs).pending) <= Len(p.pending)
         /\ \A tx \in Pending(p) \ Pending(RemoveConfirmed(p, txs)) :
              \E j \in 1..Len(txs) : txs[j] = tx
<1> DEFINE pd == p.pending
           n == Len(pd)
           t == KeptTrace(pd, txs)
           Gone(i) == \E j \in 1..Len(txs) : txs[j] = pd[i]
           Has(s, x) == \E k \in 1..Len(s) : s[k] = x
           S == {i \in 0..n : /\ t[i] \in Seq(T) /\ Len(t[i]) <= i
                              /\ \A k \in 1..i : Gone(k) \/ Has(t[i], pd[k])}
<1>1. n \in Nat /\ \A i \in 1..n : pd[i] \in T
  OBVIOUS
<1>2. /\ t[0] = <<>>
      /\ \A i \in 1..n : t[i] = IF Gone(i) THEN t[i-1] ELSE Append(t[i-1], pd[i])
  <2> HIDE DEF pd
  <2> QED BY <1>1, KeptSteps
<1> HIDE DEF t, pd, Gone
<1>3. 0 \in S
  <2>1. <<>> \in Seq(T) /\ 0 \in 0..n /\ Len(<<>>) <= 0
    BY <1>1
  <2>2. 1..0 = {}
    OBVIOUS
  <2> HIDE DEF Has
  <2> QED BY <1>2, <2>1, <2>2, Zenon
<1>4. \A i \in 0..(n-1) : i \in S => i + 1 \in S
  <2> SUFFICES ASSUME NEW i \in 0..(n-1), t[i] \in Seq(T), Len(t[i]) <= i,
                      \A k \in 1..i : Gone(k) \/ Has(t[i], pd[k])
               PROVE  /\ t[i+1] \in Seq(T) /\ Len(t[i+1]) <= i + 1
                      /\ \A k \in 1..(i+1) : Gone(k) \/ Has(t[i+1], pd[k])
    BY <1>1
  <2>1. i + 1 \in 1..n /\ (i + 1) - 1 = i /\ pd[i+1] \in T
        /\ \A k \in 1..(i+1) : k \in 1..i \/ k = i + 1
    BY <1>1
  <2>2. t[i+1] = IF Gone(i+1) THEN t[i] ELSE Append(t[i], pd[i+1])
    BY <1>2, <2>1
  <2>3. CASE Gone(i+1)
    <3>1. t[i+1] = t[i] /\ Len(t[i+1]) <= i + 1
      BY <2>2, <2>3
    <3> HIDE DEF Has
    <3> QED BY <2>1, <2>3, <3>1
  <2>4. CASE ~Gone(i+1)
    <3>1. t[i+1] = Append(t[i], pd[i+1]) /\ t[i+1] \in Seq(T)
      BY <2>1, <2>2, <2>4
    <3>2. /\ Len(t[i]) \in Nat /\ Len(t[i+1]) = Len(t[i]) + 1
          /\ t[i+1][Len(t[i]) + 1] = pd[i+1]
          /\ \A k \in 1..Len(t[i]) : t[i+1][k] = t[i][k]
      BY <2>1, <3>1
    <3>3. Has(t[i+1], pd[i+1])
      BY <3>2
    <3>4. \A x : Has(t[i], x) => Has(t[i+1], x)
      BY <3>2
    <3>5. Len(t[i+1]) <= i + 1
      BY <3>2
    <3> HIDE DEF Has
    <3> QED BY <2>1, <3>1, <3>3, <3>4, <3>5
  <2> QED BY <2>3, <2>4
<1> HIDE DEF S
<1>5. \A i \in 0..n : i \in S
  BY <1>1, <1>3, <1>4, UpTo
<1>6. /\ t[n] \in Seq(T) /\ Len(t[n]) <= n
      /\ \A k \in 1..n : Gone(k) \/ Has(t[n], pd[k])
  BY <1>1, <1>5 DEF S
<1>7. RemoveConfirmed(p, txs).pending = t[n] /\ RemoveConfirmed(p, txs).flagged = p.flagged
  BY DEF RemoveConfirmed, t, pd
<1>8. ASSUME NEW tx \in Pending(p) \ Pending(RemoveConfirmed(p, txs))
      PROVE  \E j \in 1..Len(txs) : txs[j] = tx
  <2>1. PICK k \in 1..n : pd[k] = tx
    BY DEF Pending, pd
  <2>2. ~Has(t[n], tx)
    BY <1>7 DEF Pending
  <2> QED BY <1>6, <2>1, <2>2 DEF Gone
<1> QED BY <1>6, <1>7, <1>8 DEF pd

(* A pool that holds nothing twice still does after remove_confirmed. *)
LEMMA RemoveDistinct ==
  ASSUME NEW T, NEW p, p.pending \in Seq(T), NEW txs,
         \A i, j \in 1..Len(p.pending) : p.pending[i] = p.pending[j] => i = j
  PROVE  \A i, j \in 1..Len(RemoveConfirmed(p, txs).pending) :
           RemoveConfirmed(p, txs).pending[i] = RemoveConfirmed(p, txs).pending[j]
             => i = j
<1> DEFINE pd == p.pending
           n == Len(pd)
           t == KeptTrace(pd, txs)
           Gone(i) == \E j \in 1..Len(txs) : txs[j] = pd[i]
           From(s, i) == \A a \in 1..Len(s) : \E k \in 1..i : s[a] = pd[k]
           Once(s) == \A a, b \in 1..Len(s) : s[a] = s[b] => a = b
           S == {i \in 0..n : t[i] \in Seq(T) /\ From(t[i], i) /\ Once(t[i])}
<1>1. /\ n \in Nat /\ \A i \in 1..n : pd[i] \in T
      /\ \A i, j \in 1..n : pd[i] = pd[j] => i = j
  OBVIOUS
<1>2. /\ t[0] = <<>>
      /\ \A i \in 1..n : t[i] = IF Gone(i) THEN t[i-1] ELSE Append(t[i-1], pd[i])
  <2> HIDE DEF pd
  <2> QED BY <1>1, KeptSteps
<1> HIDE DEF t, pd, Gone
<1>3. 0 \in S
  <2>1. <<>> \in Seq(T) /\ 0 \in 0..n
    BY <1>1
  <2>2. From(<<>>, 0) /\ Once(<<>>)
    OBVIOUS
  <2> HIDE DEF From, Once
  <2> QED BY <1>2, <2>1, <2>2
<1>4. \A i \in 0..(n-1) : i \in S => i + 1 \in S
  <2> SUFFICES ASSUME NEW i \in 0..(n-1),
                      t[i] \in Seq(T), From(t[i], i), Once(t[i])
               PROVE  t[i+1] \in Seq(T) /\ From(t[i+1], i + 1) /\ Once(t[i+1])
    <3> HIDE DEF From, Once
    <3> QED BY <1>1
  <2>1. i + 1 \in 1..n /\ (i + 1) - 1 = i /\ pd[i+1] \in T
        /\ \A k \in 1..i : k \in 1..(i+1) /\ k \in 1..n /\ k # i + 1
    BY <1>1
  <2>2. t[i+1] = IF Gone(i+1) THEN t[i] ELSE Append(t[i], pd[i+1])
    BY <1>2, <2>1
  <2>3. CASE Gone(i+1)
    <3>1. t[i+1] = t[i]
      BY <2>2, <2>3
    <3>2. From(t[i], i + 1)
      BY <2>1
    <3> HIDE DEF From, Once
    <3> QED BY <3>1, <3>2
  <2>4. CASE ~Gone(i+1)
    <3>1. t[i+1] = Append(t[i], pd[i+1]) /\ t[i+1] \in Seq(T)
      BY <2>1, <2>2, <2>4
    <3>2. /\ Len(t[i]) \in Nat /\ Len(t[i+1]) = Len(t[i]) + 1
          /\ t[i+1][Len(t[i]) + 1] = pd[i+1]
          /\ \A k \in 1..Len(t[i]) : t[i+1][k] = t[i][k]
      BY <2>1, <3>1
    <3>3. \A a \in 1..Len(t[i+1]) : a \in 1..Len(t[i]) \/ a = Len(t[i]) + 1
      BY <3>2
    <3>4. From(t[i+1], i + 1)
      <4> TAKE a \in 1..Len(t[i+1])
      <4>1. CASE a \in 1..Len(t[i])
        BY <2>1, <3>2, <4>1
      <4>2. CASE a = Len(t[i]) + 1
        <5>1. i + 1 \in 1..(i+1) /\ t[i+1][a] = pd[i+1]
          BY <3>2, <4>2, <2>1
        <5> QED BY <5>1
      <4> QED BY <3>3, <4>1, <4>2
    <3>5. \A a \in 1..Len(t[i]) : t[i][a] # pd[i+1]
      BY <1>1, <2>1
    <3>6. Once(t[i+1])
      <4> TAKE a, b \in 1..Len(t[i+1])
      <4>1. CASE a \in 1..Len(t[i]) /\ b \in 1..Len(t[i])
        BY <3>2, <4>1
      <4>2. CASE a = Len(t[i]) + 1 \/ b = Len(t[i]) + 1
        BY <3>2, <3>3, <3>5, <4>2
      <4> QED BY <3>3, <4>1, <4>2
    <3> HIDE DEF From, Once
    <3> QED BY <3>1, <3>4, <3>6
  <2> QED BY <2>3, <2>4
<1> HIDE DEF S
<1>5. \A i \in 0..n : i \in S
  BY <1>1, <1>3, <1>4, UpTo
<1>6. Once(t[n])
  BY <1>1, <1>5 DEF S
<1>7. RemoveConfirmed(p, txs).pending = t[n]
  BY DEF RemoveConfirmed, t, pd
<1> QED BY <1>6, <1>7

(* A single transaction leaves well-typed books, valid or not. *)
LEMMA ApplyType ==
  ASSUME NEW acct \in AccountState, NEW tx \in Transaction
  PROVE  Apply(acct, tx) \in AccountState
<1>1. /\ acct.balances \in [Accounts -> Int] /\ acct.nonces \in [Accounts -> Nat]
      /\ tx.recipient \in Accounts /\ tx.amount \in Int /\ tx.nonce \in Nat
  BY DEF AccountState, Transaction
<1>2. CASE IsCoinbase(tx)
  BY <1>1, <1>2 DEF Apply, NextNonces, Mint, AccountState
<1>3. CASE ~IsCoinbase(tx)
  <2>1. Transfer(acct.balances, tx) \in [Accounts -> Int]
    BY <1>1, <1>3, TransferTotal
  <2>2. NextNonces(acct.nonces, tx) \in [Accounts -> Nat]
    <3>1. tx.sender \in Accounts
      BY <1>3 DEF Transaction, IsCoinbase
    <3> QED BY <1>1, <1>3, <3>1 DEF NextNonces
  <2> QED BY <1>3, <2>1, <2>2 DEF Apply, AccountState
<1> QED BY <1>2, <1>3

=============================================================================
