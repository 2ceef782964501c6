---------------------- MODULE ExchangeContractsProofs ----------------------
(***************************************************************************)
(* Proofs about the contracts, for every set of users, tokens and trade    *)
(* ids and batches of every length: types, that no trade id is settled     *)
(* twice, that the vault owns what it owes, and that every balance is      *)
(* explained by deposits, withdrawals and settled trades.                  *)
(*                                                                         *)
(* The last two are about sums over all users and over the whole ledger.   *)
(* SumFunction is defined by choosing one element after the other, so the  *)
(* section on sums shows that the choice does not matter: a sum is one of  *)
(* its terms and the sum of the others, whichever term that is.            *)
(***************************************************************************)
EXTENDS ExchangeContracts, SequenceTheorems, FiniteSetTheorems,
        WellFoundedInduction, TLAPS

Balances == [User -> Nat]
Run == [token : Token, batch : Seq(Transfer), balances : Balances, settled : SUBSET TradeId]

-----------------------------------------------------------------------------
(* Moving an amount within a map of balances.                              *)

\* A transfer that its sender affords leaves every balance a natural number,
\* whatever the set of accounts is.
LEMMA MovedType ==
  ASSUME NEW S, NEW b \in [S -> Nat], NEW from \in S, NEW to \in S,
         NEW amount \in Nat, b[from] >= amount
  PROVE  Moved(b, from, to, amount) \in [S -> Nat]
  <1> DEFINE c == [b EXCEPT ![from] = @ - amount]
  <1>1. c \in [S -> Nat]
    OBVIOUS
  <1>2. [c EXCEPT ![to] = @ + amount] \in [S -> Nat]
    BY <1>1
  <1> QED
    BY <1>2 DEF Moved

\* The same for the two assignments of transferInternal.
LEMMA ReassignedType ==
  ASSUME NEW S, NEW b \in [S -> Nat], NEW from \in S, NEW to \in S,
         NEW amount \in Nat, b[from] >= amount
  PROVE  Reassigned(b, from, to, amount) \in [S -> Nat]
  BY MovedType DEF Moved, Reassigned

\* Replacing one entry of a table of balances.
LEMMA EntryType ==
  ASSUME NEW S, NEW table \in [Token -> [S -> Nat]], NEW t \in Token,
         NEW b \in [S -> Nat]
  PROVE  [table EXCEPT ![t] = b] \in [Token -> [S -> Nat]]
  OBVIOUS

\* The state of a running settleTrades is no NoTx.
LEMMA RunIsNoNoTx == NoTx \notin Run
  BY NoTxAssumption DEF Run, Balances

-----------------------------------------------------------------------------
(* Types.                                                                  *)

LEMMA DepositType ==
  ASSUME TypeOK, NEW u \in User, NEW t \in Token, NEW amount \in Amount,
         Deposit(u, t, amount)
  PROVE  TypeOK'
  <1>1. amount \in Nat /\ u \in Account /\ Vault \in Account
    BY AmountAssumption DEF Amount, Account
  <1>2. tokens' \in [Token -> [Account -> Nat]]
    <2>1. tokens[t] \in [Account -> Nat] /\ tokens[t][u] >= amount
      BY DEF TypeOK, Deposit
    <2>2. Moved(tokens[t], u, Vault, amount) \in [Account -> Nat]
      BY <1>1, <2>1, MovedType
    <2> QED
      BY <2>2, EntryType DEF TypeOK, Deposit
  <1>3. balances' \in [Token -> [User -> Nat]]
    BY <1>1 DEF TypeOK, Deposit
  <1>4. net' \in [Token -> [User -> Int]]
    BY <1>1 DEF TypeOK, Deposit
  <1> QED
    BY <1>2, <1>3, <1>4 DEF TypeOK, Deposit

LEMMA WithdrawType ==
  ASSUME TypeOK, NEW u \in User, NEW t \in Token, NEW amount \in Amount,
         Withdraw(u, t, amount)
  PROVE  TypeOK'
  <1>1. amount \in Nat /\ u \in Account /\ Vault \in Account
    BY AmountAssumption DEF Amount, Account
  <1>2. tokens' \in [Token -> [Account -> Nat]]
    <2>1. tokens[t] \in [Account -> Nat] /\ tokens[t][Vault] >= amount
      BY DEF TypeOK, Withdraw
    <2>2. Moved(tokens[t], Vault, u, amount) \in [Account -> Nat]
      BY <1>1, <2>1, MovedType
    <2> QED
      BY <2>2, EntryType DEF TypeOK, Withdraw
  <1>3. balances' \in [Token -> [User -> Nat]]
    <2>1. balances[t] \in [User -> Nat] /\ balances[t][u] >= amount
      BY DEF TypeOK, Withdraw, Affords
    <2>2. [balances[t] EXCEPT ![u] = @ - amount] \in [User -> Nat]
      BY <1>1, <2>1
    <2>3. balances' = [balances EXCEPT ![t] = [balances[t] EXCEPT ![u] = @ - amount]]
      BY DEF TypeOK, Withdraw
    <2> QED
      BY <2>2, <2>3, EntryType DEF TypeOK
  <1>4. net' \in [Token -> [User -> Int]]
    BY <1>1 DEF TypeOK, Withdraw
  <1> QED
    BY <1>2, <1>3, <1>4 DEF TypeOK, Withdraw

LEMMA TransferTokenType ==
  ASSUME TypeOK, NEW u \in User, NEW a \in Account, NEW t \in Token,
         NEW amount \in Amount, TransferToken(u, a, t, amount)
  PROVE  TypeOK'
  <1>1. amount \in Nat /\ u \in Account
    BY AmountAssumption DEF Amount, Account
  <1>2. tokens[t] \in [Account -> Nat] /\ tokens[t][u] >= amount
    BY DEF TypeOK, TransferToken
  <1>3. Moved(tokens[t], u, a, amount) \in [Account -> Nat]
    BY <1>1, <1>2, MovedType
  <1>4. tokens' \in [Token -> [Account -> Nat]]
    BY <1>3, EntryType DEF TypeOK, TransferToken
  <1> QED
    BY <1>4 DEF TypeOK, TransferToken

LEMMA MintType ==
  ASSUME TypeOK, NEW u \in User, NEW t \in Token, NEW amount \in Amount,
         Mint(u, t, amount)
  PROVE  TypeOK'
  <1>1. amount \in Nat /\ u \in Account
    BY AmountAssumption DEF Amount, Account
  <1>2. tokens' \in [Token -> [Account -> Nat]]
    BY <1>1 DEF TypeOK, Mint
  <1> QED
    BY <1>2 DEF TypeOK, Mint

LEMMA SettleNextType ==
  ASSUME TypeOK, NEW id \in TradeId, NEW buyer \in User, NEW seller \in User,
         NEW amount \in Amount, SettleNext(id, buyer, seller, amount)
  PROVE  TypeOK'
  <1> DEFINE move == [id |-> id, token |-> tx.token, buyer |-> buyer,
                      seller |-> seller, amount |-> amount]
  <1>1. tx \in Run /\ amount \in Nat
    BY AmountAssumption DEF TypeOK, SettleNext, Run, Balances, Amount
  <1>2. move \in Transfer
    BY <1>1 DEF Transfer, Run
  <1>3. Append(tx.batch, move) \in Seq(Transfer)
    BY <1>1, <1>2 DEF Run
  <1>4. Reassigned(tx.balances, buyer, seller, amount) \in Balances
    BY <1>1, ReassignedType DEF SettleNext, Affords, Run, Balances
  <1>5. tx' \in Run
    BY <1>1, <1>3, <1>4 DEF SettleNext, Run
  <1> QED
    BY <1>5 DEF TypeOK, SettleNext, Run, Balances

LEMMA CommitType ==
  ASSUME TypeOK, Commit
  PROVE  TypeOK'
  <1>1. tx \in Run
    BY DEF TypeOK, Commit, Run, Balances
  <1>2. balances' \in [Token -> [User -> Nat]]
    BY <1>1, EntryType DEF TypeOK, Commit, Run, Balances
  <1>3. ledger' \in Seq(Transfer)
    BY <1>1 DEF TypeOK, Commit, Run
  <1> QED
    BY <1>1, <1>2, <1>3 DEF TypeOK, Commit, Run

LEMMA NextType ==
  ASSUME TypeOK, [Next]_vars
  PROVE  TypeOK'
  <1>1. CASE \E u \in User, t \in Token, amount \in Amount :
               \/ Deposit(u, t, amount)
               \/ Withdraw(u, t, amount)
               \/ Mint(u, t, amount)
               \/ \E a \in Account : TransferToken(u, a, t, amount)
    BY <1>1, DepositType, WithdrawType, MintType, TransferTokenType
  <1>2. CASE \E o \in Operator, t \in Token : SettleTrades(o, t)
    <2>1. PICK o \in Operator, t \in Token : SettleTrades(o, t)
      BY <1>2
    <2>2. tx' \in Run
      BY <2>1 DEF TypeOK, SettleTrades, Run, Balances
    <2> QED
      BY <2>1, <2>2 DEF TypeOK, SettleTrades, Run, Balances
  <1>3. CASE \E id \in TradeId, buyer, seller \in User, amount \in Amount :
               SettleNext(id, buyer, seller, amount)
    BY <1>3, SettleNextType
  <1>4. CASE Commit
    BY <1>4, CommitType
  <1>5. CASE Revert
    BY <1>5 DEF TypeOK, Revert
  <1>6. CASE UNCHANGED vars
    BY <1>6 DEF TypeOK, vars
  <1>7. CASE \E o \in Operator : SetSettlementOperator(o)
    BY <1>7 DEF TypeOK, SetSettlementOperator
  <1> QED
    BY <1>1, <1>2, <1>3, <1>4, <1>5, <1>6, <1>7 DEF Next

LEMMA InitType ==
  ASSUME Init
  PROVE  TypeOK
  <1>1. tokens \in [Token -> [Account -> Nat]]
    BY AmountAssumption DEF Init
  <1> QED
    BY <1>1 DEF Init, TypeOK

\* Types of every variable of the contracts, in particular that no balance and
\* no amount of tokens is ever negative.
THEOREM ContractsTypeCorrect == Spec => []TypeOK
  <1>1. Init => TypeOK
    BY InitType
  <1>2. TypeOK /\ [Next]_vars => TypeOK'
    BY NextType
  <1> QED
    BY <1>1, <1>2, PTL DEF Spec

-----------------------------------------------------------------------------
(* No trade id is settled twice.                                           *)

\* Appending to the second of two sequences, or to their concatenation.
LEMMA AppendToConcat ==
  ASSUME NEW s \in Seq(Transfer), NEW t \in Seq(Transfer), NEW e \in Transfer
  PROVE  Append(s \o t, e) = s \o Append(t, e)
  <1>1. s \o t \in Seq(Transfer) /\ <<e>> \in Seq(Transfer)
    OBVIOUS
  <1>2. Append(s \o t, e) = (s \o t) \o <<e>>
    BY <1>1, AppendIsConcat
  <1>3. Append(t, e) = t \o <<e>>
    BY AppendIsConcat
  <1>4. (s \o t) \o <<e>> = s \o (t \o <<e>>)
    BY <1>1, ConcatAssociative
  <1> QED
    BY <1>2, <1>3, <1>4

\* A ledger that settles its ids once still does after a transfer with a new id.
LEMMA SettlesOneMore ==
  ASSUME NEW s \in Seq(Transfer), NEW ids \in SUBSET TradeId, SettlesOnce(s, ids),
         NEW move \in Transfer, move.id \notin ids
  PROVE  SettlesOnce(Append(s, move), ids \cup {move.id})
  <1> DEFINE r == Append(s, move)
  <1>1. r \in Seq(Transfer) /\ Len(r) = Len(s) + 1 /\ DOMAIN r = 1..(Len(s) + 1)
    OBVIOUS
  <1>2. r[Len(s) + 1] = move /\ \A i \in DOMAIN s : r[i] = s[i]
    OBVIOUS
  <1>3. \A i \in DOMAIN s : s[i].id \in ids
    BY DEF SettlesOnce
  <1>4. \A i \in DOMAIN r : i \in DOMAIN s \/ i = Len(s) + 1
    BY <1>1
  <1> HIDE DEF r
  <1>5. ASSUME NEW i \in DOMAIN r, NEW j \in DOMAIN r, r[i].id = r[j].id
        PROVE  i = j
    BY <1>2, <1>3, <1>4, <1>5 DEF SettlesOnce
  <1>6. ids \cup {move.id} \subseteq {r[i].id : i \in DOMAIN r}
    <2>1. ASSUME NEW x \in ids
          PROVE  \E i \in DOMAIN r : r[i].id = x
      <3>1. PICK i \in DOMAIN s : s[i].id = x
        BY DEF SettlesOnce
      <3> QED
        BY <1>1, <1>2, <3>1
    <2>2. \E i \in DOMAIN r : r[i].id = move.id
      BY <1>1, <1>2
    <2> QED
      BY <2>1, <2>2
  <1>7. \A i \in DOMAIN r : r[i].id \in ids \cup {move.id}
    BY <1>2, <1>3, <1>4
  <1>8. ids \cup {move.id} = {r[i].id : i \in DOMAIN r}
    BY <1>6, <1>7
  <1>9. SettlesOnce(r, ids \cup {move.id})
    BY <1>5, <1>8 DEF SettlesOnce
  <1> QED
    BY <1>9 DEF r

LEMMA SettleNextOnce ==
  ASSUME TypeOK, SettledOnce, NEW id \in TradeId, NEW buyer \in User,
         NEW seller \in User, NEW amount \in Amount,
         SettleNext(id, buyer, seller, amount)
  PROVE  SettledOnce'
  <1> DEFINE move == [id |-> id, token |-> tx.token, buyer |-> buyer,
                      seller |-> seller, amount |-> amount]
  <1>1. tx # NoTx /\ tx \in Run /\ ledger \in Seq(Transfer)
    BY DEF TypeOK, SettleNext, Run, Balances
  <1>2. move \in Transfer /\ move.id = id /\ id \notin tx.settled
    BY <1>1 DEF Transfer, Run, SettleNext, Unsettled
  <1>3. SettlesOnce(ledger \o tx.batch, tx.settled)
    BY <1>1 DEF SettledOnce
  <1>4. ledger \o tx.batch \in Seq(Transfer) /\ tx.settled \in SUBSET TradeId
    BY <1>1 DEF Run
  <1>5. SettlesOnce(Append(ledger \o tx.batch, move), tx.settled \cup {id})
    BY <1>2, <1>3, <1>4, SettlesOneMore
  <1>6. Append(ledger \o tx.batch, move) = ledger \o Append(tx.batch, move)
    <2>1. ledger \in Seq(Transfer) /\ tx.batch \in Seq(Transfer) /\ move \in Transfer
      BY <1>1, <1>2 DEF Run
    <2>2. \A s, t \in Seq(Transfer), e \in Transfer :
            Append(s \o t, e) = s \o Append(t, e)
      BY AppendToConcat
    <2> HIDE DEF move
    <2> QED
      BY <2>1, <2>2
  <1>7. tx'.batch = Append(tx.batch, move) /\ tx'.settled = tx.settled \cup {id}
    BY DEF SettleNext
  <1>8. ledger' = ledger /\ settled' = settled
    BY DEF SettleNext
  <1> HIDE DEF move
  <1>9. SettlesOnce(ledger' \o tx'.batch, tx'.settled)
    BY <1>5, <1>6, <1>7, <1>8
  <1> QED
    BY <1>8, <1>9 DEF SettledOnce, SettlesOnce

LEMMA NextOnce ==
  ASSUME TypeOK, SettledOnce, [Next]_vars
  PROVE  SettledOnce'
  <1>1. CASE \E id \in TradeId, buyer, seller \in User, amount \in Amount :
               SettleNext(id, buyer, seller, amount)
    BY <1>1, SettleNextOnce
  <1>2. CASE \E o \in Operator, t \in Token : SettleTrades(o, t)
    <2>1. ledger \o <<>> = ledger
      BY DEF TypeOK
    <2>2. tx'.batch = <<>> /\ tx'.settled = settled /\ ledger' = ledger /\ settled' = settled
      BY <1>2 DEF SettleTrades
    <2>3. SettlesOnce(ledger, settled)
      BY DEF SettledOnce
    <2> QED
      BY <2>1, <2>2, <2>3 DEF SettledOnce, SettlesOnce
  <1>3. CASE Commit
    <2>1. SettlesOnce(ledger \o tx.batch, tx.settled)
      BY <1>3 DEF Commit, SettledOnce
    <2>2. ledger' = ledger \o tx.batch /\ settled' = tx.settled /\ tx' = NoTx
      BY <1>3 DEF Commit
    <2> QED
      BY <2>1, <2>2 DEF SettledOnce, SettlesOnce
  <1>4. CASE Revert
    BY <1>4 DEF Revert, SettledOnce, SettlesOnce
  <1>5. CASE UNCHANGED <<settled, tx, ledger>>
    BY <1>5 DEF SettledOnce, SettlesOnce
  <1>6. CASE \E u \in User, t \in Token, amount \in Amount :
               \/ Deposit(u, t, amount)
               \/ Withdraw(u, t, amount)
               \/ Mint(u, t, amount)
               \/ \E a \in Account : TransferToken(u, a, t, amount)
    BY <1>5, <1>6 DEF Deposit, Withdraw, Mint, TransferToken
  <1>7. CASE \E o \in Operator : SetSettlementOperator(o)
    BY <1>5, <1>7 DEF SetSettlementOperator
  <1> QED
    BY <1>1, <1>2, <1>3, <1>4, <1>5, <1>6, <1>7 DEF Next, vars

\* Replay protection for every set of ids and users and for batches of every
\* length: no trade id ever moves money twice, and settledTrades is exactly
\* the set of ids that did.
THEOREM NoReplay == Spec => []SettledOnce
  <1>1. Init => SettledOnce
    BY DEF Init, SettledOnce, SettlesOnce
  <1>2. TypeOK /\ SettledOnce /\ [Next]_vars => SettledOnce'
    BY NextOnce
  <1> QED
    BY <1>1, <1>2, ContractsTypeCorrect, PTL DEF Spec

-----------------------------------------------------------------------------
(* Sums.  SumFunctionOnSet(f, S) is g[S] for the function g on SUBSET S    *)
(* that is 0 on {} and adds f of a chosen element elsewhere.  That such a  *)
(* g exists, and that any two agree, is shown by taking a smallest set for *)
(* which it fails.                                                         *)

\* The element that a sum over T takes first, and the rest.
Pick(T) == CHOOSE x \in T : TRUE
Least(T) == T \ {Pick(T)}

\* g adds up f over the sets of D.
Adds(f, D, g) ==
  \A T \in D : IF T = {} THEN g[T] = 0
               ELSE Least(T) \in D /\ g[T] = f[Pick(T)] + g[Least(T)]

\* The equation that defines SumFunctionOnSet(f, S).
Rec(f, S, g) == g = [T \in SUBSET S |-> IF T = {} THEN 0 ELSE f[Pick(T)] + g[T \ {Pick(T)}]]

LEMMA LeastSmaller ==
  ASSUME NEW T, T # {}
  PROVE  Pick(T) \in T /\ Least(T) \subseteq T /\ Least(T) # T
BY DEF Pick, Least

\* A set of finite sets has one that contains no other of them.
LEMMA Minimal ==
  ASSUME NEW S, IsFiniteSet(S), NEW B, B \subseteq SUBSET S, B # {}
  PROVE  \E T \in B : \A U \in B : U \subseteq T => U = T
<1>1. IsWellFoundedOn(StrictSubsetOrdering(S), SUBSET S)
  BY FS_StrictSubsetOrderingWellFounded, FS_FiniteSubsetsOfFinite
<1>2. PICK T \in B : \A U \in B : ~ (<<U, T>> \in StrictSubsetOrdering(S))
  BY <1>1, WFMin
<1>3. \A U \in B : U \subseteq T => U = T
  BY <1>2 DEF StrictSubsetOrdering
<1> QED  BY <1>3

\* Two functions that add up f agree where both do.
LEMMA Agree ==
  ASSUME NEW f, NEW S, IsFiniteSet(S), NEW D, D \subseteq SUBSET S, NEW E, E \subseteq SUBSET S,
         NEW g, NEW h, Adds(f, D, g), Adds(f, E, h)
  PROVE  \A T \in D \cap E : g[T] = h[T]
<1> DEFINE B == {T \in D \cap E : g[T] # h[T]}
<1> SUFFICES ASSUME B # {} PROVE FALSE
  OBVIOUS
<1>1. PICK T \in B : \A U \in B : U \subseteq T => U = T
  <2>1. B \subseteq SUBSET S /\ B # {}
    OBVIOUS
  <2> HIDE DEF B
  <2> QED  BY <2>1, Minimal
<1>2. T # {}
  BY DEF Adds
<1>3. Least(T) \in D \cap E /\ g[T] = f[Pick(T)] + g[Least(T)] /\ h[T] = f[Pick(T)] + h[Least(T)]
  BY <1>2 DEF Adds
<1>4. Least(T) \notin B
  BY <1>1, <1>2, LeastSmaller
<1> QED  BY <1>3, <1>4

\* Some function adds up f over all subsets of S.
LEMMA Total ==
  ASSUME NEW S, IsFiniteSet(S), NEW f, \A x \in S : f[x] \in Int
  PROVE  \E g \in [SUBSET S -> Int] : Adds(f, SUBSET S, g)
<1> DEFINE Valued(T) == \E D \in SUBSET SUBSET S : \E g \in [D -> Int] : T \in D /\ Adds(f, D, g)
<1>1. \A T \in SUBSET S : Valued(T)
  <2> DEFINE B == {T \in SUBSET S : ~Valued(T)}
  <2> HIDE DEF Valued
  <2> SUFFICES ASSUME B # {} PROVE FALSE
    OBVIOUS
  <2>1. PICK T \in B : \A U \in B : U \subseteq T => U = T
    <3>1. B \subseteq SUBSET S /\ B # {}
      OBVIOUS
    <3> HIDE DEF B
    <3> QED  BY <3>1, Minimal
  <2>2. CASE T = {}
    <3>1. [U \in {{}} |-> 0] \in [{{}} -> Int] /\ Adds(f, {{}}, [U \in {{}} |-> 0])
      BY DEF Adds
    <3>2. {{}} \in SUBSET SUBSET S
      OBVIOUS
    <3>3. Valued({})
      BY <3>1, <3>2 DEF Valued
    <3> QED  BY <2>2, <3>3
  <2>3. CASE T # {}
    <3>1. Valued(Least(T))
      <4>1. Least(T) \subseteq T /\ Least(T) # T
        BY <2>3, LeastSmaller
      <4>2. Least(T) \notin B
        BY <2>1, <4>1
      <4>3. Least(T) \in SUBSET S
        BY <4>1
      <4> QED  BY <4>2, <4>3
    <3>0. PICK D \in SUBSET SUBSET S : \E g \in [D -> Int] : Least(T) \in D /\ Adds(f, D, g)
      BY <3>1 DEF Valued
    <3>2. PICK g \in [D -> Int] : Least(T) \in D /\ Adds(f, D, g)
      BY <3>0
    <3> DEFINE E == D \cup {T}
               v == f[Pick(T)] + g[Least(T)]
               h == [U \in E |-> IF U = T THEN v ELSE g[U]]
    <3>3. v \in Int
      BY <2>3, <3>2, LeastSmaller
    <3> HIDE DEF v
    <3>4. h \in [E -> Int] /\ E \in SUBSET SUBSET S
      BY <3>2, <3>3
    <3>5. ASSUME NEW U \in E, U # {} PROVE Least(U) \in E /\ h[U] = f[Pick(U)] + h[Least(U)]
      <4>1. CASE U = T
        <5>1. Least(T) # T /\ Least(T) \in E
          BY <2>3, <3>2, LeastSmaller
        <5>2. h[U] = v /\ h[Least(T)] = g[Least(T)]
          BY <4>1, <5>1
        <5> QED  BY <4>1, <5>1, <5>2 DEF v
      <4>2. CASE U # T
        <5>1. Least(U) \in D /\ g[U] = f[Pick(U)] + g[Least(U)] /\ U \in D
          BY <3>2, <3>5, <4>2 DEF Adds
        <5>2. T \notin D
          BY <3>2 DEF Valued
        <5>3. h[U] = g[U] /\ h[Least(U)] = g[Least(U)]
          BY <4>2, <5>1, <5>2
        <5> QED  BY <5>1, <5>3
      <4> QED  BY <4>1, <4>2
    <3>6. ASSUME {} \in E PROVE h[{}] = 0
      BY <2>3, <3>2, <3>6 DEF Adds
    <3> HIDE DEF h, E
    <3>7. Adds(f, E, h)
      BY <3>5, <3>6 DEF Adds
    <3>8. T \in E
      BY DEF E
    <3> QED  BY <3>4, <3>7, <3>8 DEF Valued
  <2> QED  BY <2>2, <2>3
<1> DEFINE Is(T, v) == \E D \in SUBSET SUBSET S : \E g \in [D -> Int] : T \in D /\ Adds(f, D, g) /\ v = g[T]
           G == [T \in SUBSET S |-> CHOOSE v : Is(T, v)]
<1>2. ASSUME NEW D \in SUBSET SUBSET S, NEW g \in [D -> Int], Adds(f, D, g), NEW T \in D
      PROVE  G[T] = g[T]
  <2>1. Is(T, g[T])
    BY <1>2
  <2>2. Is(T, CHOOSE v : Is(T, v))
    <3> HIDE DEF Is
    <3> QED  BY <2>1
  <2>3. PICK E \in SUBSET SUBSET S : \E h \in [E -> Int] : T \in E /\ Adds(f, E, h) /\ (CHOOSE v : Is(T, v)) = h[T]
    BY <2>2
  <2>6. PICK h \in [E -> Int] : T \in E /\ Adds(f, E, h) /\ (CHOOSE v : Is(T, v)) = h[T]
    BY <2>3
  <2>4. g[T] = h[T]
    BY <1>2, <2>6, Agree
  <2>5. G[T] = CHOOSE v : Is(T, v)
    <3> HIDE DEF Is
    <3> QED  OBVIOUS
  <2> HIDE DEF G, Is
  <2> QED  BY <2>6, <2>4, <2>5
<1> HIDE DEF G, Is
<1>3. ASSUME NEW T \in SUBSET S
      PROVE  G[T] \in Int /\ IF T = {} THEN G[T] = 0 ELSE G[T] = f[Pick(T)] + G[Least(T)]
  <2>0. PICK D \in SUBSET SUBSET S : \E g \in [D -> Int] : T \in D /\ Adds(f, D, g)
    BY <1>1
  <2>1. PICK g \in [D -> Int] : T \in D /\ Adds(f, D, g)
    BY <2>0
  <2> HIDE DEF Valued
  <2>2. G[T] = g[T]
    BY <1>2, <2>1
  <2>3. T # {} => G[Least(T)] = g[Least(T)]
    BY <1>2, <2>1 DEF Adds
  <2> QED  BY <2>1, <2>2, <2>3 DEF Adds
<1>4. G \in [SUBSET S -> Int]
  <2>1. G = [T \in SUBSET S |-> G[T]]
    BY DEF G
  <2> QED  BY <1>3, <2>1
<1>5. Adds(f, SUBSET S, G)
  BY <1>3, LeastSmaller DEF Adds
<1> QED  BY <1>4, <1>5

\* The definition of the sum, and that it adds up.
LEMMA SumIs ==
  ASSUME NEW f, NEW S
  PROVE  SumFunctionOnSet(f, S) = (CHOOSE g : Rec(f, S, g))[S]
BY DEF SumFunctionOnSet, FoldFunctionOnSet, MapThenFoldSet, Pick, Rec

LEMMA SumAdds ==
  ASSUME NEW S, IsFiniteSet(S), NEW f, \A x \in S : f[x] \in Int
  PROVE  \E g \in [SUBSET S -> Int] : Adds(f, SUBSET S, g) /\ SumFunctionOnSet(f, S) = g[S]
<1>1. PICK h \in [SUBSET S -> Int] : Adds(f, SUBSET S, h)
  BY Total
<1>2. Rec(f, S, h)
  BY <1>1 DEF Adds, Rec, Least
<1> DEFINE g == CHOOSE g : Rec(f, S, g)
<1>3. Rec(f, S, g)
  BY <1>2
<1> HIDE DEF g
<1>4. Adds(f, SUBSET S, g)
  BY <1>3, LeastSmaller DEF Adds, Rec, Least
<1>5. \A T \in SUBSET S : g[T] = h[T]
  BY <1>1, <1>4, Agree
<1>6. g \in [SUBSET S -> Int]
  BY <1>1, <1>3, <1>5 DEF Rec
<1> QED  BY <1>4, <1>6, SumIs DEF g

\* A sum over nothing, and over a chosen element and the rest.
LEMMA SumStep ==
  ASSUME NEW S, IsFiniteSet(S), NEW f, \A x \in S : f[x] \in Int
  PROVE  /\ SumFunctionOnSet(f, S) \in Int
         /\ S = {} => SumFunctionOnSet(f, S) = 0
         /\ S # {} => SumFunctionOnSet(f, S) = f[Pick(S)] + SumFunctionOnSet(f, Least(S))
<1>1. PICK g \in [SUBSET S -> Int] : Adds(f, SUBSET S, g) /\ SumFunctionOnSet(f, S) = g[S]
  BY SumAdds
<1>2. ASSUME S # {} PROVE SumFunctionOnSet(f, Least(S)) = g[Least(S)]
  <2>1. Least(S) \subseteq S /\ IsFiniteSet(Least(S))
    BY <1>2, LeastSmaller, FS_Subset
  <2>2. PICK h \in [SUBSET Least(S) -> Int] :
          Adds(f, SUBSET Least(S), h) /\ SumFunctionOnSet(f, Least(S)) = h[Least(S)]
    BY <2>1, SumAdds
  <2>3. \A T \in (SUBSET S) \cap SUBSET Least(S) : g[T] = h[T]
    BY <1>1, <2>1, <2>2, Agree
  <2> QED  BY <2>1, <2>2, <2>3
<1> QED  BY <1>1, <1>2 DEF Adds

LEMMA SumIsInt ==
  ASSUME NEW S, IsFiniteSet(S), NEW f, \A x \in S : f[x] \in Int
  PROVE  SumFunctionOnSet(f, S) \in Int
BY SumStep

\* A sum depends on the terms only.
LEMMA SumSame ==
  ASSUME NEW S, IsFiniteSet(S), NEW f, NEW g, \A x \in S : f[x] \in Int /\ g[x] = f[x]
  PROVE  SumFunctionOnSet(f, S) = SumFunctionOnSet(g, S)
<1> DEFINE B == {T \in SUBSET S : SumFunctionOnSet(f, T) # SumFunctionOnSet(g, T)}
<1> SUFFICES ASSUME B # {} PROVE FALSE
  OBVIOUS
<1>1. PICK T \in B : \A U \in B : U \subseteq T => U = T
  <2>1. B \subseteq SUBSET S /\ B # {}
    OBVIOUS
  <2> HIDE DEF B
  <2> QED  BY <2>1, Minimal
<1>2. T \in SUBSET S /\ IsFiniteSet(T) /\ \A x \in T : f[x] \in Int /\ g[x] \in Int /\ g[x] = f[x]
  BY FS_Subset
<1>3. T # {}
  BY <1>1, <1>2, SumStep
<1>4. Least(T) \in SUBSET S /\ Least(T) \notin B /\ Pick(T) \in T
  BY <1>1, <1>2, <1>3, LeastSmaller
<1>5. SumFunctionOnSet(f, T) = f[Pick(T)] + SumFunctionOnSet(f, Least(T))
  BY <1>2, <1>3, SumStep
<1>6. SumFunctionOnSet(g, T) = g[Pick(T)] + SumFunctionOnSet(g, Least(T))
  BY <1>2, <1>3, SumStep
<1> QED  BY <1>1, <1>2, <1>4, <1>5, <1>6

\* Any term may be taken first.
LEMMA SumRemove ==
  ASSUME NEW S, IsFiniteSet(S), NEW f, \A x \in S : f[x] \in Int, NEW a \in S
  PROVE  SumFunctionOnSet(f, S) = f[a] + SumFunctionOnSet(f, S \ {a})
<1> DEFINE Removes(T) == \A x \in T : SumFunctionOnSet(f, T) = f[x] + SumFunctionOnSet(f, T \ {x})
           B == {T \in SUBSET S : ~Removes(T)}
<1> SUFFICES ASSUME B # {} PROVE FALSE
  OBVIOUS
<1>1. PICK T \in B : \A U \in B : U \subseteq T => U = T
  <2>1. B \subseteq SUBSET S /\ B # {}
    OBVIOUS
  <2> HIDE DEF B
  <2> QED  BY <2>1, Minimal
<1>2. PICK x \in T : SumFunctionOnSet(f, T) # f[x] + SumFunctionOnSet(f, T \ {x})
  OBVIOUS
<1> DEFINE p == Pick(T)
           R == T \ {x}
<1>3. T \in SUBSET S /\ IsFiniteSet(T) /\ T # {} /\ \A y \in T : f[y] \in Int
  BY FS_Subset
<1>4. p \in T /\ SumFunctionOnSet(f, T) = f[p] + SumFunctionOnSet(f, T \ {p})
  BY <1>3, SumStep, LeastSmaller DEF Least
<1>5. p # x
  BY <1>2, <1>4
<1>6. Removes(T \ {p}) /\ Removes(R)
  <2>1. T \ {p} \in SUBSET S /\ T \ {p} \subseteq T /\ T \ {p} # T
    BY <1>3, <1>4
  <2>2. R \in SUBSET S /\ R \subseteq T /\ R # T
    BY <1>2, <1>3
  <2> HIDE DEF Removes, p, R
  <2> QED  BY <1>1, <2>1, <2>2
<1>7. SumFunctionOnSet(f, T \ {p}) = f[x] + SumFunctionOnSet(f, (T \ {p}) \ {x})
  BY <1>2, <1>5, <1>6
<1>8. SumFunctionOnSet(f, R) = f[p] + SumFunctionOnSet(f, R \ {p})
  BY <1>4, <1>5, <1>6
<1>9. (T \ {p}) \ {x} = R \ {p}
  OBVIOUS
<1>10. SumFunctionOnSet(f, R \ {p}) \in Int
  <2>1. R \ {p} \subseteq T
    OBVIOUS
  <2> HIDE DEF R, p
  <2>2. IsFiniteSet(R \ {p}) /\ \A y \in R \ {p} : f[y] \in Int
    BY <1>3, <2>1, FS_Subset
  <2> QED  BY <2>2, SumIsInt
<1>11. f[x] \in Int /\ f[p] \in Int
  BY <1>2, <1>3, <1>4
<1>12. SumFunctionOnSet(f, T) # f[x] + SumFunctionOnSet(f, R)
  BY <1>2
<1>13. SumFunctionOnSet(f, T \ {p}) = f[x] + SumFunctionOnSet(f, R \ {p})
  BY <1>7, <1>9
<1>14. SumFunctionOnSet(f, T) = f[p] + (f[x] + SumFunctionOnSet(f, R \ {p}))
  BY <1>4, <1>13
<1> DEFINE r == SumFunctionOnSet(f, R \ {p})
<1> HIDE DEF p, R, r
<1>15. f[p] + (f[x] + r) = f[x] + (f[p] + r)
  BY <1>10, <1>11 DEF r
<1> QED  BY <1>8, <1>12, <1>14, <1>15 DEF r

LEMMA SumOfFunction ==
  ASSUME NEW f
  PROVE  SumFunction(f) = SumFunctionOnSet(f, DOMAIN f)
BY DEF SumFunction, SumFunctionOnSet, FoldFunction

\* Entry a of a function grows by d, and the others stay.
LEMMA SumChanges ==
  ASSUME NEW S, IsFiniteSet(S), NEW f \in [S -> Int], NEW g \in [S -> Int],
         NEW a \in S, NEW d \in Int, g[a] = f[a] + d, \A x \in S \ {a} : g[x] = f[x]
  PROVE  SumFunction(f) \in Int /\ SumFunction(g) = SumFunction(f) + d
<1>1. IsFiniteSet(S \ {a})
  BY FS_Subset
<1>2. SumFunctionOnSet(f, S \ {a}) = SumFunctionOnSet(g, S \ {a})
  BY <1>1, SumSame
<1>3. SumFunctionOnSet(f, S) = f[a] + SumFunctionOnSet(f, S \ {a})
  BY SumRemove
<1>4. SumFunctionOnSet(g, S) = g[a] + SumFunctionOnSet(g, S \ {a})
  BY SumRemove
<1>5. SumFunctionOnSet(f, S \ {a}) \in Int
  BY <1>1, SumIsInt
<1> QED  BY <1>2, <1>3, <1>4, <1>5, SumOfFunction

\* A function on 1..n is extended to n + 1.
LEMMA SumExtends ==
  ASSUME NEW n \in Nat, NEW f \in [1..n -> Int], NEW g \in [1..(n + 1) -> Int],
         \A i \in 1..n : g[i] = f[i]
  PROVE  SumFunction(f) \in Int /\ SumFunction(g) = SumFunction(f) + g[n + 1]
<1>1. IsFiniteSet(1..n) /\ IsFiniteSet(1..(n + 1))
  BY FS_Interval
<1>2. (1..(n + 1)) \ {n + 1} = 1..n /\ n + 1 \in 1..(n + 1)
  OBVIOUS
<1>3. SumFunctionOnSet(f, 1..n) = SumFunctionOnSet(g, 1..n)
  BY <1>1, SumSame
<1>4. SumFunctionOnSet(g, 1..(n + 1)) = g[n + 1] + SumFunctionOnSet(g, 1..n)
  BY <1>1, <1>2, SumRemove
<1>5. SumFunctionOnSet(f, 1..n) \in Int
  BY <1>1, SumIsInt
<1> QED  BY <1>3, <1>4, <1>5, SumOfFunction

\* The sum of nothing but zeros.
LEMMA SumOfZeros ==
  ASSUME NEW S, IsFiniteSet(S), NEW f, \A x \in S : f[x] = 0
  PROVE  SumFunctionOnSet(f, S) = 0
<1> DEFINE B == {T \in SUBSET S : SumFunctionOnSet(f, T) # 0}
<1> SUFFICES ASSUME B # {} PROVE FALSE
  OBVIOUS
<1>1. PICK T \in B : \A U \in B : U \subseteq T => U = T
  <2>1. B \subseteq SUBSET S /\ B # {}
    OBVIOUS
  <2> HIDE DEF B
  <2> QED  BY <2>1, Minimal
<1>2. T \in SUBSET S /\ IsFiniteSet(T) /\ \A x \in T : f[x] \in Int /\ f[x] = 0
  BY FS_Subset
<1>3. T # {}
  BY <1>1, <1>2, SumStep
<1>4. Least(T) \in SUBSET S /\ Least(T) \notin B /\ Pick(T) \in T
  BY <1>1, <1>2, <1>3, LeastSmaller
<1>5. SumFunctionOnSet(f, T) = f[Pick(T)] + SumFunctionOnSet(f, Least(T))
  BY <1>2, <1>3, SumStep
<1> QED  BY <1>1, <1>2, <1>4, <1>5

-----------------------------------------------------------------------------
(* The vault stays solvent.                                                *)

\* What a table of balances comes to, when one of them grows by d.
LEMMA OneBalanceChanges ==
  ASSUME NEW b \in [User -> Nat], NEW u \in User, NEW d \in Int,
         NEW c \in [User -> Nat], c[u] = b[u] + d, \A v \in User \ {u} : c[v] = b[v]
  PROVE  SumFunction(b) \in Int /\ SumFunction(c) = SumFunction(b) + d
<1>1. b \in [User -> Int] /\ c \in [User -> Int]
  OBVIOUS
<1> QED  BY <1>1, SumChanges, UserAssumption

LEMMA OneBalanceGrows ==
  ASSUME NEW b \in [User -> Nat], NEW u \in User, NEW amount \in Nat,
         NEW c \in [User -> Nat], c[u] = b[u] + amount, \A v \in User \ {u} : c[v] = b[v]
  PROVE  SumFunction(b) \in Int /\ SumFunction(c) = SumFunction(b) + amount
<1>1. amount \in Int
  OBVIOUS
<1> QED  BY <1>1, OneBalanceChanges

\* Settlement moves balances between users and changes no sum.
LEMMA ReassignedSum ==
  ASSUME NEW b \in [User -> Nat], NEW from \in User, NEW to \in User,
         NEW amount \in Nat, b[from] >= amount
  PROVE  SumFunction(Reassigned(b, from, to, amount)) = SumFunction(b)
<1> DEFINE c == [b EXCEPT ![from] = @ - amount]
           e == Reassigned(b, from, to, amount)
<1>1. c \in [User -> Nat] /\ c[from] = b[from] + (-amount) /\ \A v \in User \ {from} : c[v] = b[v]
  OBVIOUS
<1>2. e = [c EXCEPT ![to] = @ + amount]
  BY DEF Reassigned
<1>3. e \in [User -> Nat] /\ e[to] = c[to] + amount /\ \A v \in User \ {to} : e[v] = c[v]
  BY <1>1, <1>2
<1> HIDE DEF c, e
<1>4. -amount \in Int /\ amount \in Int
  OBVIOUS
<1>5. SumFunction(b) \in Int /\ SumFunction(c) = SumFunction(b) + (-amount)
  BY <1>1, <1>4, OneBalanceChanges
<1>6. SumFunction(e) = SumFunction(c) + amount
  BY <1>1, <1>3, OneBalanceGrows
<1>7. SumFunction(e) = SumFunction(b)
  BY <1>5, <1>6
<1> QED  BY <1>7 DEF e

\* Tokens sent to the vault or paid by it.
LEMMA VaultMoved ==
  ASSUME NEW b \in [Account -> Nat], NEW u \in User, NEW amount \in Nat
  PROVE  /\ Moved(b, u, Vault, amount)[Vault] = b[Vault] + amount
         /\ Moved(b, Vault, u, amount)[Vault] = b[Vault] - amount
         /\ \A a \in Account : Moved(b, u, a, amount)[Vault] >= b[Vault]
<1>1. u # Vault /\ Vault \in Account /\ u \in Account
  BY VaultAssumption DEF Account
<1> QED  BY <1>1 DEF Moved

LEMMA DepositSolvent ==
  ASSUME TypeOK, Solvency, NEW u \in User, NEW t \in Token, NEW amount \in Amount,
         Deposit(u, t, amount)
  PROVE  Solvency'
<1>1. amount \in Nat /\ tokens[t] \in [Account -> Nat] /\ balances[t] \in [User -> Nat]
  BY AmountAssumption DEF Amount, TypeOK
<1>2. /\ tokens' = [tokens EXCEPT ![t] = Moved(tokens[t], u, Vault, amount)]
      /\ balances' = [balances EXCEPT ![t] = [balances[t] EXCEPT ![u] = @ + amount]]
      /\ tx' = NoTx
  BY DEF Deposit, TypeOK
<1> DEFINE c == [balances[t] EXCEPT ![u] = @ + amount]
<1>3. c \in [User -> Nat] /\ c[u] = balances[t][u] + amount
      /\ \A v \in User \ {u} : c[v] = balances[t][v]
  BY <1>1
<1>4. balances'[t] = c /\ tokens'[t][Vault] = tokens[t][Vault] + amount
  BY <1>1, <1>2, VaultMoved DEF TypeOK
<1> HIDE DEF c
<1>5. SumFunction(balances[t]) \in Int /\ SumFunction(c) = SumFunction(balances[t]) + amount
  BY <1>1, <1>3, OneBalanceGrows
<1>6. tokens[t][Vault] \in Nat /\ SumFunction(balances[t]) <= tokens[t][Vault]
  BY <1>1 DEF Solvency, Account
<1>7. SumFunction(balances'[t]) <= tokens'[t][Vault]
  BY <1>1, <1>4, <1>5, <1>6
<1>8. \A s \in Token \ {t} : balances'[s] = balances[s] /\ tokens'[s] = tokens[s]
  BY <1>2 DEF TypeOK
<1> QED  BY <1>2, <1>7, <1>8 DEF Solvency

LEMMA WithdrawSolvent ==
  ASSUME TypeOK, Solvency, NEW u \in User, NEW t \in Token, NEW amount \in Amount,
         Withdraw(u, t, amount)
  PROVE  Solvency'
<1>1. amount \in Nat /\ tokens[t] \in [Account -> Nat] /\ balances[t] \in [User -> Nat]
  BY AmountAssumption DEF Amount, TypeOK
<1>2. /\ tokens' = [tokens EXCEPT ![t] = Moved(tokens[t], Vault, u, amount)]
      /\ balances' = [balances EXCEPT ![t] = [balances[t] EXCEPT ![u] = @ - amount]]
      /\ tx' = NoTx /\ balances[t][u] >= amount
  BY DEF Withdraw, Affords, TypeOK
<1> DEFINE c == [balances[t] EXCEPT ![u] = @ - amount]
<1>3. c \in [User -> Nat] /\ c[u] = balances[t][u] + (-amount)
      /\ \A v \in User \ {u} : c[v] = balances[t][v]
  BY <1>1, <1>2
<1>4. balances'[t] = c /\ tokens'[t][Vault] = tokens[t][Vault] - amount
  BY <1>1, <1>2, VaultMoved DEF TypeOK
<1> HIDE DEF c
<1>5. SumFunction(balances[t]) \in Int /\ SumFunction(c) = SumFunction(balances[t]) + (-amount)
  <2>1. -amount \in Int
    BY <1>1
  <2> QED  BY <1>1, <1>3, <2>1, OneBalanceChanges
<1>6. tokens[t][Vault] \in Nat /\ SumFunction(balances[t]) <= tokens[t][Vault]
  BY <1>1 DEF Solvency, Account
<1>7. SumFunction(balances'[t]) <= tokens'[t][Vault]
  BY <1>1, <1>4, <1>5, <1>6
<1>8. \A s \in Token \ {t} : balances'[s] = balances[s] /\ tokens'[s] = tokens[s]
  BY <1>2 DEF TypeOK
<1> QED  BY <1>2, <1>7, <1>8 DEF Solvency

\* Tokens that reach the vault by other ways only add to what it owns.
LEMMA TokensSolvent ==
  ASSUME TypeOK, Solvency, UNCHANGED <<balances, tx>>, tx = NoTx,
         \A t \in Token : tokens'[t][Vault] \in Nat /\ tokens'[t][Vault] >= tokens[t][Vault]
  PROVE  Solvency'
<1>1. ASSUME NEW t \in Token PROVE SumFunction(balances[t]) <= tokens'[t][Vault]
  <2>1. SumFunction(balances[t]) <= tokens[t][Vault] /\ tokens[t][Vault] \in Nat
    BY DEF Solvency, TypeOK, Account
  <2>2. SumFunction(balances[t]) \in Int
    <3>1. DOMAIN balances[t] = User /\ \A u \in User : balances[t][u] \in Int
      BY DEF TypeOK
    <3> QED  BY <3>1, SumOfFunction, SumIsInt, UserAssumption
  <2> QED  BY <2>1, <2>2
<1> QED  BY <1>1 DEF Solvency

LEMMA TransferTokenSolvent ==
  ASSUME TypeOK, Solvency, NEW u \in User, NEW a \in Account, NEW t \in Token,
         NEW amount \in Amount, TransferToken(u, a, t, amount)
  PROVE  Solvency'
<1>1. amount \in Nat /\ tokens[t] \in [Account -> Nat]
  BY AmountAssumption DEF Amount, TypeOK
<1>2. Moved(tokens[t], u, a, amount)[Vault] >= tokens[t][Vault]
  BY <1>1, VaultMoved
<1>3. tokens' = [tokens EXCEPT ![t] = Moved(tokens[t], u, a, amount)]
  BY DEF TransferToken
<1>4. TypeOK'
  BY TransferTokenType
<1>5. \A s \in Token : tokens'[s][Vault] \in Nat /\ tokens[s][Vault] \in Nat
  <2>1. Vault \in Account
    BY DEF Account
  <2>2. tokens \in [Token -> [Account -> Nat]] /\ tokens' \in [Token -> [Account -> Nat]]
    BY <1>4 DEF TypeOK
  <2> QED  BY <2>1, <2>2
<1>6. \A s \in Token : tokens'[s][Vault] >= tokens[s][Vault]
  BY <1>2, <1>3, <1>5 DEF TypeOK
<1> QED  BY <1>5, <1>6, TokensSolvent DEF TransferToken

LEMMA MintSolvent ==
  ASSUME TypeOK, Solvency, NEW u \in User, NEW t \in Token, NEW amount \in Amount,
         Mint(u, t, amount)
  PROVE  Solvency'
<1>1. u # Vault
  BY VaultAssumption
<1>2. TypeOK'
  BY MintType
<1>3. \A s \in Token : tokens'[s][Vault] \in Nat /\ tokens'[s][Vault] = tokens[s][Vault]
  BY <1>1, <1>2 DEF Mint, TypeOK, Account
<1> QED  BY <1>3, TokensSolvent DEF Mint

LEMMA SettleSolvent ==
  ASSUME TypeOK, Solvency, NEW id \in TradeId, NEW buyer \in User,
         NEW seller \in User, NEW amount \in Amount,
         SettleNext(id, buyer, seller, amount)
  PROVE  Solvency'
<1>1. tx \in Run /\ tx # NoTx /\ amount \in Nat
  BY AmountAssumption DEF TypeOK, SettleNext, Run, Balances, Amount
<1>2. SumFunction(Reassigned(tx.balances, buyer, seller, amount)) = SumFunction(tx.balances)
  BY <1>1, ReassignedSum DEF SettleNext, Affords, Run, Balances
<1>3. /\ tx'.token = tx.token
      /\ tx'.balances = Reassigned(tx.balances, buyer, seller, amount)
      /\ UNCHANGED <<tokens, balances>>
  BY DEF SettleNext
<1> QED  BY <1>1, <1>2, <1>3 DEF Solvency

LEMMA CommitSolvent ==
  ASSUME TypeOK, Solvency, Commit
  PROVE  Solvency'
<1>1. tx \in Run /\ tx' = NoTx /\ tx # NoTx /\ UNCHANGED tokens
  BY DEF TypeOK, Commit, Run, Balances
<1>2. \A t \in Token : balances'[t] = IF t = tx.token THEN tx.balances ELSE balances[t]
  BY DEF Commit, TypeOK
<1> QED  BY <1>1, <1>2 DEF Solvency

LEMMA NextSolvent ==
  ASSUME TypeOK, Solvency, [Next]_vars
  PROVE  Solvency'
<1>1. CASE \E u \in User, t \in Token, amount \in Amount :
             \/ Deposit(u, t, amount)
             \/ Withdraw(u, t, amount)
             \/ Mint(u, t, amount)
             \/ \E a \in Account : TransferToken(u, a, t, amount)
  BY <1>1, DepositSolvent, WithdrawSolvent, MintSolvent, TransferTokenSolvent
<1>2. CASE \E o \in Operator, t \in Token : SettleTrades(o, t)
  <2>1. PICK t \in Token : /\ UNCHANGED <<tokens, balances>>
                           /\ tx'.token = t /\ tx'.balances = balances[t]
    BY <1>2 DEF SettleTrades
  <2> QED  BY <2>1 DEF Solvency
<1>3. CASE \E id \in TradeId, buyer, seller \in User, amount \in Amount :
             SettleNext(id, buyer, seller, amount)
  BY <1>3, SettleSolvent
<1>4. CASE Commit
  BY <1>4, CommitSolvent
<1>5. CASE Revert
  BY <1>5 DEF Revert, Solvency
<1>6. CASE UNCHANGED <<tokens, balances, tx>>
  BY <1>6 DEF Solvency
<1>7. CASE \E o \in Operator : SetSettlementOperator(o)
  BY <1>6, <1>7 DEF SetSettlementOperator
<1> QED
  BY <1>1, <1>2, <1>3, <1>4, <1>5, <1>6, <1>7 DEF Next, vars

\* The vault owns what it owes, whoever trades and however many they are
\* (Vault.sol): no deposit, withdrawal or batch, committed, reverted or under
\* way, makes the balances of a token exceed the tokens of the vault.
THEOREM VaultSolvent == Spec => []Solvency
<1>1. Init => Solvency
  <2> SUFFICES ASSUME Init PROVE Solvency
    OBVIOUS
  <2>1. ASSUME NEW t \in Token PROVE SumFunction(balances[t]) <= tokens[t][Vault]
    <3>1. tokens[t][Vault] = 0 /\ DOMAIN balances[t] = User /\ \A u \in User : balances[t][u] = 0
      BY DEF Init, Account
    <3>2. SumFunction(balances[t]) = 0
      BY <3>1, SumOfFunction, SumOfZeros, UserAssumption
    <3> QED  BY <3>1, <3>2
  <2>2. tx = NoTx
    BY DEF Init
  <2> QED  BY <2>1, <2>2 DEF Solvency
<1>2. TypeOK /\ Solvency /\ [Next]_vars => Solvency'
  BY NextSolvent
<1> QED
  BY <1>1, <1>2, ContractsTypeCorrect, PTL DEF Spec

-----------------------------------------------------------------------------
(* Balances are explained by deposits, withdrawals and settled transfers.  *)

\* What one transfer adds to the balance of u, in token t.
Gain(e, t, u) ==
  IF e.token # t THEN 0
  ELSE (IF e.seller = u THEN e.amount ELSE 0) - (IF e.buyer = u THEN e.amount ELSE 0)

LEMMA GainIsInt ==
  ASSUME NEW e \in Transfer, NEW t, NEW u
  PROVE  Gain(e, t, u) \in Int
<1>1. e.amount \in Int
  BY AmountAssumption DEF Transfer, Amount
<1> QED  BY <1>1 DEF Gain

\* A ledger explains what it did before, and its last transfer.
LEMMA GainedAppend ==
  ASSUME NEW s \in Seq(Transfer), NEW e \in Transfer, NEW t, NEW u
  PROVE  /\ Gained(s, t, u) \in Int
         /\ Gained(Append(s, e), t, u) = Gained(s, t, u) + Gain(e, t, u)
<1> DEFINE n == Len(s)
           r == Append(s, e)
           f == [i \in DOMAIN s |-> Gain(s[i], t, u)]
           g == [i \in DOMAIN r |-> Gain(r[i], t, u)]
<1>1. /\ n \in Nat /\ DOMAIN s = 1..n /\ DOMAIN r = 1..(n + 1)
      /\ r[n + 1] = e /\ \A i \in 1..n : r[i] = s[i]
      /\ \A i \in 1..n : s[i] \in Transfer
  OBVIOUS
<1>2. Gained(s, t, u) = SumFunction(f) /\ Gained(r, t, u) = SumFunction(g)
  BY DEF Gained, Gain
<1> HIDE DEF n, r
<1>3. f \in [1..n -> Int]
  BY <1>1, GainIsInt
<1>4. \A i \in 1..(n + 1) : r[i] \in Transfer
  <2>1. \A i \in 1..(n + 1) : i \in 1..n \/ i = n + 1
    BY <1>1
  <2> QED  BY <1>1, <2>1
<1>5. g \in [1..(n + 1) -> Int]
  BY <1>1, <1>4, GainIsInt
<1>6. g[n + 1] = Gain(e, t, u) /\ \A i \in 1..n : g[i] = f[i]
  <2>1. n + 1 \in 1..(n + 1) /\ 1..n \subseteq 1..(n + 1)
    BY <1>1
  <2> QED  BY <1>1, <2>1
<1> HIDE DEF f, g
<1>7. SumFunction(f) \in Int /\ SumFunction(g) = SumFunction(f) + g[n + 1]
  BY <1>1, <1>3, <1>5, <1>6, SumExtends
<1> QED  BY <1>2, <1>6, <1>7 DEF r

LEMMA GainedType ==
  ASSUME NEW s \in Seq(Transfer), NEW t, NEW u
  PROVE  Gained(s, t, u) \in Int
<1> DEFINE f == [i \in DOMAIN s |-> Gain(s[i], t, u)]
<1>1. DOMAIN s = 1..Len(s) /\ Len(s) \in Nat /\ \A i \in DOMAIN s : s[i] \in Transfer
  OBVIOUS
<1>2. \A i \in 1..Len(s) : f[i] \in Int
  BY <1>1, GainIsInt
<1>3. DOMAIN f = 1..Len(s) /\ Gained(s, t, u) = SumFunction(f)
  BY <1>1 DEF Gained, Gain
<1>4. IsFiniteSet(1..Len(s))
  BY <1>1, FS_Interval
<1> HIDE DEF f
<1> QED  BY <1>2, <1>3, <1>4, SumOfFunction, SumIsInt

LEMMA NothingGained ==
  ASSUME NEW t, NEW u
  PROVE  Gained(<<>>, t, u) = 0
<1> DEFINE f == [i \in DOMAIN <<>> |-> Gain(<<>>[i], t, u)]
<1>1. DOMAIN f = {} /\ Gained(<<>>, t, u) = SumFunction(f)
  BY DEF Gained, Gain
<1> HIDE DEF f
<1> QED  BY <1>1, SumOfFunction, SumOfZeros, FS_EmptySet

\* What balances the contracts work on: settleTrades on its own copy of one
\* token's, which Commit publishes.
Working(t) == IF t = tx.token THEN tx.balances ELSE balances[t]

\* The balances under way are explained by the ledger and the batch so far.
RunExplained ==
  tx # NoTx =>
    \A t \in Token, u \in User :
      Working(t)[u] = net[t][u] + Gained(ledger \o tx.batch, t, u)

Explained == BalancesExplained /\ RunExplained

LEMMA FundsExplained ==
  ASSUME TypeOK, Explained, NEW u \in User, NEW t \in Token, NEW d \in Int,
         tx = NoTx, UNCHANGED <<tx, ledger>>,
         balances' = [balances EXCEPT ![t][u] = @ + d],
         net' = [net EXCEPT ![t][u] = @ + d]
  PROVE  Explained'
<1>1. ASSUME NEW s \in Token, NEW v \in User
      PROVE  balances'[s][v] = net'[s][v] + Gained(ledger, s, v)
  <2>1. balances[s][v] = net[s][v] + Gained(ledger, s, v)
    BY DEF Explained, BalancesExplained
  <2>2. balances[s][v] \in Int /\ net[s][v] \in Int
    BY DEF TypeOK
  <2>3. Gained(ledger, s, v) \in Int
    BY GainedType DEF TypeOK
  <2>4. CASE s = t /\ v = u
    <3>1. balances'[s][v] = balances[s][v] + d /\ net'[s][v] = net[s][v] + d
      BY <2>4 DEF TypeOK
    <3> QED  BY <2>1, <2>2, <2>3, <3>1
  <2>5. CASE ~(s = t /\ v = u)
    <3>1. balances'[s][v] = balances[s][v] /\ net'[s][v] = net[s][v]
      BY <2>5 DEF TypeOK
    <3> QED  BY <2>1, <3>1
  <2> QED  BY <2>4, <2>5
<1> QED  BY <1>1 DEF Explained, BalancesExplained, RunExplained, Gained

LEMMA SettleExplained ==
  ASSUME TypeOK, Explained, NEW id \in TradeId, NEW buyer \in User,
         NEW seller \in User, NEW amount \in Amount,
         SettleNext(id, buyer, seller, amount)
  PROVE  Explained'
<1> DEFINE move == [id |-> id, token |-> tx.token, buyer |-> buyer,
                    seller |-> seller, amount |-> amount]
           l == ledger \o tx.batch
           l2 == ledger \o Append(tx.batch, move)
<1>1. /\ tx \in Run /\ tx # NoTx /\ amount \in Nat
      /\ ledger \in Seq(Transfer) /\ tx.batch \in Seq(Transfer)
      /\ tx.balances \in [User -> Nat]
  BY AmountAssumption DEF TypeOK, SettleNext, Run, Balances, Amount
<1>2. move \in Transfer
  BY <1>1 DEF Transfer, Run
<1>3. l \in Seq(Transfer)
  BY <1>1
<1>4. l2 = Append(l, move)
  <2>1. \A s, t \in Seq(Transfer), e \in Transfer :
          Append(s \o t, e) = s \o Append(t, e)
    BY AppendToConcat
  <2> HIDE DEF move
  <2> QED  BY <1>1, <1>2, <2>1
<1>5. /\ tx'.token = tx.token /\ tx'.batch = Append(tx.batch, move)
      /\ tx'.balances = Reassigned(tx.balances, buyer, seller, amount)
      /\ UNCHANGED <<balances, ledger, net>>
  BY DEF SettleNext
<1>6. ASSUME NEW t \in Token, NEW u \in User
      PROVE  Working(t)'[u] = net[t][u] + Gained(l2, t, u)
  <2>1. Working(t)[u] = net[t][u] + Gained(l, t, u)
    BY <1>1 DEF Explained, RunExplained
  <2>2. Gained(l, t, u) \in Int /\ Gained(l2, t, u) = Gained(l, t, u) + Gain(move, t, u)
    <3> HIDE DEF l, move, l2
    <3> QED  BY <1>2, <1>3, <1>4, GainedAppend
  <2>3. Working(t)'[u] = Working(t)[u] + Gain(move, t, u)
    <3>1. CASE t = tx.token
      <4>1. Working(t)'[u] = Reassigned(tx.balances, buyer, seller, amount)[u]
            /\ Working(t)[u] = tx.balances[u]
        BY <1>5, <3>1 DEF Working
      <4>2. Gain(move, t, u) = (IF seller = u THEN amount ELSE 0) - (IF buyer = u THEN amount ELSE 0)
        BY <3>1 DEF Gain
      <4>3. Reassigned(tx.balances, buyer, seller, amount)[u]
              = tx.balances[u] + ((IF seller = u THEN amount ELSE 0)
                                  - (IF buyer = u THEN amount ELSE 0))
        <5> DEFINE c == [tx.balances EXCEPT ![buyer] = @ - amount]
        <5>1. c \in [User -> Int]
          BY <1>1
        <5>2. c[u] = tx.balances[u] - (IF buyer = u THEN amount ELSE 0)
          BY <1>1
        <5>3. Reassigned(tx.balances, buyer, seller, amount) = [c EXCEPT ![seller] = @ + amount]
          BY DEF Reassigned
        <5> HIDE DEF c
        <5>4. Reassigned(tx.balances, buyer, seller, amount)[u]
                = c[u] + (IF seller = u THEN amount ELSE 0)
          BY <1>1, <5>1, <5>3
        <5>5. tx.balances[u] \in Int
          BY <1>1
        <5> QED  BY <1>1, <5>2, <5>4, <5>5
      <4> QED  BY <4>1, <4>2, <4>3
    <3>2. CASE t # tx.token
      <4>1. Working(t)' = balances[t] /\ Working(t) = balances[t] /\ Gain(move, t, u) = 0
        BY <1>5, <3>2 DEF Working, Gain
      <4>2. balances[t][u] \in Int
        BY DEF TypeOK
      <4> QED  BY <4>1, <4>2
    <3> QED  BY <3>1, <3>2
  <2>4. net[t][u] \in Int /\ Gain(move, t, u) \in Int
    <3> HIDE DEF move
    <3> QED  BY <1>2, GainIsInt DEF TypeOK
  <2> HIDE DEF l, l2, move
  <2> QED  BY <2>1, <2>2, <2>3, <2>4
<1>7. ASSUME NEW t \in Token, NEW u \in User
      PROVE  Working(t)'[u] = net'[t][u] + Gained((ledger \o tx.batch)', t, u)
  <2>1. (ledger \o tx.batch)' = l2 /\ net' = net
    BY <1>5
  <2> HIDE DEF l2
  <2> QED  BY <1>6, <2>1
<1>8. RunExplained'
  BY <1>7 DEF RunExplained, Gained
<1>9. BalancesExplained'
  BY <1>5 DEF Explained, BalancesExplained, Gained
<1> QED  BY <1>8, <1>9 DEF Explained

LEMMA CommitExplained ==
  ASSUME TypeOK, Explained, Commit
  PROVE  Explained'
<1>1. /\ tx # NoTx /\ tx' = NoTx /\ UNCHANGED net
      /\ ledger' = ledger \o tx.batch
  BY DEF Commit
<1>2. \A t \in Token : balances'[t] = Working(t)
  BY DEF Commit, TypeOK, Working
<1>3. \A t \in Token, u \in User :
        balances'[t][u] = net'[t][u] + Gained(ledger', t, u)
  BY <1>1, <1>2 DEF Explained, RunExplained
<1> QED  BY <1>1, <1>3 DEF Explained, BalancesExplained, RunExplained, Gained

LEMMA NextExplained ==
  ASSUME TypeOK, Explained, [Next]_vars
  PROVE  Explained'
<1>1. ASSUME NEW u \in User, NEW t \in Token, NEW amount \in Amount,
             Deposit(u, t, amount) \/ Withdraw(u, t, amount)
      PROVE  Explained'
  <2>1. amount \in Nat
    BY AmountAssumption DEF Amount
  <2>2. CASE Deposit(u, t, amount)
    <3>1. amount \in Int
      BY <2>1
    <3> QED  BY <2>2, <3>1, FundsExplained DEF Deposit
  <2>3. CASE Withdraw(u, t, amount)
    <3>1. -amount \in Int
      BY <2>1
    <3>2. balances[t][u] - amount = balances[t][u] + (-amount)
          /\ net[t][u] - amount = net[t][u] + (-amount)
      BY <2>1 DEF TypeOK
    <3>3. /\ balances' = [balances EXCEPT ![t][u] = @ + (-amount)]
          /\ net' = [net EXCEPT ![t][u] = @ + (-amount)]
          /\ tx = NoTx /\ UNCHANGED <<tx, ledger>>
      BY <2>3, <3>2 DEF Withdraw, TypeOK
    <3> QED  BY <3>1, <3>3, FundsExplained
  <2> QED  BY <1>1, <2>2, <2>3
<1>2. CASE \E o \in Operator, t \in Token : SettleTrades(o, t)
  <2>1. PICK t \in Token : /\ UNCHANGED <<balances, ledger, net>>
                           /\ tx'.token = t /\ tx'.balances = balances[t]
                           /\ tx'.batch = <<>>
    BY <1>2 DEF SettleTrades
  <2>2. ledger \o <<>> = ledger
    BY DEF TypeOK
  <2>3. \A s \in Token : Working(s)' = balances[s]
    BY <2>1 DEF Working
  <2>4. \A s \in Token, u \in User :
          Working(s)'[u] = net[s][u] + Gained(ledger \o <<>>, s, u)
    BY <2>2, <2>3 DEF Explained, BalancesExplained
  <2> QED  BY <2>1, <2>4 DEF Explained, BalancesExplained, RunExplained, Gained
<1>3. CASE \E id \in TradeId, buyer, seller \in User, amount \in Amount :
             SettleNext(id, buyer, seller, amount)
  BY <1>3, SettleExplained
<1>4. CASE Commit
  BY <1>4, CommitExplained
<1>5. CASE Revert
  BY <1>5 DEF Revert, Explained, BalancesExplained, RunExplained, Gained
<1>6. CASE UNCHANGED <<balances, tx, ledger, net>>
  BY <1>6 DEF Explained, BalancesExplained, RunExplained, Working, Gained
<1>7. CASE \E u \in User, t \in Token, amount \in Amount :
             Mint(u, t, amount) \/ \E a \in Account : TransferToken(u, a, t, amount)
  BY <1>6, <1>7 DEF Mint, TransferToken
<1>8. CASE \E o \in Operator : SetSettlementOperator(o)
  BY <1>6, <1>8 DEF SetSettlementOperator
<1> QED
  BY <1>1, <1>2, <1>3, <1>4, <1>5, <1>6, <1>7, <1>8 DEF Next, vars

\* Every balance is what its owner deposited, less what it withdrew, plus what
\* it was paid, less what it paid, in trades that were committed: a batch that
\* reverts half-way leaves no trace (Settlement.sol settleTrades), and neither
\* the token nor the partner of a trade is ever mistaken.
THEOREM BalancesAccountedFor == Spec => []BalancesExplained
<1>1. Init => Explained
  <2> SUFFICES ASSUME Init PROVE Explained
    OBVIOUS
  <2>1. \A t \in Token, u \in User : balances[t][u] = 0 /\ net[t][u] = 0
    BY DEF Init
  <2>2. ledger = <<>> /\ tx = NoTx
    BY DEF Init
  <2>3. \A t \in Token, u \in User : balances[t][u] = net[t][u] + Gained(ledger, t, u)
    BY <2>1, <2>2, NothingGained
  <2> QED  BY <2>2, <2>3 DEF Explained, BalancesExplained, RunExplained
<1>2. TypeOK /\ Explained /\ [Next]_vars => Explained'
  BY NextExplained
<1>3. Explained => BalancesExplained
  BY DEF Explained
<1> QED
  BY <1>1, <1>2, <1>3, ContractsTypeCorrect, PTL DEF Spec
=============================================================================
