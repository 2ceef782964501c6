\* Two users, two tokens, two trade ids; two of each token are minted.
SPECIFICATION Spec
CONSTANTS
  u1 = u1
  u2 = u2
  g = g
  q = q
  t1 = t1
  t2 = t2
  o1 = o1
  o2 = o2
  User <- MCUser
  Vault = Vault
  Token <- MCToken
  TradeId <- MCTradeId
  Operator <- MCOperator
  NoAddress = NoAddress
  Supply = 2
  MaxAmount = 2
  NoTx = NoTx
SYMMETRY ChainSymmetry
INVARIANTS
  TypeOK
  Solvency
  SettledOnce
  BalancesExplained
