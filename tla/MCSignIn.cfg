SPECIFICATION Spec
CONSTANTS
  p = p
  q = q
  a = a
  b = b
  f1 = f1
  f2 = f2
  f3 = f3
  Tab = {p, q}
  Wallet = {a, b}
  Flow = {f1, f2, f3}
  NoWallet = NoWallet
  NoTab = NoTab
  NoFlow = NoFlow
SYMMETRY Symmetry
INVARIANTS TypeOK OrdersOwned SignedOut
