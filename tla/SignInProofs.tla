---------------------------- MODULE SignInProofs ----------------------------
(***************************************************************************)
(* What TLAPS proves of SignIn, for any number of pages, flows and         *)
(* accounts.  Neither property is inductive: both need to know what a flow *)
(* that has read its signer may still do, which is FlowInv.                *)
(***************************************************************************)
EXTENDS SignIn, TLAPS

\* The flow that stored the token has ended.  A page has a signer exactly when it
\* has a wallet.  A flow that is signing, and was not overtaken, belongs to a page
\* that is connected, and can only log in to the wallet of that page, or to the
\* other account of its signer.
FlowInv ==
  /\ auth_token # NoWallet => pc[issuer] = "done"
  /\ \A t \in Tab : wallet[t] = NoWallet <=> signer[t] = NoWallet
  /\ \A f \in Flow \ overtaken :
       pc[f] \in {"sign", "login"} =>
         /\ wallet[tab[f]] # NoWallet
         /\ Verified(f) => \/ address[f] = wallet[tab[f]]
                           \/ signer[tab[f]] # wallet[tab[f]]

-----------------------------------------------------------------------------
\* Every variable keeps its type: a signing flow has an account to sign for.
THEOREM SignInTypeCorrect == Spec => []TypeOK
<1>1. Init => TypeOK
  BY NullAssumption DEF Init, TypeOK, Null
<1>2. TypeOK /\ [Next]_vars => TypeOK'
  <2> SUFFICES ASSUME TypeOK, [Next]_vars PROVE TypeOK'
    OBVIOUS
  <2> USE NullAssumption DEF TypeOK, Null, store, flows, history, To
  <2>1. ASSUME NEW f \in Flow, NEW t \in Tab, Click(f, t) PROVE TypeOK'
    BY <2>1 DEF Click
  <2>2. ASSUME NEW f \in Flow, Accounts(f) PROVE TypeOK'
    BY <2>2 DEF Accounts
  <2>3. ASSUME NEW f \in Flow, Connect(f) PROVE TypeOK'
    BY <2>3 DEF Connect, Signing
  <2>4. ASSUME NEW f \in Flow, Decline(f) PROVE TypeOK'
    BY <2>4 DEF Decline
  <2>5. ASSUME NEW f \in Flow, Nonce(f) PROVE TypeOK'
    BY <2>5 DEF Nonce, HasSigner, SignerFor
  <2>6. ASSUME NEW f \in Flow, Sign(f) PROVE TypeOK'
    BY <2>6 DEF Sign
  <2>7. ASSUME NEW f \in Flow, Login(f) PROVE TypeOK'
    BY <2>7 DEF Login
  <2>8. ASSUME NEW f \in Flow, Fail(f) PROVE TypeOK'
    BY <2>8 DEF Fail
  <2>9. ASSUME NEW t \in Tab, Disconnect(t) PROVE TypeOK'
    BY <2>9 DEF Disconnect, Signing
  <2>10. ASSUME NEW t \in Tab, Reload(t) PROVE TypeOK'
    BY <2>10 DEF Reload
  <2>11. CASE SwitchAccount
    BY <2>11 DEF SwitchAccount
  <2>12. CASE UNCHANGED vars
    BY <2>12 DEF vars
  <2> QED
    BY <2>1, <2>2, <2>3, <2>4, <2>5, <2>6, <2>7, <2>8, <2>9, <2>10, <2>11, <2>12
       DEF Next
<1> QED
  BY <1>1, <1>2, PTL DEF Spec

\* What a flow that has read its signer may still do.
LEMMA FlowsBound == Spec => []FlowInv
<1>1. Init => FlowInv
  BY DEF Init, FlowInv
<1>2. TypeOK /\ FlowInv /\ [Next]_vars => FlowInv'
  <2> SUFFICES ASSUME TypeOK, FlowInv, [Next]_vars PROVE FlowInv'
    OBVIOUS
  <2> USE NullAssumption DEF TypeOK, Null, FlowInv, Verified, store, flows, history, To
  <2>1. ASSUME NEW f \in Flow, NEW t \in Tab, Click(f, t) PROVE FlowInv'
    BY <2>1 DEF Click
  <2>2. ASSUME NEW f \in Flow, Accounts(f) PROVE FlowInv'
    BY <2>2 DEF Accounts
  <2>3. ASSUME NEW f \in Flow, Connect(f) PROVE FlowInv'
    BY <2>3 DEF Connect, Signing
  <2>4. ASSUME NEW f \in Flow, Decline(f) PROVE FlowInv'
    BY <2>4 DEF Decline
  <2>5. ASSUME NEW f \in Flow, Nonce(f) PROVE FlowInv'
    BY <2>5 DEF Nonce, HasSigner, SignerFor
  <2>6. ASSUME NEW f \in Flow, Sign(f) PROVE FlowInv'
    BY <2>6 DEF Sign
  <2>7. ASSUME NEW f \in Flow, Login(f) PROVE FlowInv'
    BY <2>7 DEF Login
  <2>8. ASSUME NEW f \in Flow, Fail(f) PROVE FlowInv'
    BY <2>8 DEF Fail
  <2>9. ASSUME NEW t \in Tab, Disconnect(t) PROVE FlowInv'
    BY <2>9 DEF Disconnect, Signing
  <2>10. ASSUME NEW t \in Tab, Reload(t) PROVE FlowInv'
    BY <2>10 DEF Reload
  <2>11. CASE SwitchAccount
    BY <2>11 DEF SwitchAccount
  <2>12. CASE UNCHANGED vars
    BY <2>12 DEF vars
  <2> QED
    BY <2>1, <2>2, <2>3, <2>4, <2>5, <2>6, <2>7, <2>8, <2>9, <2>10, <2>11, <2>12
       DEF Next
<1> QED
  BY <1>1, <1>2, SignInTypeCorrect, PTL DEF Spec

-----------------------------------------------------------------------------
\* However flows, pages and accounts interleave, an order is placed for the
\* wallet that the page shows, but for the four cases that OrdersOwned names.
THEOREM OrdersGoToTheWalletShown == Spec => []OrdersOwned
<1>1. Init => OrdersOwned
  BY DEF Init, OrdersOwned, Submits
<1>2. TypeOK /\ FlowInv /\ OrdersOwned /\ [Next]_vars => OrdersOwned'
  <2> SUFFICES ASSUME TypeOK, FlowInv, OrdersOwned, [Next]_vars PROVE OrdersOwned'
    OBVIOUS
  <2> USE NullAssumption DEF TypeOK, Null, OrdersOwned, Submits, store, flows, history, To
  <2>1. ASSUME NEW f \in Flow, NEW t \in Tab, Click(f, t) PROVE OrdersOwned'
    BY <2>1 DEF Click
  <2>2. ASSUME NEW f \in Flow, Connect(f) PROVE OrdersOwned'
    BY <2>2 DEF Connect
  <2>3. ASSUME NEW f \in Flow, Login(f) PROVE OrdersOwned'
    BY <2>3 DEF Login, FlowInv
  <2>4. ASSUME NEW f \in Flow, Accounts(f) \/ Decline(f) PROVE OrdersOwned'
    BY <2>4 DEF Accounts, Decline
  <2>5. ASSUME NEW f \in Flow, Nonce(f) \/ Sign(f) \/ Fail(f) PROVE OrdersOwned'
    BY <2>5 DEF Nonce, Sign, Fail
  <2>6. ASSUME NEW t \in Tab, Disconnect(t) PROVE OrdersOwned'
    BY <2>6 DEF Disconnect
  <2>7. ASSUME NEW t \in Tab, Reload(t) PROVE OrdersOwned'
    BY <2>7 DEF Reload
  <2>8. CASE SwitchAccount
    BY <2>8 DEF SwitchAccount
  <2>9. CASE UNCHANGED vars
    BY <2>9 DEF vars
  <2> QED
    BY <2>1, <2>2, <2>3, <2>4, <2>5, <2>6, <2>7, <2>8, <2>9 DEF Next
<1> QED
  BY <1>1, <1>2, SignInTypeCorrect, FlowsBound, PTL DEF Spec

\* Disconnect signs out: a token belongs to a page that is connected, unless
\* the login was overtaken or the page was loaded again.
THEOREM DisconnectSignsOut == Spec => []SignedOut
<1>1. Init => SignedOut
  BY DEF Init, SignedOut
<1>2. TypeOK /\ FlowInv /\ SignedOut /\ [Next]_vars => SignedOut'
  <2> SUFFICES ASSUME TypeOK, FlowInv, SignedOut, [Next]_vars PROVE SignedOut'
    OBVIOUS
  <2> USE NullAssumption DEF TypeOK, Null, SignedOut, store, flows, history, To
  <2>1. ASSUME NEW f \in Flow, NEW t \in Tab, Click(f, t) PROVE SignedOut'
    BY <2>1 DEF Click, FlowInv
  <2>2. ASSUME NEW f \in Flow, Connect(f) PROVE SignedOut'
    BY <2>2 DEF Connect
  <2>3. ASSUME NEW f \in Flow, Login(f) PROVE SignedOut'
    BY <2>3 DEF Login, FlowInv
  <2>4. ASSUME NEW f \in Flow, Accounts(f) \/ Decline(f) PROVE SignedOut'
    BY <2>4 DEF Accounts, Decline
  <2>5. ASSUME NEW f \in Flow, Nonce(f) \/ Sign(f) \/ Fail(f) PROVE SignedOut'
    BY <2>5 DEF Nonce, Sign, Fail
  <2>6. ASSUME NEW t \in Tab, Disconnect(t) PROVE SignedOut'
    BY <2>6 DEF Disconnect
  <2>7. ASSUME NEW t \in Tab, Reload(t) PROVE SignedOut'
    BY <2>7 DEF Reload
  <2>8. CASE SwitchAccount
    BY <2>8 DEF SwitchAccount
  <2>9. CASE UNCHANGED vars
    BY <2>9 DEF vars
  <2> QED
    BY <2>1, <2>2, <2>3, <2>4, <2>5, <2>6, <2>7, <2>8, <2>9 DEF Next
<1> QED
  BY <1>1, <1>2, SignInTypeCorrect, FlowsBound, PTL DEF Spec
=============================================================================
