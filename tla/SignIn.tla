------------------------------- MODULE SignIn -------------------------------
(***************************************************************************)
(* Signing in with a wallet (features/wallet/index.tsx of the web trader,  *)
(* routes/auth.ts and middleware/auth.ts of the gateway).  A click on      *)
(* Connect starts handleConnect, which awaits the wallet, the gateway, the *)
(* wallet again and the gateway again.  Nothing keeps the user from        *)
(* clicking Connect twice, or Disconnect and Connect, while it awaits, so  *)
(* several flows share the store of a page; pages share the token in       *)
(* localStorage, which outlives them.                                      *)
(*                                                                         *)
(* A token stands for the wallet it names.  Nonces are left out: login     *)
(* compares none.  So is the expiry of a token: it only makes the gateway  *)
(* refuse orders.                                                          *)
(***************************************************************************)
EXTENDS Naturals

CONSTANTS
  Tab,       \* pages of the web trader in one browser
  Flow,      \* calls of handleConnect
  Wallet,    \* accounts of the user's wallet
  NoWallet,  \* null
  NoTab, NoFlow

ASSUME NullAssumption ==
  NoWallet \notin Wallet /\ NoTab \notin Tab /\ NoFlow \notin Flow

VARIABLES
  account,     \* the account that the wallet answers with
  auth_token,  \* localStorage: the wallet that the token names, or NoWallet
  wallet,      \* wallet[t]: the store of page t, null when not connected
  signer,      \* signer[t]: the account that the signer of page t signs for
  pc,          \* pc[f]: what flow f awaits
  tab,         \* tab[f]: its page
  address,     \* address[f]: accounts[0], which becomes walletAddress
  signedBy,    \* signedBy[f]: the account it asks to sign
  \* History:
  issuer,      \* the flow that stored auth_token
  overtaken,   \* flows whose page changed its wallet after they read the signer
  carried,     \* carried[t]: page t connected with a token already stored
  reloaded     \* the page of issuer was reloaded, or closed, since

store   == <<auth_token, wallet, signer>>
flows   == <<pc, tab, address, signedBy>>
history == <<issuer, overtaken, carried, reloaded>>
vars    == <<account, store, flows, history>>

Null == Wallet \cup {NoWallet}

-----------------------------------------------------------------------------
(* Slips: plausible mistakes, used by no action.                           *)

\* handleConnect keeps the signer it connected with.
SignerOfClosure(f) == address[f]
\* The check that there is a signer is missing.
Unchecked(f) == TRUE
\* The signature is not compared with the wallet.
Unverified(f) == TRUE

-----------------------------------------------------------------------------
(* The flow.  Each step runs to its next await.                            *)

To(f, state) == pc' = [pc EXCEPT ![f] = state]

\* Flows of page t that have read the signer, all but f.
Signing(t, f) == {g \in Flow \ {f} : tab[g] = t /\ pc[g] \in {"sign", "login"}}

\* The button is there as long as the page is not connected.
Click(f, t) ==
  /\ pc[f] = "idle"
  /\ wallet[t] = NoWallet
  /\ To(f, "accounts")
  /\ tab' = [tab EXCEPT ![f] = t]
  /\ UNCHANGED <<account, store, address, signedBy, history>>

\* connectWallet: the answer to eth_requestAccounts.
Accounts(f) ==
  /\ pc[f] = "accounts"
  /\ To(f, "signer")
  /\ address' = [address EXCEPT ![f] = account]
  /\ UNCHANGED <<account, store, tab, signedBy, history>>

\* The answer to getSigner, which asks for the account again.  The store is
\* set, and handleConnect reads walletAddress from it before anything else runs.
Connect(f) ==
  /\ pc[f] = "signer"
  /\ To(f, "nonce")
  /\ wallet' = [wallet EXCEPT ![tab[f]] = address[f]]
  /\ signer' = [signer EXCEPT ![tab[f]] = account]
  /\ overtaken' = overtaken \cup Signing(tab[f], f)
  /\ carried' = [carried EXCEPT ![tab[f]] = auth_token # NoWallet]
  /\ UNCHANGED <<account, auth_token, tab, address, signedBy, issuer, reloaded>>

\* The user declines.  connectWallet catches that, and handleConnect goes on
\* with the wallet that another flow may have connected.
Decline(f) ==
  /\ pc[f] \in {"accounts", "signer"}
  /\ To(f, IF wallet[tab[f]] = NoWallet THEN "done" ELSE "nonce")
  /\ address' = [address EXCEPT ![f] = wallet[tab[f]]]
  /\ UNCHANGED <<account, store, tab, signedBy, history>>

\* The signer is that of the store, when the nonce has come.
SignerFor(f) == signer[tab[f]]
HasSigner(f) == SignerFor(f) # NoWallet

Nonce(f) ==
  /\ pc[f] = "nonce"
  /\ To(f, IF HasSigner(f) THEN "sign" ELSE "done")
  /\ signedBy' = [signedBy EXCEPT ![f] = SignerFor(f)]
  /\ UNCHANGED <<account, store, tab, address, history>>

Sign(f) ==
  /\ pc[f] = "sign"
  /\ To(f, "login")
  /\ UNCHANGED <<account, store, tab, address, signedBy, history>>

\* verifyWalletSignature
Verified(f) == signedBy[f] = address[f]

\* The gateway's token comes back, and setToken stores it.
Login(f) ==
  /\ pc[f] = "login"
  /\ Verified(f)
  /\ To(f, "done")
  /\ auth_token' = address[f]
  /\ issuer' = f
  /\ carried' = [carried EXCEPT ![tab[f]] = FALSE]
  /\ reloaded' = FALSE
  /\ UNCHANGED <<account, wallet, signer, tab, address, signedBy, overtaken>>

\* A request is refused, or fails; or the user declines to sign.
Fail(f) ==
  /\ pc[f] \in {"nonce", "sign", "login"}
  /\ To(f, "done")
  /\ UNCHANGED <<account, store, tab, address, signedBy, history>>

-----------------------------------------------------------------------------
(* The page, the browser and the wallet.                                   *)

\* disconnectWallet
Disconnect(t) ==
  /\ wallet[t] # NoWallet
  /\ auth_token' = NoWallet
  /\ wallet' = [wallet EXCEPT ![t] = NoWallet]
  /\ signer' = [signer EXCEPT ![t] = NoWallet]
  /\ overtaken' = overtaken \cup Signing(t, NoFlow)
  /\ UNCHANGED <<account, flows, issuer, carried, reloaded>>

\* A page is loaded again, or closed and opened: its flows are gone.
Reload(t) ==
  /\ wallet' = [wallet EXCEPT ![t] = NoWallet]
  /\ signer' = [signer EXCEPT ![t] = NoWallet]
  /\ pc' = [f \in Flow |-> IF tab[f] = t THEN "done" ELSE pc[f]]
  /\ reloaded' = (reloaded \/ (issuer # NoFlow /\ tab[issuer] = t))
  /\ UNCHANGED <<account, auth_token, tab, address, signedBy,
                 issuer, overtaken, carried>>

\* The user chooses another account; no code listens for that.
SwitchAccount ==
  /\ account' \in Wallet \ {account}
  /\ UNCHANGED <<store, flows, history>>

-----------------------------------------------------------------------------
Init ==
  /\ account \in Wallet
  /\ auth_token = NoWallet
  /\ wallet = [t \in Tab |-> NoWallet]
  /\ signer = [t \in Tab |-> NoWallet]
  /\ pc = [f \in Flow |-> "idle"]
  /\ tab = [f \in Flow |-> NoTab]
  /\ address = [f \in Flow |-> NoWallet]
  /\ signedBy = [f \in Flow |-> NoWallet]
  /\ issuer = NoFlow
  /\ overtaken = {}
  /\ carried = [t \in Tab |-> FALSE]
  /\ reloaded = FALSE

Next ==
  \/ \E f \in Flow : \/ \E t \in Tab : Click(f, t)
                     \/ Accounts(f) \/ Connect(f) \/ Decline(f)
                     \/ Nonce(f) \/ Sign(f) \/ Login(f) \/ Fail(f)
  \/ \E t \in Tab : Disconnect(t) \/ Reload(t)
  \/ SwitchAccount

Spec == Init /\ [][Next]_vars

-----------------------------------------------------------------------------
(* Properties.                                                             *)

TypeOK ==
  /\ account \in Wallet
  /\ auth_token \in Null
  /\ wallet \in [Tab -> Null] /\ signer \in [Tab -> Null]
  /\ pc \in [Flow -> {"idle", "accounts", "signer", "nonce", "sign", "login", "done"}]
  /\ tab \in [Flow -> Tab \cup {NoTab}]
  /\ address \in [Flow -> Null] /\ signedBy \in [Flow -> Null]
  /\ issuer \in Flow \cup {NoFlow}
  /\ overtaken \subseteq Flow
  /\ carried \in [Tab -> BOOLEAN] /\ reloaded \in BOOLEAN
  /\ auth_token # NoWallet => issuer # NoFlow /\ tab[issuer] \in Tab
  /\ \A f \in Flow :
       /\ pc[f] \notin {"idle", "done"} => tab[f] \in Tab
       /\ pc[f] \in {"signer", "nonce", "sign", "login"} => address[f] \in Wallet
       /\ pc[f] \in {"sign", "login"} => signedBy[f] \in Wallet

\* handleSubmit of OrderForm.tsx sends an order, and the gateway takes it as one
\* of the wallet that auth_token names (authenticate).
Submits(t) == wallet[t] # NoWallet /\ auth_token # NoWallet

\* An order is placed for the wallet that the page shows, however flows, pages
\* and accounts interleave, but for four cases: no login has succeeded since the
\* page connected over a token that was there; another page stored the token; a
\* login that had read its signer when the page changed its wallet did; or
\* connectWallet got one account for the page and another for its signer.
OrdersOwned ==
  \A t \in Tab :
    Submits(t) /\ auth_token # wallet[t] =>
      carried[t] \/ tab[issuer] # t \/ issuer \in overtaken \/ signer[t] # wallet[t]

\* A token stays only with a page that is connected: Disconnect signs out, also
\* when flows are under way, unless one of them has read its signer by then.
\* (A page that is loaded again keeps the token and forgets the wallet.)
SignedOut ==
  auth_token # NoWallet =>
    wallet[tab[issuer]] # NoWallet \/ issuer \in overtaken \/ reloaded
=============================================================================
