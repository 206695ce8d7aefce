------------------------------- MODULE Wallet -------------------------------
(***************************************************************************)
(* Which wallet the dashboard uses and whose account it shows              *)
(* (apps/web/lib/wallet.ts, ConsoleProvider.tsx:156-163): wallets announce *)
(* themselves on a window event, early or late; the page listens to the    *)
(* one it uses and reads it again on every change.  A wallet's answers and *)
(* events reach the page in the order in which the wallet sent them;       *)
(* different wallets are as slow as they like.                             *)
(***************************************************************************)
EXTENDS Naturals, Sequences, FiniteSets, SequencesExt

CONSTANTS
  Wallets,        \* the installed wallets that announce themselves
  Preferred,      \* those picked first, in order
  Injected,       \* the wallet behind window.ethereum, NoWallet if none
  NoWallet,
  Accounts, NoAccount,
  MaxSwitches,    \* bounds the changes of account
  MaxReads        \* bounds the reads a human's clicks start while others are open

ASSUME WalletAssumption ==
  /\ Preferred \in Seq(Wallets) /\ NoWallet \notin Wallets /\ NoAccount \notin Accounts
  /\ MaxSwitches \in Nat /\ MaxReads \in Nat

VARIABLES
  announced,      \* the wallets recorded, in the order in which they announced themselves
  unhandled,      \* announcements whose handler waits for its turn
  mounted,        \* the page is not mounted, waits for wallets to announce themselves, or is mounted
  current,        \* the wallet whose changes are listened to
  account,        \* the account each wallet exposes to the page
  reads,          \* the wallets being read, oldest first
  shown,          \* the wallet and the account that the page shows
  switches        \* changes of account so far

walletVars == <<announced, unhandled, mounted, current, account, reads, shown, switches>>

AllWallets == Wallets \cup ({Injected} \ {NoWallet})

WalletInit ==
  /\ announced = <<>> /\ unhandled = 0 /\ mounted = "no"
  /\ current = NoWallet
  /\ account \in [AllWallets -> Accounts \cup {NoAccount}]
  /\ reads = <<>>
  /\ shown = [of |-> NoWallet, address |-> NoAccount]
  /\ switches = 0

\* Fault: the first wallet to announce itself, whichever it is.
pickWalletFirst(wallets) == IF wallets = <<>> THEN NoWallet ELSE wallets[1]

\* A preferred wallet if one announced itself, otherwise the first to announce.
pickWallet(wallets) ==
  LET there == {i \in DOMAIN Preferred : Contains(wallets, Preferred[i])}
  IN  IF there # {} THEN Preferred[CHOOSE i \in there : \A j \in there : i <= j]
      ELSE IF wallets = <<>> THEN NoWallet ELSE wallets[1]

chooseWallet == IF pickWallet(announced) # NoWallet THEN pickWallet(announced) ELSE Injected

\* A read of wallet w begins; without a wallet the page shows none.
readWallet(w) ==
  IF w = NoWallet
  THEN shown' = [of |-> NoWallet, address |-> NoAccount] /\ UNCHANGED reads
  ELSE reads' = Append(reads, w) /\ UNCHANGED shown

\* A wallet announces itself.  Once the page is mounted a handler is due,
\* deferred so that the wallet has been recorded.
Announce(w) ==
  /\ ~Contains(announced, w)
  /\ announced' = Append(announced, w)
  /\ unhandled' = unhandled + (IF mounted = "no" THEN 0 ELSE 1)
  /\ UNCHANGED <<mounted, current, account, reads, shown, switches>>

\* The page mounts: it reads the wallet and listens to it, after a moment when
\* none has announced itself.
Mount ==
  /\ mounted = "no"
  /\ mounted' = "waiting"
  /\ UNCHANGED <<announced, unhandled, current, account, reads, shown, switches>>

Chosen ==
  /\ mounted = "waiting"
  /\ mounted' = "mounted"
  /\ readWallet(chooseWallet)
  /\ current' = chooseWallet
  /\ UNCHANGED <<announced, unhandled, account, switches>>

\* The deferred handler: listen to the wallet chosen now, instead of the one
\* listened to before, and read it.
onAnnounce ==
  /\ unhandled > 0
  /\ unhandled' = unhandled - 1
  /\ current' = chooseWallet
  /\ readWallet(chooseWallet)
  /\ UNCHANGED <<announced, mounted, account, switches>>

\* The human changes the account that a wallet exposes; the page hears of it
\* from the wallet it listens to.
SwitchAccount(w, a) ==
  /\ switches < MaxSwitches
  /\ account[w] # a
  /\ switches' = switches + 1
  /\ account' = [account EXCEPT ![w] = a]
  /\ IF current = w THEN readWallet(chooseWallet) ELSE UNCHANGED <<reads, shown>>
  /\ UNCHANGED <<announced, unhandled, mounted, current>>

\* The human connects: the answer carries the account that the wallet exposes,
\* and a wallet that exposed none until now reports the change as well.
connectWallet(a) ==
  LET w == chooseWallet
  IN  /\ mounted = "mounted" /\ shown.address = NoAccount
      /\ w # NoWallet /\ Len(reads) < MaxReads
      /\ \/ account[w] = a /\ readWallet(w) /\ UNCHANGED <<account, switches>>
         \/ /\ account[w] = NoAccount /\ switches < MaxSwitches
            /\ account' = [account EXCEPT ![w] = a]
            /\ switches' = switches + 1
            /\ reads' = reads \o (IF current = w THEN <<w, w>> ELSE <<w>>)
            /\ UNCHANGED shown
      /\ UNCHANGED <<announced, unhandled, mounted, current>>

\* A wallet answers the oldest read of it.
ReadAnswered(i) ==
  /\ i \in DOMAIN reads
  /\ \A j \in 1..(i - 1) : reads[j] # reads[i]
  /\ shown' = [of |-> reads[i], address |-> account[reads[i]]]
  /\ reads' = RemoveAt(reads, i)
  /\ UNCHANGED <<announced, unhandled, mounted, current, account, switches>>

WalletNext ==
  \/ Mount \/ Chosen \/ onAnnounce
  \/ \E w \in Wallets : Announce(w)
  \/ \E w \in AllWallets, a \in Accounts \cup {NoAccount} : SwitchAccount(w, a)
  \/ \E a \in Accounts : connectWallet(a)
  \/ \E i \in DOMAIN reads : ReadAnswered(i)

WalletSpec == WalletInit /\ [][WalletNext]_walletVars
-----------------------------------------------------------------------------
(* wallet.ts:14, 80-89, 205-243.  Every announcement handled, the page     *)
(* listens to the most preferred wallet that announced itself, however     *)
(* late it did and whichever wallet the page began with.                   *)
ListensToPreferred ==
  mounted = "mounted" /\ unhandled = 0 =>
    \A i \in DOMAIN Preferred :
      (Contains(announced, Preferred[i]) /\ \A j \in 1..(i - 1) : ~Contains(announced, Preferred[j]))
        => current = Preferred[i]
=============================================================================
