------------------------------ MODULE MCClients -----------------------------
(***************************************************************************)
(* The programs that talk to the gateway over HTTP and share no state with *)
(* one another, checked in one run: the demo agent and the command line    *)
(* together, the dashboard's polling, and its choice of a wallet.  A       *)
(* behaviour is one of a single part, while the others stay as they begin. *)
(***************************************************************************)
EXTENDS Clients, Console, Wallet

VARIABLE part

allVars == <<part, clientVars, consoleVars, walletVars>>

MetaMaskFirst == <<"metamask", "flask">>

\* Live payments with a demo agent that pays, and with one that must not: of a
\* real network, or with a key that cannot be read.
SomeEnvironments ==
  LET Settings(network, key) ==
        [payTo |-> TRUE, network |-> network, rpcUrls |-> <<>>, demoAgent |-> TRUE,
         account |-> TRUE, key |-> key, passports |-> 1]
  IN  {Settings(TESTNET, "good"), Settings("hedera:mainnet", "good"), Settings(TESTNET, "unreadable")}

AllInit ==
  /\ part \in {"clients", "console", "wallet"}
  /\ ClientsInit /\ ConsoleInit /\ WalletInit
  /\ part # "clients" => environment = CHOOSE settings \in Environments : TRUE
  /\ part # "wallet" => \A w \in AllWallets : account[w] = NoAccount

AllNext ==
  /\ UNCHANGED part
  /\ \/ part = "clients" /\ ClientsNext
     \/ part # "clients" /\ UNCHANGED clientVars
  /\ \/ part = "console" /\ ConsoleNext
     \/ part # "console" /\ UNCHANGED consoleVars
  /\ \/ part = "wallet" /\ WalletNext
     \/ part # "wallet" /\ UNCHANGED walletVars

\* The gateway's timers fire and its handlers end; the demo agent's interval
\* fires and its own code runs on.  The facilitator, asked again and again,
\* confirms in the end.  Nothing is assumed of humans or of the command line.
\* The page's interval fires, and every refresh ends, answered or not.
AllFair ==
  /\ WF_clientVars(part = "clients" /\ (Deny \/ Confirm) /\ UNCHANGED <<routeVars, call, lost, demo, cli>>)
  /\ WF_clientVars(part = "clients" /\ CheckAgain /\ UNCHANGED <<routeVars, call, lost, demo, cli>>)
  /\ SF_clientVars(part = "clients" /\ Confirm /\ UNCHANGED <<routeVars, call, lost, demo, cli>>)
  /\ WF_clientVars(part = "clients" /\ DemoStep)
  /\ \A c \in TheClients : WF_clientVars(part = "clients" /\ Arrive(c))
  /\ \A id \in Ids, c \in TheClients :
       WF_clientVars(part = "clients" /\ ((\E ok \in BOOLEAN : Serve(id, c, ok)) \/ Unheard(id, c)))
  /\ WF_consoleVars(part = "console" /\ RefreshStep)

AllSpec == AllInit /\ [][AllNext]_allVars /\ AllFair
=============================================================================
