----------------------------- MODULE GatewayView ----------------------------
(***************************************************************************)
(* The dashboard's words beside the gateway's ledger.                      *)
(***************************************************************************)
EXTENDS Gateway, RequestView

\* What a row and its payment panel say, whoever collects for the passport.
Claims(r) ==
  UNION {{verdictFor(requests[r], auto).fare, PaymentBody(requests[r], auto)} : auto \in BOOLEAN}

Settling(r) == \E c \in Collectors : collector[c].pc = "settling" /\ collector[c].id = r

\* model.ts:109-164, RequestLedger.tsx:17-24, 290-303, 384-389.  What the
\* dashboard says of the money is what the ledger holds, over failures,
\* retries, refusals and decisions: "nothing was paid" and "nothing was
\* charged" when no fare was kept, "settling" while its settlement is open,
\* "settled" when the fare was kept; the fare's station agrees, and every
\* request is under exactly one tab.
DashboardTellsTheTruth ==
  \A r \in RequestIds : requests[r] # NULL =>
    LET said == Claims(r) IN
    /\ said \cap {"nothing", "nothing yet", "being paid"} # {} => kept[r] = Unpaid
    /\ "settling" \in said => Settling(r)
    /\ "taken" \in said => PaidOnce(r)
    /\ stationsFor(requests[r]).paid = "passed" <=> PaidOnce(r)
    /\ \E f \in Filters : Matches(f, requests[r])
         /\ \A g \in Filters \ {f} : ~Matches(g, requests[r])
=============================================================================
