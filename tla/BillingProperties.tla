------------------------- MODULE BillingProperties -------------------------
(***************************************************************************)
(* What customer billing promises about a balance, the ledger rows that    *)
(* explain it and the spend windows.                                       *)
(***************************************************************************)
EXTENDS Billing, Functions

RowsAbout(e) == {row \in ledger : row.engagement = e}
RowsOf(u) == {row \in ledger : Owner[row.engagement] = u}
DeltaSum(rows) == SumFunction([row \in rows |-> row.delta])
SpentSum(u) == SumFunction([t \in 0 .. MaxTime |-> window[u][t].spent])
HoldRowsOf(u) == {row \in RowsOf(u) : row.reason # ReleaseReason}

(***************************************************************************)
(* The ledger is the source of truth: credit_balance.amount_wei, which     *)
(* every operation updates in place, is the sum of the user's ledger rows. *)
(* A second release, a lost row or a delta applied twice breaks it.        *)
(***************************************************************************)
LedgerIsSourceOfTruth ==
    \A u \in Users :
        balance[u] = granted[u] + replenished[u] + DeltaSum(RowsOf(u))

(***************************************************************************)
(* A spend window never exceeds the cap it was created with, whatever the  *)
(* operator changes in the configuration while the window is open.         *)
(***************************************************************************)
WindowWithinCap ==
    \A u \in Users, t \in 0 .. MaxTime : window[u][t].spent <= window[u][t].cap

(***************************************************************************)
(* Every hold placed under a spend cap is counted in exactly one window:   *)
(* replays and releases neither add to the windows nor take from them.     *)
(***************************************************************************)
EveryHoldCountedOnce ==
    \A u \in Users :
        LET spent == SpentSum(u)
            held == -DeltaSum(HoldRowsOf(u))
        IN  /\ spent <= held
            /\ (\A cfg \in Configs : cfg.cap > 0) => spent = held

(***************************************************************************)
(* A window only fills: no release, rollover or configuration change takes *)
(* spend out of a window or rewrites the cap it was created with           *)
(* (SpendWindow: "changes to the per-user cap take effect on the next      *)
(* window, not retroactively").                                            *)
(***************************************************************************)
WindowOnlyFills ==
    [][\A u \in Users, t \in 0 .. MaxTime :
          window[u][t] # NoWindow =>
              /\ window'[u][t].cap = window[u][t].cap
              /\ window'[u][t].spent >= window[u][t].spent]_window
=============================================================================
