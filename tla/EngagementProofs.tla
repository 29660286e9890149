-------------------------- MODULE EngagementProofs --------------------------
(***************************************************************************)
(* Theorems about customer billing, for every set of users, engagements    *)
(* and configurations, and about the life of a paid session on top of it,  *)
(* for every set of sessions, requests and amounts.                        *)
(***************************************************************************)
EXTENDS EngagementInvariant, BillingProperties, SumTheorems, TLAPS

-----------------------------------------------------------------------------
(* Customer billing. *)

(***************************************************************************)
(* window_bounds_for names a window that starts at or before the clock.    *)
(***************************************************************************)
LEMMA WindowStartInRange ==
    ASSUME now \in 0 .. MaxTime, NEW cfg \in Configs
    PROVE  WindowStart(cfg) \in 0 .. MaxTime
  <1>1. cfg.period \in Nat /\ cfg.period > 0
    BY ConfigsAssumption DEF Config
  <1> DEFINE p == cfg.period
  <1>2. /\ now \div p \in Nat
        /\ (now \div p) * p <= now
        /\ (now \div p) * p >= 0
    BY <1>1, BoundsAssumption, Z3
  <1> QED  BY <1>1, <1>2, BoundsAssumption DEF WindowStart

(***************************************************************************)
(* _get_or_create_spend_window returns a window row, and                   *)
(* enforce_and_record_spend leaves well-formed windows within their caps.  *)
(***************************************************************************)
LEMMA CurrentWindowType ==
    ASSUME BillingTypeOK, NEW u \in Users, NEW cfg \in Configs
    PROVE  CurrentWindow(u, cfg) \in WindowRow
  <1>1. WindowStart(cfg) \in 0 .. MaxTime
    BY WindowStartInRange DEF BillingTypeOK
  <1>2. cfg.cap \in Nat
    BY ConfigsAssumption DEF Config
  <1> QED  BY <1>1, <1>2 DEF BillingTypeOK, CurrentWindow, WindowRow

\* The cap check keeps the windows well typed and within their caps.
LEMMA EnforceKeepsWindows ==
    ASSUME BillingTypeOK, NEW u \in Users, NEW cfg \in Configs, NEW amount \in Nat,
           EnforceAndRecordSpend(u, amount, cfg)
    PROVE  /\ window' \in [Users -> [0 .. MaxTime -> WindowRow]]
           /\ WindowWithinCap => WindowWithinCap'
  <1> DEFINE s == WindowStart(cfg)
             row == CurrentWindow(u, cfg)
             filled == [row EXCEPT !.spent = @ + amount]
  <1>1. CASE cfg.cap = 0
    BY <1>1 DEF EnforceAndRecordSpend, BillingTypeOK, WindowWithinCap
  <1>2. CASE cfg.cap # 0
    <2>1. row.spent + amount <= row.cap /\ window' = [window EXCEPT ![u][s] = filled]
      BY <1>2 DEF EnforceAndRecordSpend
    <2>2. row \in WindowRow
      BY CurrentWindowType
    <2>3. filled \in WindowRow /\ filled.spent <= filled.cap
      BY <2>1, <2>2 DEF WindowRow
    <2>4. window \in [Users -> [0 .. MaxTime -> WindowRow]]
      BY DEF BillingTypeOK
    <2> HIDE DEF row, filled, s
    <2>5. window' \in [Users -> [0 .. MaxTime -> WindowRow]]
      BY <2>1, <2>3, <2>4
    <2>6. WindowWithinCap => WindowWithinCap'
      BY <2>1, <2>3, <2>4 DEF WindowWithinCap
    <2> QED  BY <2>5, <2>6
  <1> QED  BY <1>1, <1>2

(***************************************************************************)
(* A hold or a release leaves balances non-negative and rows well-formed:  *)
(* what encumber, increase and release have in common.                     *)
(***************************************************************************)
LEMMA ApplyDeltaType ==
    ASSUME BillingTypeOK, NEW e \in Engagements, NEW reason \in Reasons,
           NEW delta \in Int, ApplyDelta(e, reason, delta)
    PROVE  balance' \in [Users -> Nat] /\ ledger' \subseteq LedgerRow
  <1>1. Owner[e] \in Users
    BY OwnerAssumption
  <1> QED  BY <1>1 DEF ApplyDelta, BillingTypeOK, LedgerRow

\* A hold, applied once, keeps balances natural and windows within their caps.
LEMMA HoldOnceType ==
    ASSUME BillingTypeOK, NEW e \in Engagements, NEW reason \in Reasons,
           NEW amount \in Nat, NEW cfg \in Configs, HoldOnce(e, reason, amount, cfg)
    PROVE  /\ balance' \in [Users -> Nat]
           /\ ledger' \subseteq LedgerRow
           /\ window' \in [Users -> [0 .. MaxTime -> WindowRow]]
           /\ WindowWithinCap => WindowWithinCap'
  <1>1. CASE UNCHANGED <<balance, ledger, window>>
    BY <1>1 DEF BillingTypeOK, WindowWithinCap
  <1>2. CASE /\ EnforceAndRecordSpend(Owner[e], amount, cfg)
             /\ ApplyDelta(e, reason, -amount)
    <2>1. Owner[e] \in Users
      BY OwnerAssumption
    <2> QED  BY <1>2, <2>1, EnforceKeepsWindows, ApplyDeltaType
  <1> QED  BY <1>1, <1>2 DEF HoldOnce

\* A release keeps balances natural and leaves the windows alone.
LEMMA ReleaseType ==
    ASSUME BillingTypeOK, NEW e \in Engagements, NEW amount \in Nat,
           ReleaseCustomerEngagement(e, amount)
    PROVE  /\ balance' \in [Users -> Nat]
           /\ ledger' \subseteq LedgerRow
           /\ window' = window
  <1>1. ReleaseReason \in Reasons
    BY BoundsAssumption DEF ReleaseReason, Reasons, Revisions
  <1>2. CASE UNCHANGED <<balance, ledger>>
    BY <1>2 DEF BillingTypeOK, ReleaseCustomerEngagement
  <1>3. CASE ApplyDelta(e, ReleaseReason, amount)
    BY <1>1, <1>3, ApplyDeltaType DEF ReleaseCustomerEngagement
  <1> QED  BY <1>2, <1>3 DEF ReleaseCustomerEngagement

(***************************************************************************)
(* Top-ups, auto-replenish, configuration changes and the clock keep the   *)
(* types and touch neither the rows of engagements nor the windows.        *)
(***************************************************************************)
LEMMA CreditNextType ==
    ASSUME BillingTypeOK, CreditNext
    PROVE  /\ BillingTypeOK'
           /\ UNCHANGED <<ledger, window>>
           /\ \A u \in Users : balance'[u] >= balance[u]
  <1>1. ASSUME NEW u \in Users, NEW amount \in Amounts, Topup(u, amount)
        PROVE  BillingTypeOK' /\ UNCHANGED <<ledger, window>>
               /\ \A v \in Users : balance'[v] >= balance[v]
    BY <1>1, AmountsAssumption DEF Topup, BillingTypeOK
  <1>2. CASE RunAutoReplenish
    <2>1. \A u \in Users : ReplenishAmount(u) \in Nat
      BY ConfigsAssumption DEF ReplenishAmount, BillingTypeOK, Config
    <2>2. balance \in [Users -> Nat] /\ replenished \in [Users -> Nat]
      BY DEF BillingTypeOK
    <2>3. /\ balance' = [u \in Users |-> balance[u] + ReplenishAmount(u)]
          /\ replenished' = [u \in Users |-> replenished[u] + ReplenishAmount(u)]
          /\ UNCHANGED <<ledger, granted, window, config, now>>
      BY <1>2 DEF RunAutoReplenish
    <2>4. \A u \in Users : /\ balance[u] + ReplenishAmount(u) \in Nat
                           /\ balance[u] + ReplenishAmount(u) >= balance[u]
                           /\ replenished[u] + ReplenishAmount(u) \in Nat
      <3> TAKE u \in Users
      <3> DEFINE r == ReplenishAmount(u)
      <3>1. r \in Nat /\ balance[u] \in Nat /\ replenished[u] \in Nat
        BY <2>1, <2>2
      <3> HIDE DEF r
      <3>2. balance[u] + r \in Nat /\ balance[u] + r >= balance[u] /\ replenished[u] + r \in Nat
        BY <3>1
      <3> QED  BY <3>2 DEF r
    <2>5. balance' \in [Users -> Nat] /\ replenished' \in [Users -> Nat]
      BY <2>3, <2>4
    <2>6. \A u \in Users : balance'[u] >= balance[u]
      BY <2>3, <2>4
    <2> QED  BY <2>3, <2>5, <2>6 DEF BillingTypeOK
  <1>3. ASSUME NEW u \in Users, NEW cfg \in Configs, UpsertBillingConfig(u, cfg)
        PROVE  BillingTypeOK' /\ UNCHANGED <<ledger, window>>
               /\ \A v \in Users : balance'[v] >= balance[v]
    BY <1>3 DEF UpsertBillingConfig, BillingTypeOK
  <1>4. CASE Tick
    BY <1>4, BoundsAssumption DEF Tick, BillingTypeOK
  <1> QED  BY <1>1, <1>2, <1>3, <1>4 DEF CreditNext

(***************************************************************************)
(* A step of billing keeps the types and the caps.                         *)
(***************************************************************************)
LEMMA BillingStepInvariant ==
    ASSUME BillingTypeOK, WindowWithinCap, [BillingNext]_billingVars
    PROVE  BillingTypeOK' /\ WindowWithinCap'
  <1>1. ASSUME NEW e \in Engagements, NEW amount \in Amounts, NEW cfg \in Configs,
               Encumber(e, amount, cfg)
        PROVE  BillingTypeOK' /\ WindowWithinCap'
    <2>1. Encumbrance \in Reasons
      BY BoundsAssumption DEF Encumbrance, Reasons, Revisions
    <2> QED  BY <1>1, <2>1, HoldOnceType, AmountsAssumption
             DEF Encumber, EncumberCustomerEngagement, BillingTypeOK
  <1>2. ASSUME NEW e \in Engagements, NEW amount \in Amounts, NEW cfg \in Configs,
               NEW n \in Revisions, Increase(e, n, amount, cfg)
        PROVE  BillingTypeOK' /\ WindowWithinCap'
    <2>1. CapRevision(n) \in Reasons
      BY DEF CapRevision, Reasons
    <2> QED  BY <1>2, <2>1, HoldOnceType, AmountsAssumption
             DEF Increase, IncreaseCustomerEngagementCap, BillingTypeOK
  <1>3. ASSUME NEW e \in Engagements, NEW amount \in Amounts, Release(e, amount)
        PROVE  BillingTypeOK' /\ WindowWithinCap'
    BY <1>3, ReleaseType, AmountsAssumption DEF Release, BillingTypeOK, WindowWithinCap
  <1>4. CASE CreditNext
    BY <1>4, CreditNextType DEF WindowWithinCap
  <1>5. CASE UNCHANGED billingVars
    BY <1>5 DEF billingVars, BillingTypeOK, WindowWithinCap
  <1> QED  BY <1>1, <1>2, <1>3, <1>4, <1>5 DEF BillingNext, HoldNext

(***************************************************************************)
(* Customer billing is type correct: in particular no sequence of holds,   *)
(* releases and top-ups takes a balance below zero.                        *)
(***************************************************************************)
THEOREM BillingTypeCorrect == BillingSpec => [](BillingTypeOK /\ WindowWithinCap)
  <1>1. BillingInit => BillingTypeOK /\ WindowWithinCap
    BY BoundsAssumption
    DEF BillingInit, BillingTypeOK, WindowWithinCap, NoWindow, WindowRow
  <1>2. BillingTypeOK /\ WindowWithinCap /\ [BillingNext]_billingVars
          => BillingTypeOK' /\ WindowWithinCap'
    BY BillingStepInvariant
  <1> QED  BY <1>1, <1>2, PTL DEF BillingSpec

(***************************************************************************)
(* No spend window ever exceeds the cap it was created with                *)
(* (enforce_and_record_spend).                                             *)
(***************************************************************************)
THEOREM SpendCapHolds == BillingSpec => []WindowWithinCap
  BY BillingTypeCorrect, PTL

\* What one step may do to the windows that exist.
WindowsFill ==
    \A u \in Users, t \in 0 .. MaxTime :
        window[u][t] # NoWindow =>
            /\ window'[u][t].cap = window[u][t].cap
            /\ window'[u][t].spent >= window[u][t].spent

(***************************************************************************)
(* enforce_and_record_spend only adds to a window that exists.             *)
(***************************************************************************)
LEMMA EnforceFills ==
    ASSUME BillingTypeOK, NEW u \in Users, NEW cfg \in Configs, NEW amount \in Nat,
           EnforceAndRecordSpend(u, amount, cfg)
    PROVE  WindowsFill
  <1> SUFFICES ASSUME NEW v \in Users, NEW t \in 0 .. MaxTime, window[v][t] # NoWindow
               PROVE  /\ window'[v][t].cap = window[v][t].cap
                      /\ window'[v][t].spent >= window[v][t].spent
    BY DEF WindowsFill
  <1> DEFINE s == WindowStart(cfg)
             row == CurrentWindow(u, cfg)
  <1>1. window \in [Users -> [0 .. MaxTime -> WindowRow]]
    BY DEF BillingTypeOK
  <1>2. window[v][t].spent \in Nat
    BY <1>1 DEF WindowRow
  <1>3. CASE window' = window
    BY <1>2, <1>3
  <1>4. CASE window' = [window EXCEPT ![u][s] = [row EXCEPT !.spent = @ + amount]]
    <2>1. CASE v = u /\ t = s
      <3>1. row = window[v][t]
        BY <2>1 DEF CurrentWindow
      <3>2. window'[v][t] = [row EXCEPT !.spent = @ + amount]
        BY <1>1, <1>4, <2>1
      <3>3. row \in WindowRow
        BY CurrentWindowType
      <3> HIDE DEF row
      <3>4. /\ [row EXCEPT !.spent = @ + amount].cap = row.cap
            /\ [row EXCEPT !.spent = @ + amount].spent = row.spent + amount
        BY <3>3 DEF WindowRow
      <3> QED  BY <1>2, <3>1, <3>2, <3>4
    <2>2. CASE ~(v = u /\ t = s)
      <3> HIDE DEF row, s
      <3>1. window'[v][t] = window[v][t]
        BY <1>1, <1>4, <2>2
      <3> QED  BY <1>2, <3>1
    <2> QED  BY <2>1, <2>2
  <1> QED  BY <1>3, <1>4 DEF EnforceAndRecordSpend

\* A hold changes windows only by adding spend.
LEMMA HoldOnceFills ==
    ASSUME BillingTypeOK, NEW e \in Engagements, NEW amount \in Nat,
           NEW reason, NEW cfg \in Configs, HoldOnce(e, reason, amount, cfg)
    PROVE  WindowsFill \/ UNCHANGED window
  <1>1. Owner[e] \in Users
    BY OwnerAssumption
  <1> QED  BY <1>1, EnforceFills DEF HoldOnce

(***************************************************************************)
(* No operation takes spend out of a window or changes the cap the window  *)
(* was created with.                                                       *)
(***************************************************************************)
THEOREM WindowsOnlyFill == BillingSpec => WindowOnlyFills
  <1>1. BillingTypeOK /\ [BillingNext]_billingVars => [WindowsFill]_window
    <2> SUFFICES ASSUME BillingTypeOK, BillingNext
                 PROVE  WindowsFill \/ UNCHANGED window
      BY DEF billingVars
    <2>1. CASE CreditNext
      BY <2>1, CreditNextType
    <2>2. CASE HoldNext
      <3>1. PICK e \in Engagements, amount \in Amounts :
               \/ \E cfg \in Configs : Encumber(e, amount, cfg)
               \/ \E cfg \in Configs, n \in Revisions : Increase(e, n, amount, cfg)
               \/ Release(e, amount)
        BY <2>2 DEF HoldNext
      <3>2. amount \in Nat
        BY AmountsAssumption
      <3>3. CASE Release(e, amount)
        BY <3>3 DEF Release, ReleaseCustomerEngagement
      <3>4. ASSUME NEW cfg \in Configs, Encumber(e, amount, cfg)
            PROVE  WindowsFill \/ UNCHANGED window
        BY <3>2, <3>4, HoldOnceFills DEF Encumber, EncumberCustomerEngagement
      <3>5. ASSUME NEW cfg \in Configs, NEW n \in Revisions, Increase(e, n, amount, cfg)
            PROVE  WindowsFill \/ UNCHANGED window
        BY <3>2, <3>5, HoldOnceFills DEF Increase, IncreaseCustomerEngagementCap
      <3> QED  BY <3>1, <3>3, <3>4, <3>5
    <2> QED  BY <2>1, <2>2 DEF BillingNext
  <1>2. BillingSpec => [][WindowsFill]_window
    BY <1>1, BillingTypeCorrect, PTL DEF BillingSpec
  <1> QED  BY <1>2 DEF WindowOnlyFills, WindowsFill

-----------------------------------------------------------------------------
(***************************************************************************)
(* The sum of a finite set of ledger rows is an integer, and it grows by   *)
(* the delta of a row that is added (_apply_delta inserts one row).        *)
(***************************************************************************)
LEMMA DeltaSumGains ==
    ASSUME NEW R, IsFiniteSet(R), \A row \in R : row.delta \in Int
    PROVE  /\ DeltaSum(R) \in Int
           /\ R = {} => DeltaSum(R) = 0
           /\ \A r : r \notin R /\ r.delta \in Int =>
                  DeltaSum(R \cup {r}) = DeltaSum(R) + r.delta
  <1> DEFINE f == [row \in R |-> row.delta]
  <1>1. DeltaSum(R) = SumFunctionOnSet(f, R)
    BY DEF DeltaSum, SumFunction
  <1>2. \A row \in R : f[row] = row.delta
    OBVIOUS
  <1> HIDE DEF f
  <1>3. SumFunctionOnSet(f, R) \in Int
    BY <1>2, SumType
  <1>4. R = {} => SumFunctionOnSet(f, R) = 0
    BY SumUnfolds
  <1>5. ASSUME NEW r, r \notin R, r.delta \in Int
        PROVE  DeltaSum(R \cup {r}) = DeltaSum(R) + r.delta
    <2> DEFINE g == [row \in R \cup {r} |-> row.delta]
    <2>1. DeltaSum(R \cup {r}) = SumFunctionOnSet(g, R \cup {r})
      BY DEF DeltaSum, SumFunction
    <2>2. \A row \in R \cup {r} : g[row] = row.delta
      OBVIOUS
    <2> HIDE DEF g
    <2>3. /\ \A y \in R \cup {r} : g[y] \in Int
          /\ \A y \in R : f[y] = g[y]
          /\ g[r] = r.delta
      BY <1>2, <1>5, <2>2
    <2>4. SumFunctionOnSet(g, R \cup {r}) = SumFunctionOnSet(f, R) + g[r]
      BY <1>5, <2>3, SumGains
    <2> QED  BY <1>1, <2>1, <2>3, <2>4
  <1> QED  BY <1>1, <1>3, <1>4, <1>5

(***************************************************************************)
(* What _apply_delta does to the sum of any part of the ledger: the part   *)
(* that the new row belongs to moves by its delta, every other part stays. *)
(***************************************************************************)
LEMMA LedgerGains ==
    ASSUME BillingTypeOK, IsFiniteSet(ledger), NEW e \in Engagements, NEW reason,
           NEW delta \in Int, RowsFor(e, reason) = {}, ApplyDelta(e, reason, delta)
    PROVE  LET new == [engagement |-> e, reason |-> reason, delta |-> delta]
           IN  /\ IsFiniteSet(ledger')
               /\ ledger' = ledger \cup {new}
               /\ new \notin ledger
               /\ \A R \in SUBSET ledger :
                      /\ DeltaSum(R) \in Int
                      /\ DeltaSum(R \cup {new}) = DeltaSum(R) + delta
  <1> DEFINE new == [engagement |-> e, reason |-> reason, delta |-> delta]
  <1>1. ledger' = ledger \cup {new}
    BY DEF ApplyDelta
  <1>2. new.engagement = e /\ new.reason = reason /\ new.delta = delta
    OBVIOUS
  <1> HIDE DEF new
  <1>3. new \notin ledger
    BY <1>2 DEF RowsFor
  <1>4. IsFiniteSet(ledger')
    BY <1>1, FS_AddElement
  <1>5. ASSUME NEW R \in SUBSET ledger
        PROVE  DeltaSum(R) \in Int /\ DeltaSum(R \cup {new}) = DeltaSum(R) + delta
    <2>1. IsFiniteSet(R)
      BY FS_Subset
    <2>2. \A row \in R : row.delta \in Int
      BY DEF BillingTypeOK, LedgerRow
    <2>3. new \notin R
      BY <1>3
    <2> QED  BY <1>2, <2>1, <2>2, <2>3, DeltaSumGains
  <1> QED  BY <1>1, <1>3, <1>4, <1>5 DEF new

(***************************************************************************)
(* The same for the rows of a user, for the rows that hold credit and for  *)
(* the rows of an engagement.                                              *)
(***************************************************************************)
LEMMA RowsGain ==
    ASSUME BillingTypeOK, IsFiniteSet(ledger), NEW e \in Engagements, NEW reason,
           NEW delta \in Int, RowsFor(e, reason) = {}, ApplyDelta(e, reason, delta)
    PROVE  /\ IsFiniteSet(ledger')
           /\ DeltaSum(RowsOf(Owner[e]))' = DeltaSum(RowsOf(Owner[e])) + delta
           /\ \A u \in Users : u # Owner[e] =>
                  RowsOf(u)' = RowsOf(u) /\ HoldRowsOf(u)' = HoldRowsOf(u)
           /\ reason # ReleaseReason =>
                  DeltaSum(HoldRowsOf(Owner[e]))' = DeltaSum(HoldRowsOf(Owner[e])) + delta
           /\ reason = ReleaseReason => HoldRowsOf(Owner[e])' = HoldRowsOf(Owner[e])
           /\ DeltaSum(RowsAbout(e))' = DeltaSum(RowsAbout(e)) + delta
           /\ \A d \in Engagements : d # e => RowsAbout(d)' = RowsAbout(d)
  <1> DEFINE new == [engagement |-> e, reason |-> reason, delta |-> delta]
             u == Owner[e]
  <1>1. /\ IsFiniteSet(ledger')
        /\ ledger' = ledger \cup {new}
        /\ new \notin ledger
        /\ \A R \in SUBSET ledger : DeltaSum(R \cup {new}) = DeltaSum(R) + delta
    BY LedgerGains
  <1>2. new.engagement = e /\ new.reason = reason /\ new.delta = delta
    OBVIOUS
  <1> HIDE DEF new
  <1>3. RowsOf(u)' = RowsOf(u) \cup {new} /\ RowsOf(u) \in SUBSET ledger
    BY <1>1, <1>2 DEF RowsOf
  <1>4. RowsAbout(e)' = RowsAbout(e) \cup {new} /\ RowsAbout(e) \in SUBSET ledger
    BY <1>1, <1>2 DEF RowsAbout
  <1>5. HoldRowsOf(u) \in SUBSET ledger
    BY DEF RowsOf, HoldRowsOf
  <1>6. reason # ReleaseReason => HoldRowsOf(u)' = HoldRowsOf(u) \cup {new}
    BY <1>1, <1>2 DEF RowsOf, HoldRowsOf
  <1>7. reason = ReleaseReason => HoldRowsOf(u)' = HoldRowsOf(u)
    BY <1>1, <1>2 DEF RowsOf, HoldRowsOf
  <1>8. \A v \in Users : v # u => RowsOf(v)' = RowsOf(v) /\ HoldRowsOf(v)' = HoldRowsOf(v)
    BY <1>1, <1>2 DEF RowsOf, HoldRowsOf
  <1>9. \A d \in Engagements : d # e => RowsAbout(d)' = RowsAbout(d)
    BY <1>1, <1>2 DEF RowsAbout
  <1> QED  BY <1>1, <1>3, <1>4, <1>5, <1>6, <1>7, <1>8, <1>9 DEF DeltaSum

-----------------------------------------------------------------------------
(***************************************************************************)
(* What the windows of a user add up to is an integer, and                 *)
(* enforce_and_record_spend adds the charge to it exactly once, or nothing *)
(* when there is no cap.                                                   *)
(***************************************************************************)
LEMMA SpentSumType ==
    ASSUME BillingTypeOK, NEW u \in Users
    PROVE  SpentSum(u) \in Int
  <1> DEFINE f == [t \in 0 .. MaxTime |-> window[u][t].spent]
  <1>1. SpentSum(u) = SumFunctionOnSet(f, 0 .. MaxTime)
    BY DEF SpentSum, SumFunction
  <1>2. \A t \in 0 .. MaxTime : f[t] \in Int
    <2>1. \A t \in 0 .. MaxTime : window[u][t] \in WindowRow
      BY DEF BillingTypeOK
    <2>2. \A w \in WindowRow : w.spent \in Int
      BY DEF WindowRow
    <2> QED  BY <2>1, <2>2
  <1>3. IsFiniteSet(0 .. MaxTime)
    BY BoundsAssumption, FS_Interval
  <1> HIDE DEF f
  <1> QED  BY <1>1, <1>2, <1>3, SumType

\* A capped hold adds its amount to the owner's windows, an uncapped one nothing.
LEMMA EnforceAddsSpend ==
    ASSUME BillingTypeOK, NEW u \in Users, NEW cfg \in Configs, NEW amount \in Nat,
           EnforceAndRecordSpend(u, amount, cfg)
    PROVE  /\ \A v \in Users : v # u => SpentSum(v)' = SpentSum(v)
           /\ cfg.cap = 0 => SpentSum(u)' = SpentSum(u)
           /\ cfg.cap # 0 => SpentSum(u)' = SpentSum(u) + amount
  <1> DEFINE s == WindowStart(cfg)
             row == CurrentWindow(u, cfg)
             filled == [row EXCEPT !.spent = @ + amount]
  <1>1. window \in [Users -> [0 .. MaxTime -> WindowRow]]
    BY DEF BillingTypeOK
  <1>2. CASE cfg.cap = 0
    BY <1>2 DEF EnforceAndRecordSpend, SpentSum
  <1>3. CASE cfg.cap # 0
    <2>1. window' = [window EXCEPT ![u][s] = filled]
      BY <1>3 DEF EnforceAndRecordSpend
    <2>2. s \in 0 .. MaxTime
      BY <1>1, WindowStartInRange DEF BillingTypeOK
    <2>3. row.spent = window[u][s].spent
      BY DEF CurrentWindow, NoWindow
    <2>4. row \in WindowRow
      BY CurrentWindowType
    <2> HIDE DEF row, s
    <2>5. filled.spent = row.spent + amount /\ row.spent \in Nat
      BY <2>4 DEF WindowRow
    <2> HIDE DEF filled
    <2>6. \A v \in Users : v # u => window'[v] = window[v]
      BY <1>1, <2>1
    <2>7. \A t \in 0 .. MaxTime : t # s => window'[u][t] = window[u][t]
      BY <1>1, <2>1
    <2>8. window'[u][s] = filled
      BY <1>1, <2>1, <2>2
    <2> DEFINE f == [t \in 0 .. MaxTime |-> window[u][t].spent]
               g == [t \in 0 .. MaxTime |-> window'[u][t].spent]
               S == 0 .. MaxTime
    <2>9. SpentSum(u) = SumFunctionOnSet(f, S) /\ SpentSum(u)' = SumFunctionOnSet(g, S)
      BY DEF SpentSum, SumFunction
    <2>10. \A t \in S : f[t] \in Int /\ g[t] \in Int
      <3> SUFFICES ASSUME NEW t \in S PROVE window[u][t].spent \in Int /\ window'[u][t].spent \in Int
        OBVIOUS
      <3>1. window[u][t].spent \in Int
        <4>1. window[u][t] \in WindowRow
          BY <1>1
        <4> QED  BY <4>1 DEF WindowRow
      <3> QED  BY <2>5, <2>7, <2>8, <3>1
    <2>11. \A t \in S \ {s} : f[t] = g[t]
      BY <2>7
    <2>12. f[s] = row.spent /\ g[s] = row.spent + amount
      BY <2>2, <2>3, <2>5, <2>8
    <2>13. IsFiniteSet(S)
      BY BoundsAssumption, FS_Interval
    <2>14. SumFunctionOnSet(f, S) \in Int
      BY <2>10, <2>13, SumType
    <2> HIDE DEF f, g, S
    <2>15. SumFunctionOnSet(g, S) = SumFunctionOnSet(f, S) - f[s] + g[s]
      <3>1. s \in S
        BY <2>2 DEF S
      <3> QED  BY <2>10, <2>11, <2>13, <3>1, SumChanges
    <2>16. SpentSum(u)' = SpentSum(u) + amount
      BY <2>5, <2>9, <2>12, <2>14, <2>15
    <2>17. \A v \in Users : v # u => SpentSum(v)' = SpentSum(v)
      BY <2>6 DEF SpentSum
    <2> QED  BY <1>3, <2>16, <2>17
  <1> QED  BY <1>2, <1>3

-----------------------------------------------------------------------------
(***************************************************************************)
(* The sums that billing keeps: the ledger explains the balances, and the  *)
(* holds in it fill the windows.                                           *)
(***************************************************************************)
SumsAgree == IsFiniteSet(ledger) /\ LedgerIsSourceOfTruth /\ EveryHoldCountedOnce

\* The sums over the rows of a user are integers.
LEMMA RowSumsType ==
    ASSUME BillingTypeOK, IsFiniteSet(ledger), NEW u \in Users
    PROVE  DeltaSum(RowsOf(u)) \in Int /\ DeltaSum(HoldRowsOf(u)) \in Int
  <1>1. RowsOf(u) \subseteq ledger /\ HoldRowsOf(u) \subseteq ledger
    BY DEF RowsOf, HoldRowsOf
  <1>2. IsFiniteSet(RowsOf(u)) /\ IsFiniteSet(HoldRowsOf(u))
    BY <1>1, FS_Subset
  <1>3. \A row \in ledger : row.delta \in Int
    BY DEF BillingTypeOK, LedgerRow
  <1> QED  BY <1>1, <1>2, <1>3, DeltaSumGains

(***************************************************************************)
(* A hold moves the balance, one new row and at most one window by the     *)
(* same amount; its replay moves nothing.                                  *)
(***************************************************************************)
LEMMA HoldOnceSums ==
    ASSUME BillingTypeOK, SumsAgree, NEW e \in Engagements, NEW reason,
           reason # ReleaseReason, NEW amount \in Nat, NEW cfg \in Configs,
           HoldOnce(e, reason, amount, cfg), UNCHANGED <<granted, replenished>>
    PROVE  SumsAgree'
  <1>1. CASE UNCHANGED <<balance, ledger, window>>
    BY <1>1 DEF SumsAgree, LedgerIsSourceOfTruth, EveryHoldCountedOnce, DeltaSum, RowsOf,
                HoldRowsOf, SpentSum
  <1>2. CASE /\ RowsFor(e, reason) = {}
             /\ EnforceAndRecordSpend(Owner[e], amount, cfg)
             /\ ApplyDelta(e, reason, -amount)
    <2> DEFINE u == Owner[e]
    <2>1. u \in Users /\ -amount \in Int /\ IsFiniteSet(ledger)
      BY OwnerAssumption DEF SumsAgree
    <2>2. /\ IsFiniteSet(ledger')
          /\ DeltaSum(RowsOf(u))' = DeltaSum(RowsOf(u)) + -amount
          /\ DeltaSum(HoldRowsOf(u))' = DeltaSum(HoldRowsOf(u)) + -amount
          /\ \A v \in Users : v # u =>
                  RowsOf(v)' = RowsOf(v) /\ HoldRowsOf(v)' = HoldRowsOf(v)
      BY <1>2, <2>1, RowsGain
    <2>3. \A v \in Users : v # u => /\ DeltaSum(RowsOf(v))' = DeltaSum(RowsOf(v))
                                    /\ DeltaSum(HoldRowsOf(v))' = DeltaSum(HoldRowsOf(v))
      BY <2>2 DEF DeltaSum
    <2>4. /\ \A v \in Users : v # u => SpentSum(v)' = SpentSum(v)
          /\ cfg.cap = 0 => SpentSum(u)' = SpentSum(u)
          /\ cfg.cap # 0 => SpentSum(u)' = SpentSum(u) + amount
      BY <1>2, <2>1, EnforceAddsSpend
    <2>5. \A v \in Users : /\ DeltaSum(RowsOf(v)) \in Int
                            /\ DeltaSum(HoldRowsOf(v)) \in Int
                            /\ SpentSum(v) \in Int
      BY <2>1, RowSumsType, SpentSumType
    <2>6. /\ \A v \in Users : balance[v] \in Nat /\ granted[v] \in Nat /\ replenished[v] \in Nat
          /\ \A v \in Users : v # u => balance'[v] = balance[v]
          /\ balance'[u] = balance[u] + -amount
      BY <1>2, <2>1 DEF ApplyDelta, BillingTypeOK
    <2>7. LedgerIsSourceOfTruth'
      <3> SUFFICES ASSUME NEW v \in Users
                   PROVE  balance'[v] = granted[v] + replenished[v] + DeltaSum(RowsOf(v))'
        BY DEF LedgerIsSourceOfTruth
      <3>1. balance[v] = granted[v] + replenished[v] + DeltaSum(RowsOf(v))
        BY DEF SumsAgree, LedgerIsSourceOfTruth
      <3>2. CASE v = u
        BY <2>1, <2>2, <2>5, <2>6, <3>1, <3>2
      <3>3. CASE v # u
        BY <2>3, <2>6, <3>1, <3>3
      <3> QED  BY <3>2, <3>3
    <2>8. EveryHoldCountedOnce'
      <3> SUFFICES ASSUME NEW v \in Users
                   PROVE  /\ SpentSum(v)' <= -(DeltaSum(HoldRowsOf(v))')
                          /\ (\A c \in Configs : c.cap > 0) =>
                                SpentSum(v)' = -(DeltaSum(HoldRowsOf(v))')
        BY DEF EveryHoldCountedOnce
      <3>1. /\ SpentSum(v) <= -DeltaSum(HoldRowsOf(v))
            /\ (\A c \in Configs : c.cap > 0) => SpentSum(v) = -DeltaSum(HoldRowsOf(v))
        BY DEF SumsAgree, EveryHoldCountedOnce
      <3>2. (\A c \in Configs : c.cap > 0) => cfg.cap # 0
        BY ConfigsAssumption DEF Config
      <3> DEFINE h == DeltaSum(HoldRowsOf(v))
                 hn == DeltaSum(HoldRowsOf(v))'
                 sp == SpentSum(v)
                 spn == SpentSum(v)'
                 capped == \A c \in Configs : c.cap > 0
      <3>3. CASE v = u
        <4>1. /\ h \in Int /\ sp \in Int /\ hn = h + -amount
              /\ cfg.cap = 0 => spn = sp
              /\ cfg.cap # 0 => spn = sp + amount
              /\ sp <= -h
              /\ capped => sp = -h
              /\ capped => cfg.cap # 0
          BY <2>2, <2>4, <2>5, <3>1, <3>2, <3>3
        <4> HIDE DEF h, hn, sp, spn, capped
        <4>2. spn <= -hn /\ (capped => spn = -hn)
          BY <4>1
        <4> QED  BY <4>2 DEF h, hn, sp, spn, capped
      <3>4. CASE v # u
        BY <2>3, <2>4, <3>1, <3>4
      <3> QED  BY <3>3, <3>4
    <2> QED  BY <2>2, <2>7, <2>8 DEF SumsAgree
  <1> QED  BY <1>1, <1>2 DEF HoldOnce

(***************************************************************************)
(* A release moves the balance and one new row by the same amount, and     *)
(* leaves the holds and the windows alone.                                 *)
(***************************************************************************)
LEMMA ReleaseSums ==
    ASSUME BillingTypeOK, SumsAgree, NEW e \in Engagements, NEW amount \in Int,
           ReleaseCustomerEngagement(e, amount), UNCHANGED <<granted, replenished>>
    PROVE  SumsAgree'
  <1>1. CASE UNCHANGED <<balance, ledger>>
    BY <1>1 DEF ReleaseCustomerEngagement, SumsAgree, LedgerIsSourceOfTruth,
                EveryHoldCountedOnce, DeltaSum, RowsOf, HoldRowsOf, SpentSum
  <1>2. CASE RowsFor(e, ReleaseReason) = {} /\ ApplyDelta(e, ReleaseReason, amount)
    <2> DEFINE u == Owner[e]
    <2>1. u \in Users /\ IsFiniteSet(ledger)
      BY OwnerAssumption DEF SumsAgree
    <2>2. /\ IsFiniteSet(ledger')
          /\ DeltaSum(RowsOf(u))' = DeltaSum(RowsOf(u)) + amount
          /\ HoldRowsOf(u)' = HoldRowsOf(u)
          /\ \A v \in Users : v # u =>
                  RowsOf(v)' = RowsOf(v) /\ HoldRowsOf(v)' = HoldRowsOf(v)
      BY <1>2, <2>1, RowsGain
    <2>3. /\ \A v \in Users : v # u => DeltaSum(RowsOf(v))' = DeltaSum(RowsOf(v))
          /\ \A v \in Users : DeltaSum(HoldRowsOf(v))' = DeltaSum(HoldRowsOf(v))
      BY <2>2 DEF DeltaSum
    <2>4. \A v \in Users : SpentSum(v)' = SpentSum(v)
      BY DEF ReleaseCustomerEngagement, SpentSum
    <2>5. DeltaSum(RowsOf(u)) \in Int
      BY <2>1, RowSumsType
    <2>6. /\ \A v \in Users : balance[v] \in Nat /\ granted[v] \in Nat /\ replenished[v] \in Nat
          /\ \A v \in Users : v # u => balance'[v] = balance[v]
          /\ balance'[u] = balance[u] + amount
      BY <1>2, <2>1 DEF ApplyDelta, BillingTypeOK
    <2>7. LedgerIsSourceOfTruth'
      <3> SUFFICES ASSUME NEW v \in Users
                   PROVE  balance'[v] = granted[v] + replenished[v] + DeltaSum(RowsOf(v))'
        BY DEF LedgerIsSourceOfTruth
      <3>1. balance[v] = granted[v] + replenished[v] + DeltaSum(RowsOf(v))
        BY DEF SumsAgree, LedgerIsSourceOfTruth
      <3>2. CASE v = u
        BY <2>1, <2>2, <2>5, <2>6, <3>1, <3>2
      <3>3. CASE v # u
        BY <2>3, <2>6, <3>1, <3>3
      <3> QED  BY <3>2, <3>3
    <2>8. EveryHoldCountedOnce'
      BY <2>3, <2>4 DEF SumsAgree, EveryHoldCountedOnce
    <2> QED  BY <2>2, <2>7, <2>8 DEF SumsAgree
  <1> QED  BY <1>1, <1>2 DEF ReleaseCustomerEngagement

(***************************************************************************)
(* A top-up, by an operator or by auto-replenish, moves the balance and    *)
(* its own total by the same amount.                                       *)
(***************************************************************************)
LEMMA CreditSums ==
    ASSUME BillingTypeOK, SumsAgree, CreditNext
    PROVE  SumsAgree'
  <1>1. UNCHANGED <<ledger, window>>
    BY CreditNextType
  <1>2. IsFiniteSet(ledger') /\ EveryHoldCountedOnce'
    BY <1>1 DEF SumsAgree, EveryHoldCountedOnce, DeltaSum, RowsOf, HoldRowsOf, SpentSum
  <1>3. \A u \in Users :
           /\ DeltaSum(RowsOf(u))' = DeltaSum(RowsOf(u))
           /\ DeltaSum(RowsOf(u)) \in Int
           /\ balance[u] = granted[u] + replenished[u] + DeltaSum(RowsOf(u))
           /\ balance[u] \in Nat /\ granted[u] \in Nat /\ replenished[u] \in Nat
    <2>1. \A u \in Users : DeltaSum(RowsOf(u))' = DeltaSum(RowsOf(u))
      BY <1>1 DEF DeltaSum, RowsOf
    <2>2. \A u \in Users : DeltaSum(RowsOf(u)) \in Int
      BY RowSumsType DEF SumsAgree
    <2>3. \A u \in Users : balance[u] \in Nat /\ granted[u] \in Nat /\ replenished[u] \in Nat
      BY DEF BillingTypeOK
    <2> QED  BY <2>1, <2>2, <2>3 DEF SumsAgree, LedgerIsSourceOfTruth
  <1>4. \A u \in Users :
           balance'[u] - granted'[u] - replenished'[u] = balance[u] - granted[u] - replenished[u]
    <2>1. ASSUME NEW u \in Users, NEW amount \in Amounts, Topup(u, amount), NEW v \in Users
          PROVE  /\ balance'[v] - balance[v] = granted'[v] - granted[v]
                 /\ replenished'[v] = replenished[v]
      <3>1. amount \in Nat
        BY AmountsAssumption
      <3>2. CASE v = u
        BY <1>3, <2>1, <3>1, <3>2 DEF Topup, BillingTypeOK
      <3>3. CASE v # u
        BY <1>3, <2>1, <3>3 DEF Topup, BillingTypeOK
      <3> QED  BY <3>2, <3>3
    <2>2. ASSUME RunAutoReplenish, NEW v \in Users
          PROVE  /\ balance'[v] - balance[v] = replenished'[v] - replenished[v]
                 /\ granted'[v] = granted[v]
      <3>1. ReplenishAmount(v) \in Nat
        BY ConfigsAssumption DEF ReplenishAmount, BillingTypeOK, Config
      <3>2. /\ balance'[v] = balance[v] + ReplenishAmount(v)
            /\ replenished'[v] = replenished[v] + ReplenishAmount(v)
            /\ granted' = granted
        BY <2>2 DEF RunAutoReplenish
      <3> QED  BY <1>3, <3>1, <3>2
    <2>3. CASE Tick \/ \E u \in Users, cfg \in Configs : UpsertBillingConfig(u, cfg)
      BY <2>3 DEF Tick, UpsertBillingConfig
    <2>4. \A u \in Users : balance'[u] \in Nat /\ granted'[u] \in Nat /\ replenished'[u] \in Nat
      BY CreditNextType DEF BillingTypeOK
    <2>5. CASE \E u \in Users, amount \in Amounts : Topup(u, amount)
      <3> TAKE v \in Users
      <3>1. /\ balance'[v] - balance[v] = granted'[v] - granted[v]
            /\ replenished'[v] = replenished[v]
        BY <2>1, <2>5
      <3> QED  BY <1>3, <2>4, <3>1
    <2>6. CASE RunAutoReplenish
      <3> TAKE v \in Users
      <3>1. /\ balance'[v] - balance[v] = replenished'[v] - replenished[v]
            /\ granted'[v] = granted[v]
        BY <2>2, <2>6
      <3>2. /\ balance[v] \in Nat /\ granted[v] \in Nat /\ replenished[v] \in Nat
            /\ balance'[v] \in Nat /\ granted'[v] \in Nat /\ replenished'[v] \in Nat
        BY <1>3, <2>4
      <3> QED  BY <3>1, <3>2
    <2> QED  BY <2>3, <2>5, <2>6 DEF CreditNext
  <1>5. LedgerIsSourceOfTruth'
    <2> SUFFICES ASSUME NEW u \in Users
                 PROVE  balance'[u] = granted'[u] + replenished'[u] + DeltaSum(RowsOf(u))'
      BY DEF LedgerIsSourceOfTruth
    <2>1. balance'[u] \in Nat /\ granted'[u] \in Nat /\ replenished'[u] \in Nat
      BY CreditNextType DEF BillingTypeOK
    <2> QED  BY <1>3, <1>4, <2>1
  <1> QED  BY <1>2, <1>5 DEF SumsAgree

(***************************************************************************)
(* Every step of billing keeps the sums.                                   *)
(***************************************************************************)
LEMMA BillingStepSums ==
    ASSUME BillingTypeOK, SumsAgree, [BillingNext]_billingVars
    PROVE  SumsAgree'
  <1>1. ASSUME NEW e \in Engagements, NEW amount \in Amounts, NEW cfg \in Configs,
               Encumber(e, amount, cfg)
        PROVE  SumsAgree'
    <2>1. Encumbrance # ReleaseReason /\ amount \in Nat
      BY AmountsAssumption DEF Encumbrance, ReleaseReason
    <2>2. HoldOnce(e, Encumbrance, amount, cfg) /\ UNCHANGED <<granted, replenished>>
      BY <1>1 DEF Encumber, EncumberCustomerEngagement
    <2> QED  BY <2>1, <2>2, HoldOnceSums
  <1>2. ASSUME NEW e \in Engagements, NEW amount \in Amounts, NEW cfg \in Configs,
               NEW n \in Revisions, Increase(e, n, amount, cfg)
        PROVE  SumsAgree'
    <2>1. CapRevision(n) # ReleaseReason /\ amount \in Nat
      BY AmountsAssumption DEF CapRevision, ReleaseReason
    <2>2. HoldOnce(e, CapRevision(n), amount, cfg) /\ UNCHANGED <<granted, replenished>>
      BY <1>2 DEF Increase, IncreaseCustomerEngagementCap
    <2> QED  BY <2>1, <2>2, HoldOnceSums
  <1>3. ASSUME NEW e \in Engagements, NEW amount \in Amounts, Release(e, amount)
        PROVE  SumsAgree'
    <2>1. amount \in Int
      BY AmountsAssumption
    <2> QED  BY <1>3, <2>1, ReleaseSums DEF Release
  <1>4. CASE CreditNext
    BY <1>4, CreditSums
  <1>5. CASE UNCHANGED billingVars
    BY <1>5 DEF billingVars, SumsAgree, LedgerIsSourceOfTruth, EveryHoldCountedOnce, DeltaSum,
                RowsOf, HoldRowsOf, SpentSum
  <1> QED  BY <1>1, <1>2, <1>3, <1>4, <1>5 DEF BillingNext, HoldNext

\* With no rows and no windows every sum is zero.
LEMMA BillingInitSums ==
    ASSUME BillingInit
    PROVE  SumsAgree
  <1>1. IsFiniteSet(ledger)
    BY FS_EmptySet DEF BillingInit
  <1>2. \A u \in Users : RowsOf(u) = {} /\ HoldRowsOf(u) = {}
    BY DEF BillingInit, RowsOf, HoldRowsOf
  <1>3. DeltaSum({}) = 0
    BY FS_EmptySet, DeltaSumGains
  <1>4. \A u \in Users : SpentSum(u) = 0
    <2> SUFFICES ASSUME NEW u \in Users PROVE SpentSum(u) = 0
      OBVIOUS
    <2> DEFINE S == 0 .. MaxTime
               f == [t \in S |-> window[u][t].spent]
    <2>1. SpentSum(u) = SumFunctionOnSet(f, S)
      BY DEF SpentSum, SumFunction
    <2>2. \A t \in S : f[t] = 0
      BY DEF BillingInit, NoWindow
    <2>3. IsFiniteSet(S)
      BY BoundsAssumption, FS_Interval
    <2> HIDE DEF f, S
    <2> QED  BY <2>1, <2>2, <2>3, SumOfZeros
  <1>5. \A u \in Users : balance[u] = 0 /\ granted[u] = 0 /\ replenished[u] = 0
    BY DEF BillingInit
  <1>6. \A u \in Users : DeltaSum(RowsOf(u)) = 0 /\ DeltaSum(HoldRowsOf(u)) = 0
    BY <1>2, <1>3, Zenon
  <1>7. LedgerIsSourceOfTruth
    <2> SUFFICES ASSUME NEW u \in Users
                 PROVE  balance[u] = granted[u] + replenished[u] + DeltaSum(RowsOf(u))
      BY DEF LedgerIsSourceOfTruth
    <2>1. balance[u] = 0 /\ granted[u] = 0 /\ replenished[u] = 0 /\ DeltaSum(RowsOf(u)) = 0
      BY <1>5, <1>6
    <2> QED  BY <2>1
  <1>8. EveryHoldCountedOnce
    <2> SUFFICES ASSUME NEW u \in Users
                 PROVE  SpentSum(u) <= -DeltaSum(HoldRowsOf(u)) /\ SpentSum(u) = -DeltaSum(HoldRowsOf(u))
      BY DEF EveryHoldCountedOnce
    <2>1. SpentSum(u) = 0 /\ DeltaSum(HoldRowsOf(u)) = 0
      BY <1>4, <1>6
    <2> DEFINE h == DeltaSum(HoldRowsOf(u))
               spent == SpentSum(u)
    <2>2. h \in Int /\ spent \in Int /\ h <= 0 /\ 0 <= h /\ spent <= 0 /\ 0 <= spent
      BY <2>1
    <2> HIDE DEF h, spent
    <2>3. spent <= -h /\ spent = -h
      BY <2>2
    <2> QED  BY <2>3 DEF h, spent
  <1> QED  BY <1>1, <1>7, <1>8 DEF SumsAgree

\* The sums agree in every reachable state.
LEMMA BillingSums == BillingSpec => []SumsAgree
  <1>1. BillingInit => SumsAgree
    BY BillingInitSums
  <1>2. BillingTypeOK /\ SumsAgree /\ [BillingNext]_billingVars => SumsAgree'
    BY BillingStepSums
  <1> QED  BY <1>1, <1>2, BillingTypeCorrect, PTL DEF BillingSpec

(***************************************************************************)
(* The ledger is the source of truth: a balance that every operation       *)
(* updates in place is always the credit granted plus the sum of the       *)
(* user's ledger rows, for any number of users and engagements.            *)
(***************************************************************************)
THEOREM LedgerIsTruth == BillingSpec => []LedgerIsSourceOfTruth
  <1>1. SumsAgree => LedgerIsSourceOfTruth
    BY DEF SumsAgree
  <1> QED  BY <1>1, BillingSums, PTL

(***************************************************************************)
(* Every hold under a cap is in exactly one spend window, whatever is      *)
(* replayed, released or reconfigured in between.                          *)
(***************************************************************************)
THEOREM HoldsCountedOnce == BillingSpec => []EveryHoldCountedOnce
  <1>1. SumsAgree => EveryHoldCountedOnce
    BY DEF SumsAgree
  <1> QED  BY <1>1, BillingSums, PTL

-----------------------------------------------------------------------------
(* Paid sessions. *)

(***************************************************************************)
(* What a transaction that places, raises or releases a hold leaves of the *)
(* billing types.                                                          *)
(***************************************************************************)
LEMMA HoldKeepsBilling ==
    ASSUME BillingTypeOK, NEW e \in Engagements, NEW reason \in Reasons,
           NEW amount \in Nat, NEW cfg \in Configs, HoldOnce(e, reason, amount, cfg),
           UNCHANGED <<granted, replenished, config, now>>
    PROVE  BillingTypeOK'
  BY HoldOnceType DEF BillingTypeOK

\* A release keeps the types of the billing tables.
LEMMA ReleaseKeepsBilling ==
    ASSUME BillingTypeOK, NEW e \in Engagements, NEW amount \in Nat,
           ReleaseCustomerEngagement(e, amount),
           UNCHANGED <<granted, replenished, config, now>>
    PROVE  BillingTypeOK'
  BY ReleaseType DEF BillingTypeOK

\* What leaves the billing tables alone keeps their types.
LEMMA BillingUnchanged ==
    ASSUME BillingTypeOK, UNCHANGED billingVars
    PROVE  BillingTypeOK'
  BY DEF BillingTypeOK, billingVars

\* Closing a session, with or without a refund, keeps the types of the billing tables.
LEMMA CloseKeepsBilling ==
    ASSUME TypeOK, NEW e \in Engagements, NEW amount \in Nat, NEW how,
           CloseAndRelease(e, amount, how),
           UNCHANGED <<granted, replenished, config, now>>
    PROVE  BillingTypeOK'
  <1>1. customerMax[e] \in Nat /\ BillingTypeOK
    BY DEF TypeOK
  <1>2. CASE customerMax[e] > amount
    <2>1. customerMax[e] - amount \in Nat
      BY <1>1, <1>2
    <2> QED  BY <1>1, <1>2, <2>1, ReleaseKeepsBilling DEF CloseAndRelease
  <1>3. CASE ~(customerMax[e] > amount)
    BY <1>1, <1>3 DEF CloseAndRelease, BillingTypeOK
  <1> QED  BY <1>2, <1>3

\* Revisions are numbers and their ledger reasons are reasons.
LEMMA RevisionsFacts ==
    /\ 0 \in Revisions
    /\ Revisions \subseteq Nat
    /\ NoAuth = -1
    /\ Encumbrance \in Reasons
    /\ \A n \in Revisions : CapRevision(n) \in Reasons
  BY BoundsAssumption DEF Revisions, NoAuth, Encumbrance, CapRevision, Reasons

(***************************************************************************)
(* Every step of the open request, of the service, of the broker and of    *)
(* the operator's credit keeps the types.                                  *)
(***************************************************************************)
LEMMA RequestStepType ==
    ASSUME TypeOK, NEW a \in Attempts,
           \/ \E amount \in Amounts : OpenSession(a, amount)
           \/ ClaimWholesaleEngagement(a)
           \/ ResumeWholesaleEngagement(a)
           \/ ClaimRefused(a)
           \/ IssueInitialAuthorization(a)
           \/ ReleaseRefused(a)
           \/ RecordInitialGrant(a)
           \/ InitialGrantRejected(a)
           \/ FundInitialGrant(a)
           \/ Crash(a)
    PROVE  TypeOK'
  <1> DEFINE e == Target[a]
  <1>e. e \in Engagements /\ Owner[e] \in Users
    BY TargetAssumption, OwnerAssumption
  <1>b. BillingTypeOK
    BY DEF TypeOK
  <1>1. ASSUME NEW amount \in Amounts, OpenSession(a, amount)  PROVE TypeOK'
    <2>1. BillingTypeOK'
      BY <1>1, <1>b, BillingUnchanged DEF OpenSession
    <2>2. config[Owner[e]] \in Configs
      BY <1>b, <1>e DEF BillingTypeOK
    <2> QED  BY <1>1, <2>1, <2>2, <1>e, AmountsAssumption
             DEF OpenSession, TypeOK, Goto, RunningRequest, FinishedRequest,
                 sessionVars, grantVars, brokerVars
  <1>2. CASE ClaimWholesaleEngagement(a)
    <2>1. BillingTypeOK'
      BY <1>2, <1>b, <1>e, HoldKeepsBilling, RevisionsFacts
      DEF ClaimWholesaleEngagement, EncumberCustomerEngagement, TypeOK
    <2> QED  BY <1>2, <2>1, <1>e
             DEF ClaimWholesaleEngagement, TypeOK, Goto, RunningRequest, SessionStates,
                 grantVars, brokerVars
  <1>3. CASE ResumeWholesaleEngagement(a)
    <2>1. BillingTypeOK'
      BY <1>3, <1>b, BillingUnchanged DEF ResumeWholesaleEngagement
    <2> QED  BY <1>3, <2>1 DEF ResumeWholesaleEngagement, TypeOK, Goto, RunningRequest,
                FinishedRequest, sessionVars, grantVars, brokerVars
  <1>4. CASE ClaimRefused(a)
    <2>1. BillingTypeOK'
      BY <1>4, <1>b, BillingUnchanged DEF ClaimRefused
    <2> QED  BY <1>4, <2>1 DEF ClaimRefused, TypeOK, Goto, FinishedRequest,
                sessionVars, grantVars, brokerVars
  <1>5. CASE IssueInitialAuthorization(a)
    <2>1. BillingTypeOK'
      BY <1>5, <1>b, BillingUnchanged DEF IssueInitialAuthorization
    <2> QED  BY <1>5, <2>1 DEF IssueInitialAuthorization, TypeOK, Goto, RunningRequest,
                FinishedRequest, sessionVars, grantVars, brokerVars
  <1>6. CASE ReleaseRefused(a)
    <2>1. CASE ReleaseUnauthorizedEngagement(e)
      <3>1. BillingTypeOK'
        BY <1>6, <2>1, <1>b, <1>e, ReleaseKeepsBilling
        DEF ReleaseRefused, ReleaseUnauthorizedEngagement, TypeOK
      <3> QED  BY <1>6, <2>1, <3>1 DEF ReleaseRefused, ReleaseUnauthorizedEngagement,
                  TypeOK, Goto, FinishedRequest, SessionStates, Outcomes, grantVars, brokerVars
    <2>2. CASE UNCHANGED <<balance, ledger, window, sessionVars>>
      <3>1. BillingTypeOK'
        BY <1>6, <2>2, <1>b DEF ReleaseRefused, BillingTypeOK
      <3> QED  BY <1>6, <2>2, <3>1 DEF ReleaseRefused, TypeOK, Goto, FinishedRequest,
                  sessionVars, grantVars, brokerVars
    <2> QED  BY <1>6, <2>1, <2>2 DEF ReleaseRefused
  <1>7. CASE RecordInitialGrant(a)
    <2>1. BillingTypeOK'
      BY <1>7, <1>b, BillingUnchanged DEF RecordInitialGrant
    <2>2. grantState' \in [Engagements -> [Revisions -> GrantStates]]
      BY <1>7, <1>e, RevisionsFacts DEF RecordInitialGrant, TypeOK, GrantStates, ActiveGrant
    <2>3. grantCap' \in [Engagements -> [Revisions -> Nat]]
      BY <1>7, <1>e, RevisionsFacts DEF RecordInitialGrant, TypeOK
    <2>4. authorization' \in [Engagements -> Revisions \cup {NoAuth}]
      BY <1>7, <1>e, RevisionsFacts DEF RecordInitialGrant, TypeOK
    <2>5. /\ pc' = [pc EXCEPT ![a] = "granted"]
          /\ UNCHANGED <<state, customerMax, billed, outcome, quote, resolved, brokerVars>>
      BY <1>7 DEF RecordInitialGrant, Goto
    <2> QED  BY <2>1, <2>2, <2>3, <2>4, <2>5 DEF TypeOK, RunningRequest, brokerVars
  <1>8. CASE InitialGrantRejected(a)
    <2>1. BillingTypeOK'
      BY <1>8, <1>b, BillingUnchanged DEF InitialGrantRejected
    <2> QED  BY <1>8, <2>1 DEF InitialGrantRejected, TypeOK, Goto, FinishedRequest,
                sessionVars, grantVars, brokerVars
  <1>9. CASE FundInitialGrant(a)
    <2>1. BillingTypeOK'
      BY <1>9, <1>b, BillingUnchanged DEF FundInitialGrant
    <2>2. delivered' \subseteq Engagements \X Revisions
      BY <1>9, <1>e, RevisionsFacts DEF FundInitialGrant, TypeOK
    <2>3. pc' \in [Attempts -> {"idle"} \cup RunningRequest \cup FinishedRequest]
      BY <1>9 DEF FundInitialGrant, TypeOK, Goto, FinishedRequest
    <2> QED  BY <1>9, <2>1, <2>2, <2>3 DEF FundInitialGrant, TypeOK, sessionVars, grantVars
  <1>10. CASE Crash(a)
    <2>1. BillingTypeOK'
      BY <1>10, <1>b, BillingUnchanged DEF Crash
    <2> QED  BY <1>10, <2>1 DEF Crash, TypeOK, Goto, FinishedRequest,
                sessionVars, grantVars, brokerVars
  <1> QED  BY <1>1, <1>2, <1>3, <1>4, <1>5, <1>6, <1>7, <1>8, <1>9, <1>10

\* A step of the service on a claimed session keeps the types.
LEMMA ServiceStepType ==
    ASSUME TypeOK, NEW e \in Engagements,
           \/ ReleaseStale(e)
           \/ \E amount \in Amounts, cfg \in Configs : RefillSession(e, amount, cfg)
           \/ \E amount \in 0 .. customerMax[e] : ResolveStuckWork(e, amount)
           \/ \E n \in Revisions :
                DeliverRevision(e, n) \/ CloseSession(e, n) \/ ReconcileGrant(e, n)
    PROVE  TypeOK'
  <1>b. BillingTypeOK
    BY DEF TypeOK
  <1>1. CASE ReleaseStale(e)
    <2>1. BillingTypeOK'
      BY <1>1, <1>b, ReleaseKeepsBilling
      DEF ReleaseStale, ReleaseUnauthorizedEngagement, TypeOK
    <2> QED  BY <1>1, <2>1 DEF ReleaseStale, ReleaseUnauthorizedEngagement, TypeOK,
                SessionStates, Outcomes, grantVars, requestVars, brokerVars
  <1>2. ASSUME NEW amount \in Amounts, NEW cfg \in Configs, RefillSession(e, amount, cfg)
        PROVE  TypeOK'
    <2> DEFINE next == authorization[e] + 1
    <2>1. /\ next \in Revisions /\ next \in Nat
          /\ amount \in Nat /\ customerMax[e] \in Nat /\ amount - customerMax[e] \in Nat
      BY <1>2, AmountsAssumption, BoundsAssumption DEF RefillSession, Revisions, TypeOK
    <2>2. /\ HoldOnce(e, CapRevision(next), amount - customerMax[e], cfg)
          /\ grantState' = [grantState EXCEPT ![e][next] = "issued"]
          /\ grantCap' = [grantCap EXCEPT ![e][next] = amount]
          /\ authorization' = [authorization EXCEPT ![e] = next]
      BY <1>2 DEF RefillSession, IncreaseCustomerEngagementCap
    <2> HIDE DEF next
    <2>3. BillingTypeOK'
      BY <1>2, <1>b, <2>1, <2>2, HoldKeepsBilling, RevisionsFacts DEF RefillSession
    <2>4. grantState' \in [Engagements -> [Revisions -> GrantStates]]
      BY <2>1, <2>2 DEF TypeOK, GrantStates, ActiveGrant
    <2>5. grantCap' \in [Engagements -> [Revisions -> Nat]]
      BY <2>1, <2>2 DEF TypeOK
    <2>6. authorization' \in [Engagements -> Revisions \cup {NoAuth}]
      BY <2>1, <2>2 DEF TypeOK
    <2> QED  BY <1>2, <2>1, <2>3, <2>4, <2>5, <2>6
             DEF RefillSession, TypeOK, requestVars, brokerVars
  <1>3. ASSUME NEW amount \in 0 .. customerMax[e], ResolveStuckWork(e, amount)
        PROVE  TypeOK'
    <2>1. BillingTypeOK'
      BY <1>3, CloseKeepsBilling DEF ResolveStuckWork
    <2>2. grantState' \in [Engagements -> [Revisions -> GrantStates]]
      BY <1>3 DEF ResolveStuckWork, TypeOK, GrantStates, RetiredGrant
    <2> QED  BY <1>3, <2>1, <2>2 DEF ResolveStuckWork, CloseAndRelease, TypeOK,
                SessionStates, Outcomes, requestVars, brokerVars
  <1>4. ASSUME NEW n \in Revisions, DeliverRevision(e, n)
        PROVE  TypeOK'
    <2>1. BillingTypeOK'
      BY <1>4, <1>b, BillingUnchanged DEF DeliverRevision
    <2> QED  BY <1>4, <2>1 DEF DeliverRevision, TypeOK, sessionVars, grantVars, requestVars
  <1>5. ASSUME NEW n \in Revisions, CloseSession(e, n)
        PROVE  TypeOK'
    <2>1. debit[e] \in Nat
      BY DEF TypeOK
    <2>2. BillingTypeOK'
      BY <1>5, <2>1, CloseKeepsBilling DEF CloseSession
    <2>3. grantState' \in [Engagements -> [Revisions -> GrantStates]]
      BY <1>5 DEF CloseSession, TypeOK, GrantStates, RetiredGrant
    <2> QED  BY <1>5, <2>1, <2>2, <2>3 DEF CloseSession, CloseAndRelease, TypeOK,
                SessionStates, Outcomes, requestVars, brokerVars
  <1>6. ASSUME NEW n \in Revisions, ReconcileGrant(e, n)
        PROVE  TypeOK'
    <2>1. BillingTypeOK'
      BY <1>6, <1>b, BillingUnchanged DEF ReconcileGrant
    <2>2. broker[e][n] \in GrantStates
      BY <1>6 DEF ReconcileGrant, TypeOK, BrokerStates, GrantStates, ActiveGrant, RetiredGrant
    <2>3. grantState' \in [Engagements -> [Revisions -> GrantStates]]
      BY <1>6, <2>2 DEF ReconcileGrant, TypeOK
    <2> QED  BY <1>6, <2>1, <2>3 DEF ReconcileGrant, TypeOK, sessionVars, requestVars, brokerVars
  <1> QED  BY <1>1, <1>2, <1>3, <1>4, <1>5, <1>6

\* A step of the broker keeps the types.
LEMMA BrokerStepType ==
    ASSUME TypeOK, NEW e \in Engagements,
           \/ BrokerAdmitsFirst(e)
           \/ \E n \in Revisions :
                \/ BrokerAdmitsRevision(e, n)
                \/ BrokerDebits(e, n)
                \/ \E to \in UnusedGrant : BrokerRetiresUnused(e, n, to)
                \/ BrokerLosesOutcome(e, n)
                \/ BrokerSettles(e, n)
    PROVE  TypeOK'
  <1>b. BillingTypeOK
    BY DEF TypeOK
  <1>1. ASSUME NEW n \in Revisions, NEW from, NEW to \in BrokerStates,
               BrokerMoves(e, n, from, to)
        PROVE  TypeOK'
    <2>1. BillingTypeOK'
      BY <1>1, <1>b, BillingUnchanged DEF BrokerMoves
    <2>2. broker' \in [Engagements -> [Revisions -> BrokerStates]]
      BY <1>1 DEF BrokerMoves, TypeOK
    <2> QED  BY <1>1, <2>1, <2>2 DEF BrokerMoves, TypeOK, sessionVars, grantVars, requestVars
  <1>2. ASSUME NEW n \in Revisions, BrokerAdmitsRevision(e, n)
        PROVE  TypeOK'
    <2>1. BillingTypeOK'
      BY <1>2, <1>b, BillingUnchanged DEF BrokerAdmitsRevision
    <2>2. broker' \in [Engagements -> [Revisions -> BrokerStates]]
      BY <1>2, BoundsAssumption DEF BrokerAdmitsRevision, TypeOK, BrokerStates
    <2> QED  BY <1>2, <2>1, <2>2
             DEF BrokerAdmitsRevision, TypeOK, sessionVars, grantVars, requestVars
  <1>3. ASSUME NEW n \in Revisions, BrokerDebits(e, n)
        PROVE  TypeOK'
    <2>1. BillingTypeOK'
      BY <1>3, <1>b, BillingUnchanged DEF BrokerDebits
    <2> QED  BY <1>3, <2>1 DEF BrokerDebits, TypeOK, sessionVars, grantVars, requestVars
  <1>4. {"admitted", "outcome_unknown", "settled"} \cup UnusedGrant \subseteq BrokerStates
    BY DEF BrokerStates
  <1> QED  BY <1>1, <1>2, <1>3, <1>4, RevisionsFacts
           DEF BrokerAdmitsFirst, BrokerRetiresUnused, BrokerLosesOutcome, BrokerSettles

\* Every step keeps the types.
LEMMA StepType ==
    ASSUME TypeOK, [Next]_vars
    PROVE  TypeOK'
  <1>1. CASE RequestNext
    BY <1>1, RequestStepType DEF RequestNext
  <1>2. CASE ServiceNext
    BY <1>2, ServiceStepType DEF ServiceNext
  <1>3. CASE BrokerNext
    BY <1>3, BrokerStepType DEF BrokerNext
  <1>4. CASE CreditStep
    <2>1. BillingTypeOK'
      BY <1>4, CreditNextType DEF CreditStep, TypeOK
    <2> QED  BY <1>4, <2>1
             DEF CreditStep, TypeOK, sessionVars, grantVars, requestVars, brokerVars
  <1>5. CASE UNCHANGED vars
    BY <1>5, BillingUnchanged
    DEF vars, TypeOK, sessionVars, grantVars, requestVars, brokerVars
  <1> QED  BY <1>1, <1>2, <1>3, <1>4, <1>5 DEF Next

\* The types hold at the start.
LEMMA InitType == Init => TypeOK
  <1>1. BillingInit => BillingTypeOK
    BY BoundsAssumption DEF BillingInit, BillingTypeOK, NoWindow, WindowRow
  <1> SUFFICES ASSUME Init PROVE TypeOK
    OBVIOUS
  <1>2. resolved \in [Attempts -> Configs]
    BY TargetAssumption, OwnerAssumption DEF Init, BillingInit
  <1> QED  BY <1>1, <1>2 DEF Init, TypeOK, SessionStates, Outcomes, GrantStates,
              BrokerStates, NoAuth

(***************************************************************************)
(* The detailed model of sessions, billing, requests and broker is type    *)
(* correct.                                                                *)
(***************************************************************************)
THEOREM TypeCorrect == Spec => []TypeOK
  <1>1. TypeOK /\ [Next]_vars => TypeOK'
    BY StepType
  <1> QED  BY InitType, <1>1, PTL DEF Spec

-----------------------------------------------------------------------------
(* The inductive invariant. *)

\* The conjuncts that say nothing about requests.
TablesAgree ==
    /\ LedgerFollowsRow
    /\ GrantsFollowAuthorization
    /\ GrantsWithinHold
    /\ OnlyGrantsTravel
    /\ BrokerChain
    /\ UnusedIsFinal
    /\ DebitCoveredByHold
    /\ ReleasedClaimHasNoGrant
    /\ SettledCloseLeavesNoAuthority

\* The conjuncts about requests.
RequestsAgree == QuoteIsHeld /\ FundedIsGranted

(***************************************************************************)
(* A step that touches neither the ledger nor a session, a grant or the    *)
(* broker keeps the tables in agreement.                                   *)
(***************************************************************************)
LEMMA TablesFrame ==
    ASSUME TablesAgree, UNCHANGED <<ledger, sessionVars, grantVars, brokerVars>>
    PROVE  TablesAgree'
  <1>1. /\ UNCHANGED ledger
        /\ UNCHANGED <<state, customerMax, authorization, billed, outcome>>
        /\ UNCHANGED <<grantState, grantCap, delivered, broker, debit>>
    BY DEF sessionVars, grantVars, brokerVars
  <1>2. LedgerFollowsRow'
    BY <1>1 DEF TablesAgree, LedgerFollowsRow
  <1>3. GrantsFollowAuthorization' /\ GrantsWithinHold' /\ UnusedIsFinal' /\ BrokerChain'
    BY <1>1 DEF TablesAgree, GrantsFollowAuthorization, GrantsWithinHold, UnusedIsFinal,
                BrokerChain, Present
  <1>4. OnlyGrantsTravel' /\ DebitCoveredByHold'
    BY <1>1 DEF TablesAgree, OnlyGrantsTravel, DebitCoveredByHold, Present
  <1>5. ReleasedClaimHasNoGrant' /\ SettledCloseLeavesNoAuthority'
    BY <1>1 DEF TablesAgree, ReleasedClaimHasNoGrant, SettledCloseLeavesNoAuthority, Present
  <1> QED  BY <1>2, <1>3, <1>4, <1>5 DEF TablesAgree

(***************************************************************************)
(* A request keeps what it quoted, and grants are never unrecorded: the    *)
(* request conjuncts survive a step of another component that does not     *)
(* change an unauthorized hold.                                            *)
(***************************************************************************)
LEMMA RequestsFrame ==
    ASSUME RequestsAgree, UNCHANGED <<pc, quote>>,
           \A e \in Engagements : Releasable(e)' =>
               Releasable(e) /\ customerMax'[e] = customerMax[e],
           \A e \in Engagements : state[e] # "none" => state'[e] # "none",
           \A e \in Engagements : Present(e, 0) => Present(e, 0)'
    PROVE  RequestsAgree'
  <1>1. \A a \in Attempts : Target[a] \in Engagements
    BY TargetAssumption
  <1>2. QuoteIsHeld'
    BY <1>1 DEF RequestsAgree, QuoteIsHeld
  <1>3. FundedIsGranted'
    BY <1>1 DEF RequestsAgree, FundedIsGranted
  <1> QED  BY <1>2, <1>3 DEF RequestsAgree

(***************************************************************************)
(* Steps of a request that only move its program counter.                  *)
(***************************************************************************)
LEMMA QuietRequestStep ==
    ASSUME TypeOK, TablesAgree, RequestsAgree, NEW a \in Attempts,
           \/ \E amount \in Amounts : OpenSession(a, amount)
           \/ ResumeWholesaleEngagement(a)
           \/ ClaimRefused(a)
           \/ IssueInitialAuthorization(a)
           \/ InitialGrantRejected(a)
           \/ Crash(a)
    PROVE  TablesAgree' /\ RequestsAgree'
  <1>1. UNCHANGED <<ledger, sessionVars, grantVars, brokerVars>>
    BY DEF OpenSession, ResumeWholesaleEngagement, ClaimRefused, IssueInitialAuthorization,
           InitialGrantRejected, Crash, billingVars
  <1>2. UNCHANGED <<state, customerMax, authorization, grantState>>
    BY <1>1 DEF sessionVars, grantVars
  <1>3. pc \in [Attempts -> {"idle"} \cup RunningRequest \cup FinishedRequest]
    BY DEF TypeOK
  <1>4. /\ \A b \in Attempts \ {a} : pc'[b] = pc[b] /\ quote'[b] = quote[b]
        /\ pc'[a] # "granted"
        /\ pc'[a] \in {"claimed", "refused", "signed"} =>
             /\ quote'[a] = quote[a]
             /\ \/ pc[a] = "claimed"
                \/ state[Target[a]] = "open" /\ customerMax[Target[a]] = quote[a]
    BY <1>3 DEF OpenSession, ResumeWholesaleEngagement, ClaimRefused, TypeOK,
                IssueInitialAuthorization, InitialGrantRejected, Crash, Goto
  <1>5. QuoteIsHeld'
    <2> SUFFICES ASSUME NEW b \in Attempts, pc'[b] \in {"claimed", "refused", "signed"}
                 PROVE  /\ state[Target[b]] # "none"
                        /\ Releasable(Target[b]) => quote'[b] = customerMax[Target[b]]
      BY <1>2 DEF QuoteIsHeld, Releasable
    <2> QED  BY <1>4 DEF RequestsAgree, QuoteIsHeld
  <1>6. FundedIsGranted'
    BY <1>2, <1>4 DEF RequestsAgree, FundedIsGranted, Present
  <1> QED  BY <1>1, <1>5, <1>6, TablesFrame DEF RequestsAgree

(***************************************************************************)
(* claim_wholesale_engagement on a new key.                                *)
(***************************************************************************)
LEMMA ClaimStep ==
    ASSUME TypeOK, TablesAgree, RequestsAgree, NEW a \in Attempts,
           ClaimWholesaleEngagement(a)
    PROVE  TablesAgree' /\ RequestsAgree'
  <1> DEFINE e == Target[a]
  <1>e. e \in Engagements
    BY TargetAssumption
  <1>1. /\ state[e] = "none"
        /\ HoldOnce(e, Encumbrance, quote[a], resolved[a])
        /\ state' = [state EXCEPT ![e] = "open"]
        /\ customerMax' = [customerMax EXCEPT ![e] = quote[a]]
        /\ pc[a] = "routed"
        /\ pc' = [pc EXCEPT ![a] = "claimed"]
        /\ UNCHANGED <<authorization, billed, outcome, grantState, grantCap, quote,
                       delivered, broker, debit>>
    BY DEF ClaimWholesaleEngagement, EncumberCustomerEngagement, Goto, grantVars, brokerVars
  <1>t. /\ state \in [Engagements -> SessionStates]
        /\ customerMax \in [Engagements -> Nat]
        /\ quote \in [Attempts -> Nat]
        /\ debit \in [Engagements -> Nat]
        /\ pc \in [Attempts -> {"idle"} \cup RunningRequest \cup FinishedRequest]
        /\ authorization \in [Engagements -> Revisions \cup {NoAuth}]
    BY DEF TypeOK
  <1>2. /\ authorization[e] = NoAuth /\ outcome[e] = "none"
        /\ \A n \in Revisions : ~Present(e, n)
    BY <1>1, <1>e, RevisionsFacts DEF TablesAgree, GrantsFollowAuthorization
  <1>3. LedgerFollowsRow'
    <2>1. ledger' = ledger \cup
            {[engagement |-> e, reason |-> Encumbrance, delta |-> -quote[a]]}
          \/ ledger' = ledger
      BY <1>1 DEF HoldOnce, ApplyDelta
    <2>2. \A row \in ledger : row.engagement # e
      BY <1>1 DEF TablesAgree, LedgerFollowsRow
    <2>3. ledger \subseteq LedgerRow
      BY DEF TypeOK, BillingTypeOK
    <2>4. Encumbrance # ReleaseReason /\ \A n \in Revisions : Encumbrance # CapRevision(n)
      BY DEF Encumbrance, ReleaseReason, CapRevision
    <2> SUFFICES ASSUME NEW row \in ledger'
                 PROVE  /\ state'[row.engagement] # "none"
                        /\ row.reason = ReleaseReason => state'[row.engagement] = "closed"
                        /\ state'[row.engagement] = "open" => \A n \in Revisions :
                             row.reason = CapRevision(n) => n <= authorization'[row.engagement]
      BY DEF LedgerFollowsRow
    <2>5. CASE row \in ledger
      BY <1>1, <1>t, <2>2, <2>3, <2>5 DEF TablesAgree, LedgerFollowsRow, LedgerRow
    <2>6. CASE row = [engagement |-> e, reason |-> Encumbrance, delta |-> -quote[a]]
      BY <1>1, <1>t, <1>e, <2>4, <2>6
    <2> QED  BY <2>1, <2>5, <2>6
  <1>4. GrantsFollowAuthorization' /\ GrantsWithinHold' /\ UnusedIsFinal' /\ BrokerChain'
    BY <1>1, <1>2, <1>e, <1>t, RevisionsFacts
    DEF TablesAgree, GrantsFollowAuthorization, GrantsWithinHold, UnusedIsFinal,
        BrokerChain, Present
  <1>5. OnlyGrantsTravel'
    BY <1>1 DEF TablesAgree, OnlyGrantsTravel, Present
  <1>6. DebitCoveredByHold'
    <2>1. debit[e] = 0
      BY <1>2, <1>e DEF TablesAgree, OnlyGrantsTravel
    <2> QED  BY <1>1, <1>e, <1>t, <2>1 DEF TablesAgree, DebitCoveredByHold
  <1>7. ReleasedClaimHasNoGrant' /\ SettledCloseLeavesNoAuthority'
    BY <1>1 DEF TablesAgree, ReleasedClaimHasNoGrant, SettledCloseLeavesNoAuthority, Present
  <1>8. QuoteIsHeld'
    <2> SUFFICES ASSUME NEW b \in Attempts, pc'[b] \in {"claimed", "refused", "signed"}
                 PROVE  /\ state'[Target[b]] # "none"
                        /\ Releasable(Target[b])' => quote'[b] = customerMax'[Target[b]]
      BY DEF QuoteIsHeld
    <2>1. Target[b] \in Engagements
      BY TargetAssumption
    <2>2. CASE b = a
      BY <1>1, <1>t, <1>e, <2>2
    <2>3. CASE b # a
      <3>1. pc[b] \in {"claimed", "refused", "signed"}
        BY <1>1, <1>t, <2>3
      <3>2. Target[b] # e
        BY <1>1, <3>1 DEF RequestsAgree, QuoteIsHeld
      <3> QED  BY <1>1, <1>t, <2>1, <3>1, <3>2 DEF RequestsAgree, QuoteIsHeld, Releasable
    <2> QED  BY <2>2, <2>3
  <1>9. FundedIsGranted'
    BY <1>1, <1>t DEF RequestsAgree, FundedIsGranted, Present
  <1> QED  BY <1>3, <1>4, <1>5, <1>6, <1>7, <1>8, <1>9 DEF TablesAgree, RequestsAgree

(***************************************************************************)
(* The ledger after a release: one more release row at most, for a row     *)
(* that is now closed.  Shared by the three ways to close a session.       *)
(***************************************************************************)
LEMMA ReleaseLedger ==
    ASSUME TypeOK, LedgerFollowsRow, NEW e \in Engagements, NEW amount,
           ReleaseCustomerEngagement(e, amount) \/ ledger' = ledger,
           state[e] # "none", state' = [state EXCEPT ![e] = "closed"],
           \A d \in Engagements \ {e} : authorization'[d] = authorization[d]
    PROVE  LedgerFollowsRow'
  <1>1. \/ ledger' = ledger
        \/ ledger' = ledger \cup
             {[engagement |-> e, reason |-> ReleaseReason, delta |-> amount]}
    BY DEF ReleaseCustomerEngagement, ApplyDelta
  <1>2. ledger \subseteq LedgerRow /\ state \in [Engagements -> SessionStates]
    BY DEF TypeOK, BillingTypeOK
  <1> SUFFICES ASSUME NEW row \in ledger'
               PROVE  /\ state'[row.engagement] # "none"
                      /\ row.reason = ReleaseReason => state'[row.engagement] = "closed"
                      /\ state'[row.engagement] = "open" => \A n \in Revisions :
                           row.reason = CapRevision(n) => n <= authorization'[row.engagement]
    BY DEF LedgerFollowsRow
  <1>3. CASE row \in ledger
    <2>1. row.engagement \in Engagements
      BY <1>2, <1>3 DEF LedgerRow
    <2>2. CASE row.engagement = e
      BY <1>2, <2>2
    <2>3. CASE row.engagement # e
      <3>1. /\ state'[row.engagement] = state[row.engagement]
            /\ authorization'[row.engagement] = authorization[row.engagement]
        BY <1>2, <2>1, <2>3
      <3> QED  BY <1>3, <3>1 DEF LedgerFollowsRow
    <2> QED  BY <2>2, <2>3
  <1>4. CASE row = [engagement |-> e, reason |-> ReleaseReason, delta |-> amount]
    BY <1>2, <1>4
  <1> QED  BY <1>1, <1>3, <1>4

(***************************************************************************)
(* release_unauthorized_engagement keeps the tables in agreement: what it  *)
(* closes has no grant, so nothing of it is at the broker.                 *)
(***************************************************************************)
LEMMA ReleaseUnauthorizedTables ==
    ASSUME TypeOK, TablesAgree, NEW e \in Engagements,
           ReleaseUnauthorizedEngagement(e), UNCHANGED <<grantVars, brokerVars>>
    PROVE  TablesAgree'
  <1>1. /\ state[e] = "open" /\ authorization[e] = NoAuth
        /\ ReleaseCustomerEngagement(e, customerMax[e])
        /\ state' = [state EXCEPT ![e] = "closed"]
        /\ billed' = [billed EXCEPT ![e] = 0]
        /\ outcome' = [outcome EXCEPT ![e] = "not_admitted"]
        /\ UNCHANGED <<customerMax, authorization, grantState, grantCap,
                       delivered, broker, debit>>
    BY DEF ReleaseUnauthorizedEngagement, Releasable, grantVars, brokerVars
  <1>t. /\ state \in [Engagements -> SessionStates]
        /\ outcome \in [Engagements -> Outcomes]
        /\ billed \in [Engagements -> Nat]
    BY DEF TypeOK
  <1>2. \A n \in Revisions : ~Present(e, n)
    BY <1>1, RevisionsFacts DEF TablesAgree, GrantsFollowAuthorization
  <1>3. LedgerFollowsRow'
    BY <1>1, ReleaseLedger DEF TablesAgree
  <1>4. GrantsFollowAuthorization' /\ GrantsWithinHold'
    BY <1>1, <1>t DEF TablesAgree, GrantsFollowAuthorization, GrantsWithinHold, Present
  <1>5. OnlyGrantsTravel' /\ BrokerChain' /\ UnusedIsFinal'
    BY <1>1 DEF TablesAgree, OnlyGrantsTravel, BrokerChain, UnusedIsFinal, Present
  <1>6. DebitCoveredByHold'
    BY <1>1, <1>t DEF TablesAgree, DebitCoveredByHold
  <1>7. ReleasedClaimHasNoGrant'
    <2>1. debit[e] = 0 /\ \A n \in Revisions : <<e, n>> \notin delivered
      BY <1>2 DEF TablesAgree, OnlyGrantsTravel
    <2> QED  BY <1>1, <1>2, <1>t, <2>1 DEF TablesAgree, ReleasedClaimHasNoGrant, Present
  <1>8. SettledCloseLeavesNoAuthority'
    BY <1>1, <1>t DEF TablesAgree, SettledCloseLeavesNoAuthority, Present
  <1> QED  BY <1>3, <1>4, <1>5, <1>6, <1>7, <1>8 DEF TablesAgree

\* The release of a refused claim keeps tables and requests in agreement.
LEMMA ReleaseRefusedStep ==
    ASSUME TypeOK, TablesAgree, RequestsAgree, NEW a \in Attempts, ReleaseRefused(a)
    PROVE  TablesAgree' /\ RequestsAgree'
  <1> DEFINE e == Target[a]
  <1>e. /\ e \in Engagements
        /\ \A b \in Attempts : Target[b] \in Engagements
    BY TargetAssumption
  <1>1. /\ pc' = [pc EXCEPT ![a] = "failed"]
        /\ UNCHANGED <<grantVars, brokerVars, quote, grantState>>
    BY DEF ReleaseRefused, Goto, grantVars
  <1>2. \/ ReleaseUnauthorizedEngagement(e)
        \/ UNCHANGED <<balance, ledger, window, sessionVars>>
    BY DEF ReleaseRefused
  <1>3. TablesAgree'
    BY <1>e, <1>1, <1>2, ReleaseUnauthorizedTables, TablesFrame
  <1>t. /\ pc \in [Attempts -> {"idle"} \cup RunningRequest \cup FinishedRequest]
        /\ state \in [Engagements -> SessionStates]
    BY DEF TypeOK
  <1>4. \A d \in Engagements : /\ customerMax'[d] = customerMax[d]
                               /\ authorization'[d] = authorization[d]
                               /\ state'[d] = state[d] \/ state'[d] = "closed"
    BY <1>2, <1>t DEF ReleaseUnauthorizedEngagement, sessionVars
  <1>5. QuoteIsHeld'
    BY <1>e, <1>1, <1>4, <1>t DEF RequestsAgree, QuoteIsHeld, Releasable
  <1>6. FundedIsGranted'
    BY <1>1, <1>t DEF RequestsAgree, FundedIsGranted, Present
  <1> QED  BY <1>3, <1>5, <1>6 DEF RequestsAgree

(***************************************************************************)
(* record_spend_authorization_grant for revision 0: the row is open and    *)
(* holds exactly what the grant authorizes.                                *)
(***************************************************************************)
LEMMA RecordInitialStep ==
    ASSUME TypeOK, TablesAgree, RequestsAgree, NEW a \in Attempts, RecordInitialGrant(a)
    PROVE  TablesAgree' /\ RequestsAgree'
  <1> DEFINE e == Target[a]
  <1>e. /\ e \in Engagements
        /\ \A b \in Attempts : Target[b] \in Engagements
    BY TargetAssumption
  <1>1. /\ pc[a] = "signed" /\ state[e] = "open" /\ grantState[e][0] = "absent"
        /\ grantState' = [grantState EXCEPT ![e][0] = "issued"]
        /\ grantCap' = [grantCap EXCEPT ![e][0] = quote[a]]
        /\ authorization' = [authorization EXCEPT ![e] = 0]
        /\ pc' = [pc EXCEPT ![a] = "granted"]
        /\ UNCHANGED <<ledger, state, customerMax, billed, outcome, quote,
                       delivered, broker, debit>>
    BY DEF RecordInitialGrant, Goto, brokerVars, billingVars
  <1>t. /\ pc \in [Attempts -> {"idle"} \cup RunningRequest \cup FinishedRequest]
        /\ authorization \in [Engagements -> Revisions \cup {NoAuth}]
        /\ grantState \in [Engagements -> [Revisions -> GrantStates]]
        /\ grantCap \in [Engagements -> [Revisions -> Nat]]
        /\ customerMax \in [Engagements -> Nat]
        /\ ledger \subseteq LedgerRow
    BY DEF TypeOK, BillingTypeOK
  <1>2. authorization[e] = NoAuth
    <2>1. ~(0 <= authorization[e])
      BY <1>1, <1>e, RevisionsFacts DEF TablesAgree, GrantsFollowAuthorization, Present
    <2>2. authorization[e] \in Revisions \cup {NoAuth}
      BY <1>e, <1>t
    <2> QED  BY <2>1, <2>2 DEF Revisions
  <1>3. \A n \in Revisions : ~Present(e, n)
    BY <1>1, <1>2, <1>e, RevisionsFacts DEF TablesAgree, GrantsFollowAuthorization
  <1>4. quote[a] = customerMax[e]
    BY <1>1, <1>2 DEF RequestsAgree, QuoteIsHeld, Releasable
  <1>5. \A d \in Engagements, n \in Revisions :
          /\ Present(d, n)' <=> Present(d, n) \/ (d = e /\ n = 0)
          /\ ~(d = e /\ n = 0) => /\ grantState'[d][n] = grantState[d][n]
                                  /\ grantCap'[d][n] = grantCap[d][n]
    BY <1>1, <1>t, <1>e, RevisionsFacts DEF Present
  <1>6. grantState'[e][0] = "issued" /\ grantCap'[e][0] = quote[a]
    BY <1>1, <1>t, <1>e, RevisionsFacts
  <1>7. LedgerFollowsRow'
    BY <1>1, <1>2, <1>e, <1>t, RevisionsFacts DEF TablesAgree, LedgerFollowsRow, LedgerRow
  <1>8. GrantsFollowAuthorization'
    <2> SUFFICES ASSUME NEW d \in Engagements
                 PROVE  /\ state'[d] = "none" => authorization'[d] = NoAuth
                        /\ state'[d] # "closed" =>
                             \A n \in Revisions : Present(d, n)' <=> n <= authorization'[d]
                        /\ outcome'[d] # "none" => state'[d] = "closed"
      BY DEF GrantsFollowAuthorization
    <2>1. CASE d = e
      BY <1>1, <1>3, <1>5, <1>e, <1>t, <2>1, RevisionsFacts
      DEF TablesAgree, GrantsFollowAuthorization
    <2>2. CASE d # e
      BY <1>1, <1>5, <1>t, <2>2 DEF TablesAgree, GrantsFollowAuthorization
    <2> QED  BY <2>1, <2>2
  <1>9. GrantsWithinHold'
    BY <1>1, <1>4, <1>5, <1>6, <1>e, <1>t DEF TablesAgree, GrantsWithinHold
  <1>10. OnlyGrantsTravel'
    BY <1>1, <1>3, <1>5, <1>e DEF TablesAgree, OnlyGrantsTravel
  <1>11. BrokerChain'
    BY <1>1 DEF TablesAgree, BrokerChain
  <1>12. UnusedIsFinal'
    BY <1>1, <1>5, <1>6 DEF TablesAgree, UnusedIsFinal, UnusedGrant
  <1>13. DebitCoveredByHold'
    BY <1>1 DEF TablesAgree, DebitCoveredByHold
  <1>14. ReleasedClaimHasNoGrant' /\ SettledCloseLeavesNoAuthority'
    <2>1. outcome[e] = "none"
      BY <1>1, <1>e DEF TablesAgree, GrantsFollowAuthorization
    <2> QED  BY <1>1, <1>5, <2>1
             DEF TablesAgree, ReleasedClaimHasNoGrant, SettledCloseLeavesNoAuthority
  <1>15. QuoteIsHeld'
    BY <1>1, <1>e, <1>t, RevisionsFacts DEF RequestsAgree, QuoteIsHeld, Releasable
  <1>16. FundedIsGranted'
    BY <1>1, <1>5, <1>e, <1>t, RevisionsFacts DEF RequestsAgree, FundedIsGranted
  <1> QED  BY <1>7, <1>8, <1>9, <1>10, <1>11, <1>12, <1>13, <1>14, <1>15, <1>16
           DEF TablesAgree, RequestsAgree

(***************************************************************************)
(* Funding and the response: only a recorded grant is delivered.           *)
(***************************************************************************)
LEMMA FundStep ==
    ASSUME TypeOK, TablesAgree, RequestsAgree, NEW a \in Attempts, FundInitialGrant(a)
    PROVE  TablesAgree' /\ RequestsAgree'
  <1>e. \A b \in Attempts : Target[b] \in Engagements
    BY TargetAssumption
  <1>1. /\ pc[a] = "granted"
        /\ pc' = [pc EXCEPT ![a] = "completed"] \/ pc' = [pc EXCEPT ![a] = "unavailable"]
        /\ delivered' = delivered \/ delivered' = delivered \cup {<<Target[a], 0>>}
        /\ UNCHANGED <<ledger, state, customerMax, authorization, billed, outcome,
                       grantState, grantCap, quote, broker, debit>>
    BY DEF FundInitialGrant, Goto, sessionVars, grantVars, billingVars
  <1>t. pc \in [Attempts -> {"idle"} \cup RunningRequest \cup FinishedRequest]
    BY DEF TypeOK
  <1>2. Present(Target[a], 0)
    BY <1>1 DEF RequestsAgree, FundedIsGranted
  <1>3. LedgerFollowsRow'
    BY <1>1 DEF TablesAgree, LedgerFollowsRow
  <1>4. GrantsFollowAuthorization' /\ GrantsWithinHold' /\ BrokerChain' /\ UnusedIsFinal'
    BY <1>1 DEF TablesAgree, GrantsFollowAuthorization, GrantsWithinHold, BrokerChain,
                UnusedIsFinal, Present
  <1>5. OnlyGrantsTravel'
    BY <1>1, <1>2 DEF TablesAgree, OnlyGrantsTravel, Present
  <1>6. DebitCoveredByHold' /\ SettledCloseLeavesNoAuthority'
    BY <1>1 DEF TablesAgree, DebitCoveredByHold, SettledCloseLeavesNoAuthority, Present
  <1>7. ReleasedClaimHasNoGrant'
    <2>1. outcome[Target[a]] # "not_admitted"
      BY <1>2, <1>e, RevisionsFacts DEF TablesAgree, ReleasedClaimHasNoGrant
    <2> QED  BY <1>1, <2>1 DEF TablesAgree, ReleasedClaimHasNoGrant, Present
  <1>8. QuoteIsHeld'
    BY <1>1, <1>t DEF RequestsAgree, QuoteIsHeld, Releasable
  <1>9. FundedIsGranted'
    BY <1>1, <1>t DEF RequestsAgree, FundedIsGranted, Present
  <1> QED  BY <1>3, <1>4, <1>5, <1>6, <1>7, <1>8, <1>9 DEF TablesAgree, RequestsAgree

\* The release of a stale claim keeps tables and requests in agreement.
LEMMA ReleaseStaleStep ==
    ASSUME TypeOK, TablesAgree, RequestsAgree, NEW e \in Engagements, ReleaseStale(e)
    PROVE  TablesAgree' /\ RequestsAgree'
  <1>1. /\ ReleaseUnauthorizedEngagement(e)
        /\ UNCHANGED <<grantVars, brokerVars>>
        /\ UNCHANGED <<pc, quote, grantState>>
    BY DEF ReleaseStale, requestVars, grantVars
  <1>2. TablesAgree'
    BY <1>1, ReleaseUnauthorizedTables
  <1>3. state \in [Engagements -> SessionStates]
    BY DEF TypeOK
  <1>4. RequestsAgree'
    BY <1>1, <1>3, RequestsFrame DEF ReleaseUnauthorizedEngagement, Releasable, Present
  <1> QED  BY <1>2, <1>4

(***************************************************************************)
(* refill_session: the next revision, backed by the larger hold.           *)
(***************************************************************************)
LEMMA RefillStep ==
    ASSUME TypeOK, TablesAgree, RequestsAgree, NEW e \in Engagements,
           NEW amount \in Amounts, NEW cfg \in Configs, RefillSession(e, amount, cfg)
    PROVE  TablesAgree' /\ RequestsAgree'
  <1> DEFINE next == authorization[e] + 1
             row0 == [engagement |-> e, reason |-> CapRevision(next),
                      delta |-> -(amount - customerMax[e])]
  <1>1. /\ state[e] = "open" /\ authorization[e] \in 0 .. MaxRevision - 1
        /\ amount > customerMax[e]
        /\ ledger' = ledger \/ ledger' = ledger \cup {row0}
        /\ grantState' = [grantState EXCEPT ![e][next] = "issued"]
        /\ grantCap' = [grantCap EXCEPT ![e][next] = amount]
        /\ authorization' = [authorization EXCEPT ![e] = next]
        /\ customerMax' = [customerMax EXCEPT ![e] = amount]
        /\ UNCHANGED <<state, billed, outcome, pc, quote, delivered, broker, debit>>
    BY DEF RefillSession, IncreaseCustomerEngagementCap, HoldOnce, ApplyDelta,
           requestVars, brokerVars
  <1>2. /\ next \in Revisions /\ next \in Nat /\ next > authorization[e] /\ amount \in Nat
        /\ authorization[e] \in Nat
    BY <1>1, AmountsAssumption, BoundsAssumption DEF Revisions
  <1>3. row0.engagement = e /\ row0.reason = CapRevision(next)
    OBVIOUS
  <1> HIDE DEF row0
  <1>t. /\ authorization \in [Engagements -> Revisions \cup {NoAuth}]
        /\ grantState \in [Engagements -> [Revisions -> GrantStates]]
        /\ grantCap \in [Engagements -> [Revisions -> Nat]]
        /\ customerMax \in [Engagements -> Nat]
        /\ debit \in [Engagements -> Nat]
        /\ ledger \subseteq LedgerRow
    BY DEF TypeOK, BillingTypeOK
  <1>4. authorization'[e] = authorization[e] + 1 /\ authorization'[e] = next
        /\ \A d \in Engagements \ {e} : authorization'[d] = authorization[d]
    BY <1>1, <1>t
  <1> HIDE DEF next
  <1>5. \A d \in Engagements, n \in Revisions :
          /\ Present(d, n)' <=> Present(d, n) \/ (d = e /\ n = next)
          /\ ~(d = e /\ n = next) => /\ grantState'[d][n] = grantState[d][n]
                                     /\ grantCap'[d][n] = grantCap[d][n]
    BY <1>1, <1>2, <1>t DEF Present
  <1>6. /\ grantState'[e][next] = "issued" /\ grantCap'[e][next] = amount
        /\ customerMax'[e] = amount
        /\ \A d \in Engagements \ {e} : customerMax'[d] = customerMax[d]
    BY <1>1, <1>2, <1>t
  <1>7. ~Present(e, next)
    BY <1>1, <1>2 DEF TablesAgree, GrantsFollowAuthorization
  <1>8. LedgerFollowsRow'
    <2> SUFFICES ASSUME NEW row \in ledger'
                 PROVE  /\ state'[row.engagement] # "none"
                        /\ row.reason = ReleaseReason => state'[row.engagement] = "closed"
                        /\ state'[row.engagement] = "open" => \A n \in Revisions :
                             row.reason = CapRevision(n) => n <= authorization'[row.engagement]
      BY DEF LedgerFollowsRow
    <2>1. CASE row \in ledger
      <3>1. row.engagement \in Engagements
        BY <1>t, <2>1 DEF LedgerRow
      <3>2. \A n \in Revisions : n <= authorization[row.engagement] =>
                                   n <= authorization'[row.engagement]
        <4>1. CASE row.engagement = e
          <5>1. \A n \in Revisions : n \in Nat
            BY RevisionsFacts
          <5>2. \A n \in Nat : n <= authorization[e] => n <= authorization[e] + 1
            BY <1>2
          <5> QED  BY <1>4, <4>1, <5>1, <5>2
        <4>2. CASE row.engagement # e
          BY <1>4, <3>1, <4>2
        <4> QED  BY <4>1, <4>2
      <3> QED  BY <1>1, <2>1, <3>1, <3>2 DEF TablesAgree, LedgerFollowsRow
    <2>2. CASE row = row0
      <3>1. row.reason # ReleaseReason
        BY <1>3, <2>2 DEF CapRevision, ReleaseReason
      <3>2. \A n \in Revisions : row.reason = CapRevision(n) => n = next
        BY <1>3, <2>2 DEF CapRevision
      <3> QED  BY <1>1, <1>2, <1>3, <1>4, <2>2, <3>1, <3>2
    <2> QED  BY <1>1, <2>1, <2>2
  <1>9. GrantsFollowAuthorization'
    <2> SUFFICES ASSUME NEW d \in Engagements
                 PROVE  /\ state'[d] = "none" => authorization'[d] = NoAuth
                        /\ state'[d] # "closed" =>
                             \A n \in Revisions : Present(d, n)' <=> n <= authorization'[d]
                        /\ outcome'[d] # "none" => state'[d] = "closed"
      BY DEF GrantsFollowAuthorization
    <2>1. CASE d = e
      <3>1. \A n \in Revisions : n <= authorization'[e] <=> n <= authorization[e] \/ n = next
        BY <1>2, <1>4, RevisionsFacts
      <3> QED  BY <1>1, <1>5, <2>1, <3>1 DEF TablesAgree, GrantsFollowAuthorization
    <2>2. CASE d # e
      BY <1>1, <1>4, <1>5, <2>2 DEF TablesAgree, GrantsFollowAuthorization
    <2> QED  BY <2>1, <2>2
  <1>10. GrantsWithinHold'
    <2> SUFFICES ASSUME NEW d \in Engagements, NEW n \in Revisions,
                        state'[d] = "open", Present(d, n)'
                 PROVE  grantCap'[d][n] <= customerMax'[d]
      BY DEF GrantsWithinHold
    <2>1. CASE d = e /\ n = next
      BY <1>2, <1>6, <2>1
    <2>2. CASE ~(d = e /\ n = next)
      <3>1. /\ grantCap'[d][n] = grantCap[d][n]
            /\ grantCap[d][n] <= customerMax[d]
            /\ grantCap[d][n] \in Nat /\ customerMax[d] \in Nat
        BY <1>1, <1>5, <1>t, <2>2 DEF TablesAgree, GrantsWithinHold
      <3>2. customerMax'[d] >= customerMax[d] /\ customerMax'[d] \in Nat
        BY <1>1, <1>2, <1>6, <1>t
      <3> QED  BY <3>1, <3>2
    <2> QED  BY <2>1, <2>2
  <1>11. OnlyGrantsTravel'
    <2>1. \E n \in Revisions : Present(e, n)'
      BY <1>2, <1>5
    <2> QED  BY <1>1, <1>2, <1>5, <2>1 DEF TablesAgree, OnlyGrantsTravel
  <1>12. BrokerChain'
    BY <1>1 DEF TablesAgree, BrokerChain
  <1>13. UnusedIsFinal'
    BY <1>1, <1>5, <1>6 DEF TablesAgree, UnusedIsFinal, UnusedGrant
  <1>14. DebitCoveredByHold'
    <2>1. debit[e] <= customerMax'[e]
      BY <1>1, <1>2, <1>6, <1>t DEF TablesAgree, DebitCoveredByHold
    <2> QED  BY <1>1, <1>6, <2>1 DEF TablesAgree, DebitCoveredByHold
  <1>15. ReleasedClaimHasNoGrant' /\ SettledCloseLeavesNoAuthority'
    <2>1. outcome[e] = "none"
      BY <1>1 DEF TablesAgree, GrantsFollowAuthorization
    <2> QED  BY <1>1, <1>5, <2>1
             DEF TablesAgree, ReleasedClaimHasNoGrant, SettledCloseLeavesNoAuthority
  <1>16. RequestsAgree'
    <2>1. authorization'[e] # NoAuth /\ Present(e, 0)'
      BY <1>2, <1>4, <1>5, <1>1, RevisionsFacts
      DEF TablesAgree, GrantsFollowAuthorization
    <2>2. \A d \in Engagements : Releasable(d)' =>
            Releasable(d) /\ customerMax'[d] = customerMax[d]
      BY <1>1, <1>4, <1>6, <2>1 DEF Releasable
    <2>3. \A d \in Engagements : Present(d, 0) => Present(d, 0)'
      BY <1>5, RevisionsFacts
    <2> QED  BY <1>1, <2>2, <2>3, RequestsFrame
  <1> QED  BY <1>8, <1>9, <1>10, <1>11, <1>12, <1>13, <1>14, <1>15, <1>16 DEF TablesAgree

(***************************************************************************)
(* A refilled revision is delivered only if it is recorded.                *)
(***************************************************************************)
LEMMA DeliverStep ==
    ASSUME TypeOK, TablesAgree, RequestsAgree, NEW e \in Engagements, NEW n \in Revisions,
           DeliverRevision(e, n)
    PROVE  TablesAgree' /\ RequestsAgree'
  <1>1. /\ Present(e, n) /\ delivered' = delivered \cup {<<e, n>>}
        /\ UNCHANGED <<ledger, state, customerMax, authorization, billed, outcome,
                       grantState, grantCap, pc, quote, broker, debit>>
    BY DEF DeliverRevision, sessionVars, grantVars, requestVars, billingVars, Present
  <1>2. LedgerFollowsRow'
    BY <1>1 DEF TablesAgree, LedgerFollowsRow
  <1>3. GrantsFollowAuthorization' /\ GrantsWithinHold' /\ BrokerChain' /\ UnusedIsFinal'
    BY <1>1 DEF TablesAgree, GrantsFollowAuthorization, GrantsWithinHold, BrokerChain,
                UnusedIsFinal, Present
  <1>4. OnlyGrantsTravel'
    BY <1>1 DEF TablesAgree, OnlyGrantsTravel, Present
  <1>5. DebitCoveredByHold' /\ SettledCloseLeavesNoAuthority'
    BY <1>1 DEF TablesAgree, DebitCoveredByHold, SettledCloseLeavesNoAuthority, Present
  <1>6. ReleasedClaimHasNoGrant'
    <2>1. outcome[e] # "not_admitted"
      BY <1>1 DEF TablesAgree, ReleasedClaimHasNoGrant
    <2> QED  BY <1>1, <2>1 DEF TablesAgree, ReleasedClaimHasNoGrant, Present
  <1>7. RequestsAgree'
    BY <1>1, RequestsFrame DEF Releasable, Present
  <1> QED  BY <1>2, <1>3, <1>4, <1>5, <1>6, <1>7 DEF TablesAgree

(***************************************************************************)
(* close_session: the settled revision is the last one the broker let in;  *)
(* the ones before it are superseded and the ones after it were retired    *)
(* unused, so the debit it bills can no longer change.                     *)
(***************************************************************************)
LEMMA CloseStep ==
    ASSUME TypeOK, TablesAgree, RequestsAgree, NEW e \in Engagements, NEW n \in Revisions,
           CloseSession(e, n)
    PROVE  TablesAgree' /\ RequestsAgree'
  <1>1. /\ state[e] = "open" /\ broker[e][n] = "settled"
        /\ grantState[e][n] \in {"issued", "admitted", "settled"}
        /\ \A m \in Revisions : m > n /\ Present(e, m) => grantState[e][m] \in UnusedGrant
        /\ state' = [state EXCEPT ![e] = "closed"]
        /\ ReleaseCustomerEngagement(e, customerMax[e] - debit[e]) \/ ledger' = ledger
        /\ billed' = [billed EXCEPT ![e] = debit[e]]
        /\ outcome' = [outcome EXCEPT ![e] = "settled"]
        /\ authorization' = [authorization EXCEPT ![e] = n]
        /\ grantState' = [grantState EXCEPT ![e][n] = "settled"]
        /\ UNCHANGED <<customerMax, grantCap, pc, quote, delivered, broker, debit>>
    BY DEF CloseSession, CloseAndRelease, requestVars, brokerVars, Present
  <1>t. /\ state \in [Engagements -> SessionStates]
        /\ outcome \in [Engagements -> Outcomes]
        /\ billed \in [Engagements -> Nat]
        /\ authorization \in [Engagements -> Revisions \cup {NoAuth}]
        /\ grantState \in [Engagements -> [Revisions -> GrantStates]]
    BY DEF TypeOK
  <1>2. \A d \in Engagements, m \in Revisions :
          /\ Present(d, m)' <=> Present(d, m)
          /\ ~(d = e /\ m = n) => grantState'[d][m] = grantState[d][m]
    BY <1>1, <1>t DEF Present
  <1>3. grantState'[e][n] = "settled" /\ Present(e, n)
    BY <1>1, <1>t DEF Present
  <1>4. LedgerFollowsRow'
    BY <1>1, <1>t, ReleaseLedger DEF TablesAgree
  <1>5. GrantsFollowAuthorization'
    BY <1>1, <1>2, <1>t DEF TablesAgree, GrantsFollowAuthorization
  <1>6. GrantsWithinHold'
    BY <1>1, <1>2, <1>t DEF TablesAgree, GrantsWithinHold
  <1>7. OnlyGrantsTravel'
    BY <1>1, <1>2 DEF TablesAgree, OnlyGrantsTravel
  <1>8. BrokerChain'
    BY <1>1 DEF TablesAgree, BrokerChain
  <1>9. UnusedIsFinal'
    BY <1>1, <1>2, <1>3 DEF TablesAgree, UnusedIsFinal, UnusedGrant
  <1>10. DebitCoveredByHold'
    BY <1>1, <1>t DEF TablesAgree, DebitCoveredByHold
  <1>11. ReleasedClaimHasNoGrant'
    BY <1>1, <1>2, <1>t DEF TablesAgree, ReleasedClaimHasNoGrant
  <1>12. SettledCloseLeavesNoAuthority'
    <2> SUFFICES ASSUME NEW d \in Engagements, outcome'[d] = "settled",
                        NEW m \in Revisions, Present(d, m)
                 PROVE  broker[d][m] \in SpentOut
      BY <1>1, <1>2 DEF SettledCloseLeavesNoAuthority
    <2>1. CASE d # e
      BY <1>1, <1>t, <2>1 DEF TablesAgree, SettledCloseLeavesNoAuthority
    <2>2. CASE d = e /\ m = n
      BY <1>1, <2>2 DEF SpentOut
    <2>3. CASE d = e /\ m < n
      BY <1>1, <2>3 DEF TablesAgree, BrokerChain, UnusedGrant, SpentOut
    <2>4. CASE d = e /\ m > n
      BY <1>1, <2>4 DEF TablesAgree, UnusedIsFinal, SpentOut
    <2> QED  BY <2>1, <2>2, <2>3, <2>4 DEF Revisions
  <1>13. RequestsAgree'
    <2>1. /\ \A d \in Engagements : state[d] # "none" => state'[d] # "none"
          /\ \A d \in Engagements : Releasable(d)' =>
               Releasable(d) /\ customerMax'[d] = customerMax[d]
      BY <1>1, <1>t DEF Releasable
    <2> QED  BY <1>1, <1>2, <2>1, RevisionsFacts, RequestsFrame
  <1> QED  BY <1>4, <1>5, <1>6, <1>7, <1>8, <1>9, <1>10, <1>11, <1>12, <1>13
           DEF TablesAgree

(***************************************************************************)
(* resolve_stuck_work closes the row and retires its active grants; it     *)
(* says nothing about the broker.                                          *)
(***************************************************************************)
LEMMA ResolveStep ==
    ASSUME TypeOK, TablesAgree, RequestsAgree, NEW e \in Engagements,
           NEW amount \in 0 .. customerMax[e], ResolveStuckWork(e, amount)
    PROVE  TablesAgree' /\ RequestsAgree'
  <1>1. /\ state[e] = "open"
        /\ state' = [state EXCEPT ![e] = "closed"]
        /\ ReleaseCustomerEngagement(e, customerMax[e] - amount) \/ ledger' = ledger
        /\ billed' = [billed EXCEPT ![e] = amount]
        /\ outcome' = [outcome EXCEPT ![e] = "operator"]
        /\ grantState' = [grantState EXCEPT ![e] =
                            [n \in Revisions |->
                               IF grantState[e][n] \in ActiveGrant
                                 THEN "operator_resolved" ELSE grantState[e][n]]]
        /\ UNCHANGED <<customerMax, authorization, grantCap, pc, quote,
                       delivered, broker, debit>>
    BY DEF ResolveStuckWork, CloseAndRelease, requestVars, brokerVars
  <1>t. /\ state \in [Engagements -> SessionStates]
        /\ outcome \in [Engagements -> Outcomes]
        /\ billed \in [Engagements -> Nat]
        /\ grantState \in [Engagements -> [Revisions -> GrantStates]]
    BY DEF TypeOK
  <1>2. \A d \in Engagements, m \in Revisions :
          /\ Present(d, m)' <=> Present(d, m)
          /\ grantState'[d][m] = grantState[d][m] \/ grantState'[d][m] = "operator_resolved"
    BY <1>1, <1>t DEF Present, ActiveGrant
  <1>4. LedgerFollowsRow'
    BY <1>1, <1>t, ReleaseLedger DEF TablesAgree
  <1>5. GrantsFollowAuthorization'
    BY <1>1, <1>2, <1>t DEF TablesAgree, GrantsFollowAuthorization
  <1>6. GrantsWithinHold'
    BY <1>1, <1>2, <1>t DEF TablesAgree, GrantsWithinHold
  <1>7. OnlyGrantsTravel'
    BY <1>1, <1>2 DEF TablesAgree, OnlyGrantsTravel
  <1>8. BrokerChain'
    BY <1>1 DEF TablesAgree, BrokerChain
  <1>9. UnusedIsFinal'
    BY <1>1, <1>2 DEF TablesAgree, UnusedIsFinal, UnusedGrant
  <1>10. DebitCoveredByHold'
    BY <1>1, <1>t DEF TablesAgree, DebitCoveredByHold
  <1>11. ReleasedClaimHasNoGrant'
    BY <1>1, <1>2, <1>t DEF TablesAgree, ReleasedClaimHasNoGrant
  <1>12. SettledCloseLeavesNoAuthority'
    BY <1>1, <1>2, <1>t DEF TablesAgree, SettledCloseLeavesNoAuthority
  <1>13. RequestsAgree'
    <2>1. /\ \A d \in Engagements : state[d] # "none" => state'[d] # "none"
          /\ \A d \in Engagements : Releasable(d)' =>
               Releasable(d) /\ customerMax'[d] = customerMax[d]
      BY <1>1, <1>t DEF Releasable
    <2> QED  BY <1>1, <1>2, <2>1, RevisionsFacts, RequestsFrame
  <1> QED  BY <1>4, <1>5, <1>6, <1>7, <1>8, <1>9, <1>10, <1>11, <1>12, <1>13
           DEF TablesAgree

(***************************************************************************)
(* reconcile_spend_authorization_states copies what the broker says.       *)
(***************************************************************************)
LEMMA ReconcileStep ==
    ASSUME TypeOK, TablesAgree, RequestsAgree, NEW e \in Engagements, NEW n \in Revisions,
           ReconcileGrant(e, n)
    PROVE  TablesAgree' /\ RequestsAgree'
  <1>1. /\ grantState[e][n] \in ActiveGrant
        /\ broker[e][n] # "unknown"
        /\ grantState' = [grantState EXCEPT ![e][n] = broker[e][n]]
        /\ UNCHANGED <<ledger, state, customerMax, authorization, billed, outcome,
                       grantCap, pc, quote, delivered, broker, debit>>
    BY DEF ReconcileGrant, sessionVars, requestVars, brokerVars, billingVars
  <1>t. /\ grantState \in [Engagements -> [Revisions -> GrantStates]]
        /\ broker \in [Engagements -> [Revisions -> BrokerStates]]
    BY DEF TypeOK
  <1>2. broker[e][n] # "absent" /\ Present(e, n)
    BY <1>1, <1>t DEF BrokerStates, UnusedGrant, ActiveGrant, Present
  <1>3. \A d \in Engagements, m \in Revisions :
          /\ Present(d, m)' <=> Present(d, m)
          /\ grantState'[d][m] = grantState[d][m] \/ grantState'[d][m] = broker[d][m]
    BY <1>1, <1>2, <1>t DEF Present
  <1>4. LedgerFollowsRow' /\ BrokerChain' /\ DebitCoveredByHold'
    BY <1>1 DEF TablesAgree, LedgerFollowsRow, BrokerChain, DebitCoveredByHold
  <1>5. GrantsFollowAuthorization' /\ GrantsWithinHold'
    BY <1>1, <1>3 DEF TablesAgree, GrantsFollowAuthorization, GrantsWithinHold
  <1>6. OnlyGrantsTravel'
    BY <1>1, <1>3 DEF TablesAgree, OnlyGrantsTravel
  <1>7. UnusedIsFinal'
    BY <1>1, <1>3 DEF TablesAgree, UnusedIsFinal
  <1>8. ReleasedClaimHasNoGrant' /\ SettledCloseLeavesNoAuthority'
    BY <1>1, <1>3 DEF TablesAgree, ReleasedClaimHasNoGrant, SettledCloseLeavesNoAuthority
  <1>9. RequestsAgree'
    BY <1>1, <1>3, RevisionsFacts, RequestsFrame DEF Releasable
  <1> QED  BY <1>4, <1>5, <1>6, <1>7, <1>8, <1>9 DEF TablesAgree

(***************************************************************************)
(* The broker moves one authorization to a new state, or debits.           *)
(***************************************************************************)
LEMMA BrokerStep ==
    ASSUME TypeOK, TablesAgree, RequestsAgree, NEW e \in Engagements,
           \/ BrokerAdmitsFirst(e)
           \/ \E n \in Revisions :
                \/ BrokerAdmitsRevision(e, n)
                \/ BrokerDebits(e, n)
                \/ \E to \in UnusedGrant : BrokerRetiresUnused(e, n, to)
                \/ BrokerLosesOutcome(e, n)
                \/ BrokerSettles(e, n)
    PROVE  TablesAgree' /\ RequestsAgree'
  <1>1. /\ UNCHANGED <<ledger, state, customerMax, authorization, billed, outcome>>
        /\ UNCHANGED <<grantState, grantCap, pc, quote, delivered>>
    BY DEF BrokerAdmitsFirst, BrokerAdmitsRevision, BrokerDebits, BrokerRetiresUnused,
           BrokerLosesOutcome, BrokerSettles, BrokerMoves, sessionVars, grantVars,
           requestVars, billingVars
  <1>t. /\ broker \in [Engagements -> [Revisions -> BrokerStates]]
        /\ debit \in [Engagements -> Nat]
        /\ grantCap \in [Engagements -> [Revisions -> Nat]]
        /\ customerMax \in [Engagements -> Nat]
    BY DEF TypeOK
  <1>2. LedgerFollowsRow'
    BY <1>1 DEF TablesAgree, LedgerFollowsRow
  <1>3. GrantsFollowAuthorization' /\ GrantsWithinHold'
    BY <1>1 DEF TablesAgree, GrantsFollowAuthorization, GrantsWithinHold, Present
  <1>4. RequestsAgree'
    BY <1>1, RequestsFrame DEF Releasable, Present
  <1>5. ASSUME NEW n \in Revisions, BrokerDebits(e, n)
        PROVE  TablesAgree'
    <2>1. /\ broker[e][n] = "admitted" /\ debit[e] < grantCap[e][n]
          /\ debit' = [debit EXCEPT ![e] = @ + 1] /\ UNCHANGED broker
      BY <1>5 DEF BrokerDebits
    <2>2. Present(e, n)
      BY <2>1 DEF TablesAgree, OnlyGrantsTravel
    <2>3. outcome[e] # "settled" /\ outcome[e] # "not_admitted"
      BY <2>1, <2>2
      DEF TablesAgree, SettledCloseLeavesNoAuthority, ReleasedClaimHasNoGrant,
          SpentOut, UnusedGrant
    <2>4. OnlyGrantsTravel'
      BY <1>1, <1>t, <2>1, <2>2 DEF TablesAgree, OnlyGrantsTravel, Present
    <2>5. BrokerChain' /\ UnusedIsFinal'
      BY <1>1, <2>1 DEF TablesAgree, BrokerChain, UnusedIsFinal
    <2>6. DebitCoveredByHold'
      <3>1. state[e] = "open" => debit'[e] <= customerMax[e]
        BY <1>t, <2>1, <2>2 DEF TablesAgree, GrantsWithinHold
      <3> QED  BY <1>1, <1>t, <2>1, <2>3, <3>1 DEF TablesAgree, DebitCoveredByHold
    <2>7. ReleasedClaimHasNoGrant' /\ SettledCloseLeavesNoAuthority'
      BY <1>1, <1>t, <2>1, <2>3
      DEF TablesAgree, ReleasedClaimHasNoGrant, SettledCloseLeavesNoAuthority, Present
    <2> QED  BY <1>2, <1>3, <2>4, <2>5, <2>6, <2>7 DEF TablesAgree
  <1>6. ASSUME NEW n \in Revisions, NEW from, NEW to, BrokerMoves(e, n, from, to),
               from \subseteq {"unknown", "admitted", "outcome_unknown"},
               "unknown" \in from => from = {"unknown"} /\ <<e, n>> \in delivered,
               to # "unknown",
               to \in UnusedGrant \/ "unknown" \notin from \/ n = 0
        PROVE  TablesAgree'
    <2>1. /\ broker[e][n] \in {"unknown", "admitted", "outcome_unknown"}
          /\ broker[e][n] = "unknown" => <<e, n>> \in delivered
          /\ to \in UnusedGrant \/ broker[e][n] # "unknown" \/ n = 0
          /\ broker' = [broker EXCEPT ![e][n] = to]
          /\ UNCHANGED debit
      BY <1>6 DEF BrokerMoves
    <2>2. /\ broker'[e][n] = to
          /\ \A d \in Engagements, m \in Revisions :
               ~(d = e /\ m = n) => broker'[d][m] = broker[d][m]
      BY <1>t, <2>1
    <2>3. OnlyGrantsTravel'
      BY <1>1, <2>1, <2>2 DEF TablesAgree, OnlyGrantsTravel, Present
    <2>4. BrokerChain'
      <3> SUFFICES ASSUME NEW d \in Engagements, NEW k \in Revisions, NEW m \in Revisions,
                          k < m, broker'[d][m] \notin {"unknown"} \cup UnusedGrant
                   PROVE  broker'[d][k] = "superseded"
        BY DEF BrokerChain
      <3>1. broker[d][m] \notin {"unknown"} \cup UnusedGrant
        <4>1. CASE d = e /\ m = n
          <5>1. n # 0
            BY <4>1 DEF Revisions
          <5> QED  BY <2>1, <2>2, <4>1, <5>1 DEF UnusedGrant
        <4>2. CASE ~(d = e /\ m = n)
          BY <2>2, <4>2
        <4> QED  BY <4>1, <4>2
      <3>2. broker[d][k] = "superseded"
        BY <3>1 DEF TablesAgree, BrokerChain
      <3> QED  BY <2>1, <2>2, <3>2
    <2>5. UnusedIsFinal'
      BY <1>1, <2>1, <2>2 DEF TablesAgree, UnusedIsFinal, UnusedGrant
    <2>6. DebitCoveredByHold' /\ ReleasedClaimHasNoGrant'
      BY <1>1, <2>1 DEF TablesAgree, DebitCoveredByHold, ReleasedClaimHasNoGrant, Present
    <2>7. SettledCloseLeavesNoAuthority'
      <3>1. Present(e, n)
        BY <2>1 DEF TablesAgree, OnlyGrantsTravel
      <3>2. outcome[e] # "settled"
        BY <2>1, <3>1 DEF TablesAgree, SettledCloseLeavesNoAuthority, SpentOut, UnusedGrant
      <3> QED  BY <1>1, <2>2, <3>2 DEF TablesAgree, SettledCloseLeavesNoAuthority, Present
    <2> QED  BY <1>2, <1>3, <2>3, <2>4, <2>5, <2>6, <2>7 DEF TablesAgree
  <1>7. ASSUME NEW n \in Revisions, BrokerAdmitsRevision(e, n)
        PROVE  TablesAgree'
    <2>1. /\ n > 0 /\ n - 1 \in Revisions /\ <<e, n>> \in delivered
          /\ broker[e][n] = "unknown" /\ broker[e][n - 1] = "admitted"
          /\ broker' = [broker EXCEPT ![e][n] = "admitted", ![e][n - 1] = "superseded"]
          /\ UNCHANGED debit
      BY <1>7, BoundsAssumption DEF BrokerAdmitsRevision, Revisions
    <2>2. /\ broker'[e][n] = "admitted" /\ broker'[e][n - 1] = "superseded"
          /\ \A d \in Engagements, m \in Revisions :
               ~(d = e /\ (m = n \/ m = n - 1)) => broker'[d][m] = broker[d][m]
      BY <1>t, <2>1
    <2>3. OnlyGrantsTravel'
      BY <1>1, <2>1, <2>2 DEF TablesAgree, OnlyGrantsTravel, Present
    <2>4. BrokerChain'
      <3> SUFFICES ASSUME NEW d \in Engagements, NEW k \in Revisions, NEW m \in Revisions,
                          k < m, broker'[d][m] \notin {"unknown"} \cup UnusedGrant
                   PROVE  broker'[d][k] = "superseded"
        BY DEF BrokerChain
      <3>1. CASE d # e
        BY <2>2, <3>1 DEF TablesAgree, BrokerChain
      <3>2. CASE d = e /\ k = n - 1
        BY <2>2, <3>2
      <3>3. CASE d = e /\ k = n
        <4>1. m # n /\ m # n - 1
          BY <3>3 DEF Revisions
        <4>2. broker[e][m] \notin {"unknown"} \cup UnusedGrant
          BY <2>2, <3>3, <4>1
        <4>3. broker[e][n] = "superseded"
          BY <3>3, <4>2 DEF TablesAgree, BrokerChain
        <4> QED  BY <2>1, <4>3
      <3>4. CASE d = e /\ k # n /\ k # n - 1
        <4>1. \E j \in Revisions : k < j /\ broker[e][j] \notin {"unknown"} \cup UnusedGrant
          <5>1. CASE m = n
            BY <2>1, <3>4, <5>1 DEF Revisions, UnusedGrant
          <5>2. CASE m = n - 1
            BY <2>1, <5>2 DEF UnusedGrant
          <5>3. CASE m # n /\ m # n - 1
            BY <2>2, <3>4, <5>3
          <5> QED  BY <5>1, <5>2, <5>3
        <4>2. broker[e][k] = "superseded"
          BY <4>1 DEF TablesAgree, BrokerChain
        <4> QED  BY <2>2, <3>4, <4>2
      <3> QED  BY <3>1, <3>2, <3>3, <3>4
    <2>5. UnusedIsFinal'
      <3>1. grantState[e][n] \notin UnusedGrant /\ grantState[e][n - 1] \notin UnusedGrant
        BY <2>1 DEF TablesAgree, UnusedIsFinal, UnusedGrant
      <3> SUFFICES ASSUME NEW d \in Engagements, NEW m \in Revisions,
                          grantState[d][m] \in UnusedGrant
                   PROVE  broker'[d][m] = grantState[d][m]
        BY <1>1 DEF UnusedIsFinal
      <3>2. ~(d = e /\ (m = n \/ m = n - 1))
        BY <3>1
      <3> QED  BY <2>2, <3>2 DEF TablesAgree, UnusedIsFinal
    <2>6. DebitCoveredByHold' /\ ReleasedClaimHasNoGrant'
      BY <1>1, <2>1 DEF TablesAgree, DebitCoveredByHold, ReleasedClaimHasNoGrant, Present
    <2>7. SettledCloseLeavesNoAuthority'
      <3>1. Present(e, n)
        BY <2>1 DEF TablesAgree, OnlyGrantsTravel
      <3>2. outcome[e] # "settled"
        BY <2>1, <3>1 DEF TablesAgree, SettledCloseLeavesNoAuthority, SpentOut, UnusedGrant
      <3> QED  BY <1>1, <2>2, <3>2 DEF TablesAgree, SettledCloseLeavesNoAuthority, Present
    <2> QED  BY <1>2, <1>3, <2>3, <2>4, <2>5, <2>6, <2>7 DEF TablesAgree
  <1>8. ASSUME BrokerAdmitsFirst(e)
        PROVE  TablesAgree'
    BY <1>6, <1>8, RevisionsFacts DEF BrokerAdmitsFirst
  <1>9. ASSUME NEW n \in Revisions, NEW to \in UnusedGrant, BrokerRetiresUnused(e, n, to)
        PROVE  TablesAgree'
    BY <1>6, <1>9 DEF BrokerRetiresUnused, UnusedGrant
  <1>10. ASSUME NEW n \in Revisions, BrokerLosesOutcome(e, n)
         PROVE  TablesAgree'
    BY <1>6, <1>10 DEF BrokerLosesOutcome
  <1>11. ASSUME NEW n \in Revisions, BrokerSettles(e, n)
         PROVE  TablesAgree'
    BY <1>6, <1>11 DEF BrokerSettles
  <1> QED  BY <1>4, <1>5, <1>7, <1>8, <1>9, <1>10, <1>11

(***************************************************************************)
(* The invariant holds initially and every step keeps it.                  *)
(***************************************************************************)
LEMMA InitInvariant == Init => EngagementInv
  <1> SUFFICES ASSUME Init PROVE EngagementInv
    OBVIOUS
  <1>1. TypeOK
    BY InitType
  <1>2. /\ ledger = {} /\ delivered = {}
        /\ \A e \in Engagements :
             /\ state[e] = "none" /\ authorization[e] = NoAuth /\ outcome[e] = "none"
             /\ debit[e] = 0 /\ customerMax[e] = 0
             /\ \A n \in Revisions : ~Present(e, n) /\ broker[e][n] = "unknown"
        /\ \A a \in Attempts : pc[a] = "idle"
    BY DEF Init, BillingInit, Present
  <1>3. \A e \in Engagements, n \in Revisions : grantState[e][n] \notin UnusedGrant
    BY <1>2 DEF Init, UnusedGrant
  <1>4. LedgerFollowsRow /\ GrantsWithinHold /\ QuoteIsHeld /\ FundedIsGranted
    BY <1>2 DEF LedgerFollowsRow, GrantsWithinHold, QuoteIsHeld, FundedIsGranted
  <1>5. GrantsFollowAuthorization
    <2>1. \A n \in Revisions : ~(n <= NoAuth)
      BY DEF Revisions, NoAuth
    <2> QED  BY <1>2, <2>1 DEF GrantsFollowAuthorization
  <1>6. OnlyGrantsTravel /\ BrokerChain /\ UnusedIsFinal
    BY <1>2, <1>3 DEF OnlyGrantsTravel, BrokerChain, UnusedIsFinal
  <1>7. DebitCoveredByHold /\ ReleasedClaimHasNoGrant /\ SettledCloseLeavesNoAuthority
    BY <1>2 DEF DebitCoveredByHold, ReleasedClaimHasNoGrant, SettledCloseLeavesNoAuthority
  <1> QED  BY <1>1, <1>4, <1>5, <1>6, <1>7 DEF EngagementInv

\* Every step keeps the inductive invariant.
LEMMA StepInvariant ==
    ASSUME EngagementInv, [Next]_vars
    PROVE  EngagementInv'
  <1>1. TypeOK /\ TablesAgree /\ RequestsAgree
    BY DEF EngagementInv, TablesAgree, RequestsAgree
  <1>2. TypeOK'
    BY <1>1, StepType
  <1>3. CASE RequestNext
    <2>1. PICK a \in Attempts :
            \/ \E amount \in Amounts : OpenSession(a, amount)
            \/ ClaimWholesaleEngagement(a)
            \/ ResumeWholesaleEngagement(a)
            \/ ClaimRefused(a)
            \/ IssueInitialAuthorization(a)
            \/ ReleaseRefused(a)
            \/ RecordInitialGrant(a)
            \/ InitialGrantRejected(a)
            \/ FundInitialGrant(a)
            \/ Crash(a)
      BY <1>3 DEF RequestNext
    <2>2. TablesAgree' /\ RequestsAgree'
      BY <1>1, <2>1, QuietRequestStep, ClaimStep, ReleaseRefusedStep, RecordInitialStep,
         FundStep
    <2> QED  BY <1>2, <2>2 DEF EngagementInv, TablesAgree, RequestsAgree
  <1>4. CASE ServiceNext
    <2>1. PICK e \in Engagements :
            \/ ReleaseStale(e)
            \/ \E amount \in Amounts, cfg \in Configs : RefillSession(e, amount, cfg)
            \/ \E amount \in 0 .. customerMax[e] : ResolveStuckWork(e, amount)
            \/ \E n \in Revisions :
                 DeliverRevision(e, n) \/ CloseSession(e, n) \/ ReconcileGrant(e, n)
      BY <1>4 DEF ServiceNext
    <2>2. TablesAgree' /\ RequestsAgree'
      BY <1>1, <2>1, ReleaseStaleStep, RefillStep, ResolveStep, DeliverStep, CloseStep,
         ReconcileStep
    <2> QED  BY <1>2, <2>2 DEF EngagementInv, TablesAgree, RequestsAgree
  <1>5. CASE BrokerNext
    <2>1. TablesAgree' /\ RequestsAgree'
      BY <1>1, <1>5, BrokerStep DEF BrokerNext
    <2> QED  BY <1>2, <2>1 DEF EngagementInv, TablesAgree, RequestsAgree
  <1>6. CASE CreditStep \/ UNCHANGED vars
    <2>1. UNCHANGED <<ledger, sessionVars, grantVars, requestVars, brokerVars>>
      BY <1>6, <1>1, CreditNextType DEF CreditStep, vars, billingVars, TypeOK
    <2>2. TablesAgree'
      BY <1>1, <2>1, TablesFrame
    <2>3. RequestsAgree'
      BY <1>1, <2>1, RequestsFrame
      DEF requestVars, sessionVars, grantVars, Releasable, Present
    <2> QED  BY <1>2, <2>2, <2>3 DEF EngagementInv, TablesAgree, RequestsAgree
  <1> QED  BY <1>3, <1>4, <1>5, <1>6 DEF Next

(***************************************************************************)
(* The inductive invariant holds in every reachable state.                 *)
(***************************************************************************)
THEOREM InvariantHolds == Spec => []EngagementInv
  <1>1. EngagementInv /\ [Next]_vars => EngagementInv'
    BY StepInvariant
  <1> QED  BY InitInvariant, <1>1, PTL DEF Spec

(***************************************************************************)
(* The broker never debits more than the customer's hold, and the bill of  *)
(* a settled session is what the broker debited.                           *)
(***************************************************************************)
THEOREM DebitIsCovered == Spec => []DebitCoveredByHold
  <1>1. EngagementInv => DebitCoveredByHold
    BY DEF EngagementInv
  <1> QED  BY InvariantHolds, <1>1, PTL

(***************************************************************************)
(* A claim released as NOT_ADMITTED is never authorized later.             *)
(***************************************************************************)
THEOREM ReleasedClaimStaysUnauthorized == Spec => []ReleasedClaimHasNoGrant
  <1>1. EngagementInv => ReleasedClaimHasNoGrant
    BY DEF EngagementInv
  <1> QED  BY InvariantHolds, <1>1, PTL

(***************************************************************************)
(* A session closed by a settlement leaves no usable authorization.        *)
(***************************************************************************)
THEOREM SettledCloseIsFinal == Spec => []SettledCloseLeavesNoAuthority
  <1>1. EngagementInv => SettledCloseLeavesNoAuthority
    BY DEF EngagementInv
  <1> QED  BY InvariantHolds, <1>1, PTL

-----------------------------------------------------------------------------
(* Action property and refinement. *)

(***************************************************************************)
(* No step brings a retired grant back or gives it another label.          *)
(***************************************************************************)
THEOREM RetiredGrantsAreFinal == Spec => RetiredGrantsStay
  <1> DEFINE Stay == \A e \in Engagements, n \in Revisions :
                        grantState[e][n] \in RetiredGrant =>
                            grantState'[e][n] = grantState[e][n]
  <1>1. EngagementInv /\ [Next]_vars => [Stay]_vars
    <2> SUFFICES ASSUME EngagementInv, Next PROVE Stay
      OBVIOUS
    <2>t. grantState \in [Engagements -> [Revisions -> GrantStates]]
      BY DEF EngagementInv, TypeOK
    <2>0. ActiveGrant \cap RetiredGrant = {} /\ "absent" \notin RetiredGrant
      BY DEF ActiveGrant, RetiredGrant, UnusedGrant
    <2>1. CASE RequestNext
      <3>1. PICK a \in Attempts : grantState' = grantState \/ RecordInitialGrant(a)
        BY <2>1 DEF RequestNext, OpenSession, ClaimWholesaleEngagement,
           ResumeWholesaleEngagement, ClaimRefused, IssueInitialAuthorization,
           ReleaseRefused, InitialGrantRejected, FundInitialGrant, Crash, grantVars
      <3>2. CASE RecordInitialGrant(a)
        BY <2>t, <2>0, <3>2 DEF RecordInitialGrant
      <3> QED  BY <3>1, <3>2
    <2>2. CASE ServiceNext
      <3>1. PICK e \in Engagements :
              \/ ReleaseStale(e)
              \/ \E amount \in Amounts, cfg \in Configs : RefillSession(e, amount, cfg)
              \/ \E amount \in 0 .. customerMax[e] : ResolveStuckWork(e, amount)
              \/ \E n \in Revisions :
                   DeliverRevision(e, n) \/ CloseSession(e, n) \/ ReconcileGrant(e, n)
        BY <2>2 DEF ServiceNext
      <3>2. CASE ReleaseStale(e)
        BY <3>2 DEF ReleaseStale, grantVars
      <3>3. ASSUME NEW amount \in Amounts, NEW cfg \in Configs,
                   RefillSession(e, amount, cfg)
            PROVE  Stay
        <4> DEFINE next == authorization[e] + 1
        <4>1. /\ state[e] = "open" /\ next \in Revisions /\ ~(next <= authorization[e])
              /\ grantState' = [grantState EXCEPT ![e][next] = "issued"]
          BY <3>3, BoundsAssumption DEF RefillSession, Revisions
        <4>2. grantState[e][next] = "absent"
          BY <4>1 DEF EngagementInv, GrantsFollowAuthorization, Present
        <4> HIDE DEF next
        <4> QED  BY <2>t, <2>0, <4>1, <4>2
      <3>4. ASSUME NEW amount \in 0 .. customerMax[e], ResolveStuckWork(e, amount)
            PROVE  Stay
        BY <2>t, <2>0, <3>4 DEF ResolveStuckWork
      <3>5. ASSUME NEW n \in Revisions, DeliverRevision(e, n)
            PROVE  Stay
        BY <3>5 DEF DeliverRevision, grantVars
      <3>6. ASSUME NEW n \in Revisions, CloseSession(e, n)
            PROVE  Stay
        BY <2>t, <3>6 DEF CloseSession, RetiredGrant, UnusedGrant
      <3>7. ASSUME NEW n \in Revisions, ReconcileGrant(e, n)
            PROVE  Stay
        BY <2>t, <2>0, <3>7 DEF ReconcileGrant
      <3> QED  BY <3>1, <3>2, <3>3, <3>4, <3>5, <3>6, <3>7
    <2>3. CASE BrokerNext \/ CreditStep
      <3>1. grantState' = grantState
        BY <2>3 DEF BrokerNext, BrokerAdmitsFirst, BrokerAdmitsRevision, BrokerDebits,
           BrokerRetiresUnused, BrokerLosesOutcome, BrokerSettles, BrokerMoves, CreditStep,
           grantVars
      <3> QED  BY <3>1
    <2> QED  BY <2>1, <2>2, <2>3 DEF Next
  <1>2. Spec => [][Stay]_vars
    BY <1>1, InvariantHolds, PTL DEF Spec
  <1> QED  BY <1>2 DEF RetiredGrantsStay

(***************************************************************************)
(* A release of an open engagement really credits: no release row exists   *)
(* yet, so the replay branch of release_customer_engagement is not taken.  *)
(***************************************************************************)
LEMMA OpenReleaseCredits ==
    ASSUME EngagementInv, NEW e \in Engagements, NEW amount, state[e] = "open",
           ReleaseCustomerEngagement(e, amount)
    PROVE  balance' = [balance EXCEPT ![Owner[e]] = @ + amount]
  <1>1. RowsFor(e, ReleaseReason) = {}
    BY DEF EngagementInv, LedgerFollowsRow, RowsFor
  <1> QED  BY <1>1 DEF ReleaseCustomerEngagement, ApplyDelta

\* One step of the customer's view.
HoldMove == [Hold!HoldStep]_(Hold!holdVars)

(***************************************************************************)
(* Closing an engagement, in each of the three ways, settles its hold.     *)
(***************************************************************************)
LEMMA CloseSettles ==
    ASSUME EngagementInv, NEW e \in Engagements, NEW amount \in Nat, NEW how,
           state[e] = "open", amount <= customerMax[e], CloseAndRelease(e, amount, how),
           UNCHANGED customerMax
    PROVE  HoldMove
  <1>t. /\ customerMax[e] \in Nat /\ Owner[e] \in Users
        /\ balance \in [Users -> Nat]
    BY OwnerAssumption DEF EngagementInv, TypeOK, BillingTypeOK
  <1>1. balance' = [balance EXCEPT ![Owner[e]] = @ + (customerMax[e] - amount)]
    <2>1. CASE customerMax[e] > amount
      BY <2>1, OpenReleaseCredits DEF CloseAndRelease
    <2>2. CASE ~(customerMax[e] > amount)
      <3>1. customerMax[e] - amount = 0
        BY <1>t, <2>2
      <3>2. balance' = balance
        BY <2>2 DEF CloseAndRelease
      <3> QED  BY <1>t, <3>1, <3>2
    <2> QED  BY <2>1, <2>2
  <1>2. Hold!Settle(e)
    <2>1. amount \in 0 .. customerMax[e]
      BY <1>t
    <2>2. /\ state' = [state EXCEPT ![e] = "closed"]
          /\ billed' = [billed EXCEPT ![e] = amount]
      BY DEF CloseAndRelease
    <2>3. \E x \in 0 .. customerMax[e] :
            /\ balance' = [balance EXCEPT ![Owner[e]] = @ + (customerMax[e] - x)]
            /\ billed' = [billed EXCEPT ![e] = x]
      BY <1>1, <2>1, <2>2
    <2> QED  BY <2>2, <2>3 DEF Hold!Settle
  <1> QED  BY <1>2 DEF HoldMove, Hold!HoldStep

(***************************************************************************)
(* Placing a hold: the balance row pays exactly what is set aside.         *)
(***************************************************************************)
LEMMA ClaimPlaces ==
    ASSUME EngagementInv, NEW a \in Attempts, ClaimWholesaleEngagement(a)
    PROVE  HoldMove
  <1> DEFINE e == Target[a]
             x == quote[a]
  <1>t. /\ e \in Engagements /\ Owner[e] \in Users /\ x \in Nat
        /\ balance[Owner[e]] \in Nat
    BY OwnerAssumption, TargetAssumption DEF EngagementInv, TypeOK, BillingTypeOK
  <1>1. /\ state[e] = "none"
        /\ HoldOnce(e, Encumbrance, x, resolved[a])
        /\ state' = [state EXCEPT ![e] = "open"]
        /\ customerMax' = [customerMax EXCEPT ![e] = x]
        /\ billed' = billed
    BY DEF ClaimWholesaleEngagement, EncumberCustomerEngagement
  <1>2. RowsFor(e, Encumbrance) = {}
    BY <1>1 DEF EngagementInv, LedgerFollowsRow, RowsFor
  <1>3. /\ balance[Owner[e]] + (-x) >= 0
        /\ balance' = [balance EXCEPT ![Owner[e]] = @ + (-x)]
    BY <1>1, <1>2 DEF HoldOnce, ApplyDelta
  <1>4. /\ x \in 0 .. balance[Owner[e]]
        /\ balance[Owner[e]] + (-x) = balance[Owner[e]] - x
    BY <1>t, <1>3
  <1>5. balance' = [balance EXCEPT ![Owner[e]] = @ - x]
    BY <1>3, <1>4
  <1>6. \E y \in 0 .. balance[Owner[e]] :
          /\ balance' = [balance EXCEPT ![Owner[e]] = @ - y]
          /\ customerMax' = [customerMax EXCEPT ![e] = y]
    BY <1>1, <1>4, <1>5
  <1>7. Hold!Place(e)
    BY <1>1, <1>6 DEF Hold!Place
  <1> QED  BY <1>t, <1>7 DEF HoldMove, Hold!HoldStep

(***************************************************************************)
(* Raising it: the row of the next cap revision does not exist yet, so the *)
(* increment is paid and not taken for a replay.                           *)
(***************************************************************************)
LEMMA RefillRaises ==
    ASSUME EngagementInv, NEW e \in Engagements, NEW amount \in Amounts,
           NEW cfg \in Configs, RefillSession(e, amount, cfg)
    PROVE  HoldMove
  <1> DEFINE next == authorization[e] + 1
             x == amount - customerMax[e]
  <1>1. /\ state[e] = "open" /\ authorization[e] \in 0 .. MaxRevision - 1
        /\ amount > customerMax[e]
        /\ HoldOnce(e, CapRevision(next), x, cfg)
        /\ customerMax' = [customerMax EXCEPT ![e] = amount]
        /\ state' = state /\ billed' = billed
    BY DEF RefillSession, IncreaseCustomerEngagementCap
  <1>t. /\ Owner[e] \in Users /\ balance[Owner[e]] \in Nat
        /\ amount \in Nat /\ customerMax[e] \in Nat
    BY OwnerAssumption, AmountsAssumption DEF EngagementInv, TypeOK, BillingTypeOK
  <1>2. next \in Revisions /\ ~(next <= authorization[e])
    BY <1>1, BoundsAssumption DEF Revisions
  <1>3. RowsFor(e, CapRevision(next)) = {}
    <2> SUFFICES ASSUME NEW row \in ledger, row.engagement = e,
                        row.reason = CapRevision(next)
                 PROVE  FALSE
      BY DEF RowsFor
    <2> HIDE DEF next
    <2>1. \A n \in Revisions : row.reason = CapRevision(n) => n <= authorization[e]
      BY <1>1 DEF EngagementInv, LedgerFollowsRow
    <2> QED  BY <1>2, <2>1
  <1>4. /\ balance[Owner[e]] + (-x) >= 0
        /\ balance' = [balance EXCEPT ![Owner[e]] = @ + (-x)]
    BY <1>1, <1>3 DEF HoldOnce, ApplyDelta
  <1>5. /\ x \in 1 .. balance[Owner[e]]
        /\ balance[Owner[e]] + (-x) = balance[Owner[e]] - x
        /\ customerMax[e] + x = amount
    BY <1>t, <1>1, <1>4
  <1>6. /\ balance' = [balance EXCEPT ![Owner[e]] = @ - x]
        /\ customerMax' = [customerMax EXCEPT ![e] = @ + x]
    BY <1>1, <1>4, <1>5
  <1>7. \E y \in 1 .. balance[Owner[e]] :
          /\ balance' = [balance EXCEPT ![Owner[e]] = @ - y]
          /\ customerMax' = [customerMax EXCEPT ![e] = @ + y]
    BY <1>5, <1>6
  <1>8. Hold!Raise(e)
    BY <1>1, <1>7 DEF Hold!Raise
  <1> QED  BY <1>8 DEF HoldMove, Hold!HoldStep

\* The release of an unauthorized claim is a step of the abstract hold: it settles at nothing.
LEMMA ReleaseSettles ==
    ASSUME EngagementInv, NEW e \in Engagements, ReleaseUnauthorizedEngagement(e)
    PROVE  HoldMove
  <1>1. /\ state[e] = "open" /\ ReleaseCustomerEngagement(e, customerMax[e])
        /\ state' = [state EXCEPT ![e] = "closed"]
        /\ billed' = [billed EXCEPT ![e] = 0]
        /\ customerMax' = customerMax
    BY DEF ReleaseUnauthorizedEngagement, Releasable
  <1>2. customerMax[e] \in Nat
    BY DEF EngagementInv, TypeOK
  <1>3. 0 \in 0 .. customerMax[e] /\ customerMax[e] - 0 = customerMax[e]
    BY <1>2
  <1>4. balance' = [balance EXCEPT ![Owner[e]] = @ + (customerMax[e] - 0)]
    BY <1>1, <1>3, OpenReleaseCredits
  <1>5. \E x \in 0 .. customerMax[e] :
          /\ balance' = [balance EXCEPT ![Owner[e]] = @ + (customerMax[e] - x)]
          /\ billed' = [billed EXCEPT ![e] = x]
    BY <1>1, <1>3, <1>4
  <1>6. Hold!Settle(e)
    BY <1>1, <1>5 DEF Hold!Settle
  <1> QED  BY <1>6 DEF HoldMove, Hold!HoldStep

(***************************************************************************)
(* The service implements the customer's view of a hold: every credit      *)
(* movement is a placement, a raise, a single settlement or added credit.  *)
(***************************************************************************)
THEOREM CustomerHoldImplemented == Spec => ImplementsCustomerHold
  <1>1. Init => Hold!HoldInit
    BY DEF Init, BillingInit, Hold!HoldInit
  <1>2. EngagementInv /\ [Next]_vars => HoldMove
    <2> SUFFICES ASSUME EngagementInv, [Next]_vars PROVE HoldMove
      OBVIOUS
    <2>0. \A a \in Attempts : Target[a] \in Engagements
      BY TargetAssumption
    <2>1. ASSUME UNCHANGED <<balance, customerMax, state, billed>>
          PROVE  HoldMove
      BY <2>1 DEF HoldMove, Hold!holdVars
    <2>2. CASE RequestNext
      <3>1. PICK a \in Attempts :
              \/ \E amount \in Amounts : OpenSession(a, amount)
              \/ ClaimWholesaleEngagement(a)
              \/ ResumeWholesaleEngagement(a)
              \/ ClaimRefused(a)
              \/ IssueInitialAuthorization(a)
              \/ ReleaseRefused(a)
              \/ RecordInitialGrant(a)
              \/ InitialGrantRejected(a)
              \/ FundInitialGrant(a)
              \/ Crash(a)
        BY <2>2 DEF RequestNext
      <3>2. CASE ClaimWholesaleEngagement(a)
        BY <3>2, ClaimPlaces
      <3>3. CASE ReleaseRefused(a)
        <4>1. CASE ReleaseUnauthorizedEngagement(Target[a])
          BY <2>0, <4>1, ReleaseSettles
        <4>2. CASE UNCHANGED <<balance, ledger, window, sessionVars>>
          BY <2>1, <4>2 DEF sessionVars
        <4> QED  BY <3>3, <4>1, <4>2 DEF ReleaseRefused
      <3>4. CASE /\ ~ClaimWholesaleEngagement(a)
                 /\ ~ReleaseRefused(a)
        <4>1. UNCHANGED <<balance, customerMax, state, billed>>
          BY <3>1, <3>4 DEF OpenSession, ResumeWholesaleEngagement, ClaimRefused,
             IssueInitialAuthorization, RecordInitialGrant, InitialGrantRejected,
             FundInitialGrant, Crash, sessionVars, billingVars
        <4> QED  BY <2>1, <4>1
      <3> QED  BY <3>2, <3>3, <3>4
    <2>3. CASE ServiceNext
      <3>1. PICK e \in Engagements :
              \/ ReleaseStale(e)
              \/ \E amount \in Amounts, cfg \in Configs : RefillSession(e, amount, cfg)
              \/ \E amount \in 0 .. customerMax[e] : ResolveStuckWork(e, amount)
              \/ \E n \in Revisions :
                   DeliverRevision(e, n) \/ CloseSession(e, n) \/ ReconcileGrant(e, n)
        BY <2>3 DEF ServiceNext
      <3>t. customerMax[e] \in Nat /\ debit[e] \in Nat
        BY DEF EngagementInv, TypeOK
      <3>2. CASE ReleaseStale(e)
        BY <3>2, ReleaseSettles DEF ReleaseStale
      <3>3. ASSUME NEW amount \in Amounts, NEW cfg \in Configs,
                   RefillSession(e, amount, cfg)
            PROVE  HoldMove
        BY <3>3, RefillRaises
      <3>4. ASSUME NEW amount \in 0 .. customerMax[e], ResolveStuckWork(e, amount)
            PROVE  HoldMove
        <4>1. amount \in Nat
          BY <3>t
        <4> QED  BY <3>4, <4>1, CloseSettles DEF ResolveStuckWork
      <3>5. ASSUME NEW n \in Revisions, CloseSession(e, n)
            PROVE  HoldMove
        BY <3>5, <3>t, CloseSettles DEF CloseSession
      <3>6. ASSUME NEW n \in Revisions, DeliverRevision(e, n) \/ ReconcileGrant(e, n)
            PROVE  HoldMove
        BY <3>6, <2>1 DEF DeliverRevision, ReconcileGrant, sessionVars, billingVars
      <3> QED  BY <3>1, <3>2, <3>3, <3>4, <3>5, <3>6
    <2>4. CASE BrokerNext
      <3>1. UNCHANGED <<balance, customerMax, state, billed>>
        BY <2>4 DEF BrokerNext, BrokerAdmitsFirst, BrokerAdmitsRevision, BrokerDebits,
           BrokerRetiresUnused, BrokerLosesOutcome, BrokerSettles, BrokerMoves,
           sessionVars, billingVars
      <3> QED  BY <2>1, <3>1
    <2>5. CASE CreditStep
      <3>1. /\ \A u \in Users : balance'[u] >= balance[u]
            /\ UNCHANGED <<customerMax, state, billed>>
        BY <2>5, CreditNextType DEF CreditStep, sessionVars, EngagementInv, TypeOK
      <3>2. Hold!AddCredit
        BY <3>1 DEF Hold!AddCredit
      <3> QED  BY <3>2 DEF HoldMove, Hold!HoldStep
    <2>6. CASE UNCHANGED vars
      BY <2>1, <2>6 DEF vars, billingVars, sessionVars
    <2> QED  BY <2>2, <2>3, <2>4, <2>5, <2>6 DEF Next
  <1>3. EngagementInv /\ [Next]_vars => [Hold!HoldStep]_(Hold!holdVars)
    BY <1>2 DEF HoldMove
  <1>4. Spec => Hold!HoldSpec
    BY <1>1, <1>3, InvariantHolds, PTL DEF Spec, Hold!HoldSpec
  <1> QED  BY <1>4 DEF ImplementsCustomerHold

-----------------------------------------------------------------------------
(***************************************************************************)
(* The money of a session, in sums: billing's own sums, and the rows of    *)
(* each engagement against its payment_session row.                        *)
(***************************************************************************)
MoneyInv == SumsAgree /\ LedgerMatchesEngagement

\* What a session row owes, state by state.
LEMMA RowOwesValues ==
    ASSUME NEW e
    PROVE  /\ state[e] = "none" => RowOwes(e) = 0
           /\ state[e] = "open" => RowOwes(e) = -customerMax[e]
           /\ state[e] = "closed" => RowOwes(e) = -billed[e]
  BY DEF RowOwes

\* The same, after a step.
LEMMA RowOwesNextValues ==
    ASSUME NEW e
    PROVE  /\ state'[e] = "none" => RowOwes(e)' = 0
           /\ state'[e] = "open" => RowOwes(e)' = -customerMax'[e]
           /\ state'[e] = "closed" => RowOwes(e)' = -billed'[e]
  BY DEF RowOwes

\* A step that leaves a session row alone leaves what it owes alone.
LEMMA RowOwesFrame ==
    ASSUME NEW e, state'[e] = state[e], customerMax'[e] = customerMax[e], billed'[e] = billed[e]
    PROVE  RowOwes(e)' = RowOwes(e)
  BY DEF RowOwes

(***************************************************************************)
(* One new ledger row and the session row move together: when the row owes *)
(* delta more, and the other session rows are untouched, the ledger still  *)
(* matches.                                                                *)
(***************************************************************************)
LEMMA MatchMoves ==
    ASSUME BillingTypeOK, MoneyInv, NEW e \in Engagements, NEW reason, NEW delta \in Int,
           RowsFor(e, reason) = {}, ApplyDelta(e, reason, delta),
           RowOwes(e)' = RowOwes(e) + delta,
           \A d \in Engagements : d # e => RowOwes(d)' = RowOwes(d)
    PROVE  LedgerMatchesEngagement'
  <1>1. IsFiniteSet(ledger)
    BY DEF MoneyInv, SumsAgree
  <1>2. /\ DeltaSum(RowsAbout(e))' = DeltaSum(RowsAbout(e)) + delta
        /\ \A d \in Engagements : d # e => RowsAbout(d)' = RowsAbout(d)
    BY <1>1, RowsGain
  <1>3. \A d \in Engagements : d # e => DeltaSum(RowsAbout(d))' = DeltaSum(RowsAbout(d))
    BY <1>2 DEF DeltaSum
  <1>4. \A d \in Engagements : DeltaSum(RowsAbout(d)) = RowOwes(d)
    BY DEF MoneyInv, LedgerMatchesEngagement
  <1>5. \A d \in Engagements : DeltaSum(RowsAbout(d))' = RowOwes(d)'
    <2> TAKE d \in Engagements
    <2>1. CASE d = e
      BY <1>2, <1>4, <2>1
    <2>2. CASE d # e
      BY <1>3, <1>4, <2>2
    <2> QED  BY <2>1, <2>2
  <1> QED  BY <1>5 DEF LedgerMatchesEngagement

\* A step that writes no ledger row and changes what no session row owes.
LEMMA MatchFrame ==
    ASSUME MoneyInv, UNCHANGED ledger, \A d \in Engagements : RowOwes(d)' = RowOwes(d)
    PROVE  LedgerMatchesEngagement'
  BY DEF MoneyInv, LedgerMatchesEngagement, DeltaSum, RowsAbout

\* A step that moves no money at all.
LEMMA MoneyFrame ==
    ASSUME MoneyInv, UNCHANGED <<balance, ledger, granted, replenished, window>>,
           UNCHANGED <<state, customerMax, billed>>
    PROVE  MoneyInv'
  <1>1. \A d \in Engagements : RowOwes(d)' = RowOwes(d)
    BY RowOwesFrame
  <1>2. LedgerMatchesEngagement'
    BY <1>1, MatchFrame
  <1>3. SumsAgree'
    BY DEF MoneyInv, SumsAgree, LedgerIsSourceOfTruth, EveryHoldCountedOnce, DeltaSum, RowsOf,
           HoldRowsOf, SpentSum
  <1> QED  BY <1>2, <1>3 DEF MoneyInv

(***************************************************************************)
(* Closing a row bills what the release leaves of the hold.                *)
(***************************************************************************)
LEMMA CloseMoney ==
    ASSUME EngagementInv, MoneyInv, NEW e \in Engagements, NEW amount \in Nat, NEW how,
           state[e] = "open", amount <= customerMax[e], CloseAndRelease(e, amount, how),
           UNCHANGED <<customerMax, granted, replenished>>
    PROVE  MoneyInv'
  <1> DEFINE x == customerMax[e] - amount
  <1>t. /\ BillingTypeOK /\ customerMax[e] \in Nat /\ x \in Int
        /\ state \in [Engagements -> SessionStates] /\ billed \in [Engagements -> Nat]
    BY DEF EngagementInv, TypeOK
  <1>1. /\ state'[e] = "closed" /\ billed'[e] = amount
        /\ \A d \in Engagements : d # e => state'[d] = state[d] /\ billed'[d] = billed[d]
    BY <1>t DEF CloseAndRelease
  <1>2. RowOwes(e) = -customerMax[e] /\ RowOwes(e)' = -amount
    BY <1>1, RowOwesValues, RowOwesNextValues
  <1>3. \A d \in Engagements : d # e => RowOwes(d)' = RowOwes(d)
    BY <1>1, RowOwesFrame
  <1>4. RowOwes(e)' = RowOwes(e) + x
    <2> DEFINE m == customerMax[e]
    <2> HIDE DEF m
    <2>1. m \in Nat => -amount = -m + (m - amount)
      OBVIOUS
    <2> QED  BY <1>t, <1>2, <2>1 DEF m
  <1>5. CASE customerMax[e] > amount
    <2>1. ReleaseCustomerEngagement(e, x)
      BY <1>5 DEF CloseAndRelease
    <2>2. RowsFor(e, ReleaseReason) = {}
      BY DEF EngagementInv, LedgerFollowsRow, RowsFor
    <2>3. ApplyDelta(e, ReleaseReason, x)
      BY <2>1, <2>2 DEF ReleaseCustomerEngagement
    <2> HIDE DEF x
    <2>4. LedgerMatchesEngagement'
      BY <1>t, <1>3, <1>4, <2>2, <2>3, MatchMoves
    <2>5. SumsAgree'
      BY <1>t, <2>1, ReleaseSums DEF MoneyInv
    <2> QED  BY <2>4, <2>5 DEF MoneyInv
  <1>6. CASE ~(customerMax[e] > amount)
    <2>1. UNCHANGED <<balance, ledger, window>> /\ customerMax[e] = amount
      BY <1>t, <1>6 DEF CloseAndRelease
    <2>2. \A d \in Engagements : RowOwes(d)' = RowOwes(d)
      BY <1>2, <1>3, <2>1
    <2>3. LedgerMatchesEngagement'
      BY <2>1, <2>2, MatchFrame
    <2>4. SumsAgree'
      BY <2>1 DEF MoneyInv, SumsAgree, LedgerIsSourceOfTruth, EveryHoldCountedOnce, DeltaSum,
                  RowsOf, HoldRowsOf, SpentSum
    <2> QED  BY <2>3, <2>4 DEF MoneyInv
  <1> QED  BY <1>5, <1>6

\* Releasing an unauthorized claim bills nothing and gives the hold back.
LEMMA ReleaseMoney ==
    ASSUME EngagementInv, MoneyInv, NEW e \in Engagements, ReleaseUnauthorizedEngagement(e),
           UNCHANGED <<granted, replenished>>
    PROVE  MoneyInv'
  <1> DEFINE x == customerMax[e]
  <1>t. /\ BillingTypeOK /\ x \in Nat /\ x \in Int
        /\ state \in [Engagements -> SessionStates] /\ billed \in [Engagements -> Nat]
    BY DEF EngagementInv, TypeOK
  <1>1. /\ state[e] = "open" /\ ReleaseCustomerEngagement(e, x)
        /\ state'[e] = "closed" /\ billed'[e] = 0 /\ customerMax' = customerMax
        /\ \A d \in Engagements : d # e => state'[d] = state[d] /\ billed'[d] = billed[d]
    BY <1>t DEF ReleaseUnauthorizedEngagement, Releasable
  <1>2. RowOwes(e) = -x /\ RowOwes(e)' = -billed'[e]
    BY <1>1, RowOwesValues, RowOwesNextValues
  <1>3. \A d \in Engagements : d # e => RowOwes(d)' = RowOwes(d)
    BY <1>1, RowOwesFrame
  <1>4. RowOwes(e)' = RowOwes(e) + x
    <2> DEFINE b == billed'[e]
    <2>1. b \in Int /\ b <= 0 /\ 0 <= b /\ RowOwes(e)' = -b
      BY <1>1, <1>2
    <2> HIDE DEF b, x
    <2>2. -b = -x + x
      BY <1>t, <2>1
    <2> QED  BY <1>2, <2>1, <2>2
  <1>5. RowsFor(e, ReleaseReason) = {}
    BY <1>1 DEF EngagementInv, LedgerFollowsRow, RowsFor
  <1>6. ApplyDelta(e, ReleaseReason, x)
    BY <1>1, <1>5 DEF ReleaseCustomerEngagement
  <1> HIDE DEF x
  <1>7. LedgerMatchesEngagement'
    BY <1>t, <1>3, <1>4, <1>5, <1>6, MatchMoves
  <1>8. SumsAgree'
    BY <1>t, <1>1, ReleaseSums DEF MoneyInv
  <1> QED  BY <1>7, <1>8 DEF MoneyInv

\* A claim writes its row and holds the quote.
LEMMA ClaimMoney ==
    ASSUME EngagementInv, MoneyInv, NEW a \in Attempts, ClaimWholesaleEngagement(a)
    PROVE  MoneyInv'
  <1> DEFINE e == Target[a]
             x == quote[a]
  <1>t. /\ BillingTypeOK /\ e \in Engagements /\ x \in Nat /\ -x \in Int
        /\ resolved[a] \in Configs
        /\ state \in [Engagements -> SessionStates] /\ customerMax \in [Engagements -> Nat]
    BY TargetAssumption DEF EngagementInv, TypeOK
  <1>1. /\ state[e] = "none"
        /\ HoldOnce(e, Encumbrance, x, resolved[a])
        /\ state' = [state EXCEPT ![e] = "open"]
        /\ customerMax' = [customerMax EXCEPT ![e] = x]
        /\ billed' = billed
        /\ UNCHANGED <<granted, replenished>>
    BY DEF ClaimWholesaleEngagement, EncumberCustomerEngagement
  <1>2. RowsFor(e, Encumbrance) = {}
    BY <1>1 DEF EngagementInv, LedgerFollowsRow, RowsFor
  <1>3. ApplyDelta(e, Encumbrance, -x)
    BY <1>1, <1>2 DEF HoldOnce
  <1> HIDE DEF e, x
  <1>4. /\ state'[e] = "open" /\ customerMax'[e] = x
        /\ \A d \in Engagements : d # e =>
               state'[d] = state[d] /\ customerMax'[d] = customerMax[d]
    BY <1>t, <1>1
  <1>5. RowOwes(e) = 0 /\ RowOwes(e)' = -x
    BY <1>1, <1>4, RowOwesValues, RowOwesNextValues
  <1>6. \A d \in Engagements : d # e => RowOwes(d)' = RowOwes(d)
    BY <1>1, <1>4, RowOwesFrame
  <1>7. RowOwes(e)' = RowOwes(e) + -x
    BY <1>t, <1>5
  <1>8. LedgerMatchesEngagement'
    BY <1>t, <1>2, <1>3, <1>6, <1>7, MatchMoves
  <1>9. Encumbrance # ReleaseReason
    BY DEF Encumbrance, ReleaseReason
  <1>10. SumsAgree'
    BY <1>t, <1>1, <1>9, HoldOnceSums DEF MoneyInv
  <1> QED  BY <1>8, <1>10 DEF MoneyInv

\* A refill holds what it adds to the customer's maximum.
LEMMA RefillMoney ==
    ASSUME EngagementInv, MoneyInv, NEW e \in Engagements, NEW amount \in Amounts,
           NEW cfg \in Configs, RefillSession(e, amount, cfg)
    PROVE  MoneyInv'
  <1> DEFINE next == authorization[e] + 1
             x == amount - customerMax[e]
  <1>1. /\ state[e] = "open" /\ authorization[e] \in 0 .. MaxRevision - 1
        /\ amount > customerMax[e]
        /\ HoldOnce(e, CapRevision(next), x, cfg)
        /\ customerMax' = [customerMax EXCEPT ![e] = amount]
        /\ state' = state /\ billed' = billed
        /\ UNCHANGED <<granted, replenished>>
    BY DEF RefillSession, IncreaseCustomerEngagementCap
  <1>t. /\ BillingTypeOK /\ amount \in Nat
        /\ customerMax[e] \in Nat /\ customerMax \in [Engagements -> Nat]
    BY AmountsAssumption DEF EngagementInv, TypeOK
  <1>u. x \in Nat /\ -x \in Int
    BY <1>t, <1>1
  <1>2. next \in Revisions /\ ~(next <= authorization[e])
    BY <1>1, BoundsAssumption DEF Revisions
  <1>3. RowsFor(e, CapRevision(next)) = {}
    <2> SUFFICES ASSUME NEW row \in ledger, row.engagement = e,
                        row.reason = CapRevision(next)
                 PROVE  FALSE
      BY DEF RowsFor
    <2> HIDE DEF next
    <2>1. \A n \in Revisions : row.reason = CapRevision(n) => n <= authorization[e]
      BY <1>1 DEF EngagementInv, LedgerFollowsRow
    <2> QED  BY <1>2, <2>1
  <1>4. ApplyDelta(e, CapRevision(next), -x)
    BY <1>1, <1>3 DEF HoldOnce
  <1>5. /\ customerMax'[e] = amount
        /\ \A d \in Engagements : d # e => customerMax'[d] = customerMax[d]
    BY <1>t, <1>1
  <1>6. RowOwes(e) = -customerMax[e] /\ RowOwes(e)' = -amount
    BY <1>1, <1>5, RowOwesValues, RowOwesNextValues
  <1>7. \A d \in Engagements : d # e => RowOwes(d)' = RowOwes(d)
    BY <1>1, <1>5, RowOwesFrame
  <1>8. RowOwes(e)' = RowOwes(e) + -x
    <2> DEFINE m == customerMax[e]
    <2> HIDE DEF m
    <2>1. m \in Nat => -amount = -m + -(amount - m)
      BY <1>t
    <2> QED  BY <1>t, <1>6, <2>1 DEF m
  <1>9. CapRevision(next) # ReleaseReason
    BY DEF CapRevision, ReleaseReason
  <1> HIDE DEF x, next
  <1>10. LedgerMatchesEngagement'
    BY <1>t, <1>u, <1>3, <1>4, <1>7, <1>8, MatchMoves
  <1>11. SumsAgree'
    BY <1>t, <1>u, <1>1, <1>9, HoldOnceSums DEF MoneyInv
  <1> QED  BY <1>10, <1>11 DEF MoneyInv

(***************************************************************************)
(* Every step keeps the money right: one ledger row, one session row and   *)
(* the balance move together, or none of them moves.                       *)
(***************************************************************************)
LEMMA StepMoney ==
    ASSUME EngagementInv, MoneyInv, [Next]_vars
    PROVE  MoneyInv'
  <1>0. \A a \in Attempts : Target[a] \in Engagements
    BY TargetAssumption
  <1>1. ASSUME UNCHANGED <<billingVars, state, customerMax, billed>>
        PROVE  MoneyInv'
    BY <1>1, MoneyFrame DEF billingVars
  <1>2. CASE RequestNext
    <2>1. PICK a \in Attempts :
            \/ \E amount \in Amounts : OpenSession(a, amount)
            \/ ClaimWholesaleEngagement(a)
            \/ ResumeWholesaleEngagement(a)
            \/ ClaimRefused(a)
            \/ IssueInitialAuthorization(a)
            \/ ReleaseRefused(a)
            \/ RecordInitialGrant(a)
            \/ InitialGrantRejected(a)
            \/ FundInitialGrant(a)
            \/ Crash(a)
      BY <1>2 DEF RequestNext
    <2>2. CASE ClaimWholesaleEngagement(a)
      BY <2>2, ClaimMoney
    <2>3. CASE ReleaseRefused(a)
      <3>1. CASE ReleaseUnauthorizedEngagement(Target[a])
        BY <1>0, <2>3, <3>1, ReleaseMoney DEF ReleaseRefused
      <3>2. CASE UNCHANGED <<balance, ledger, window, sessionVars>>
        BY <1>1, <2>3, <3>2 DEF sessionVars, billingVars, ReleaseRefused
      <3> QED  BY <2>3, <3>1, <3>2 DEF ReleaseRefused
    <2>4. CASE ~ClaimWholesaleEngagement(a) /\ ~ReleaseRefused(a)
      <3>1. UNCHANGED <<billingVars, state, customerMax, billed>>
        BY <2>1, <2>4 DEF OpenSession, ResumeWholesaleEngagement, ClaimRefused,
           IssueInitialAuthorization, RecordInitialGrant, InitialGrantRejected,
           FundInitialGrant, Crash, sessionVars
      <3> QED  BY <1>1, <3>1
    <2> QED  BY <2>2, <2>3, <2>4
  <1>3. CASE ServiceNext
    <2>1. PICK e \in Engagements :
            \/ ReleaseStale(e)
            \/ \E amount \in Amounts, cfg \in Configs : RefillSession(e, amount, cfg)
            \/ \E amount \in 0 .. customerMax[e] : ResolveStuckWork(e, amount)
            \/ \E n \in Revisions :
                 DeliverRevision(e, n) \/ CloseSession(e, n) \/ ReconcileGrant(e, n)
      BY <1>3 DEF ServiceNext
    <2>t. customerMax[e] \in Nat /\ debit[e] \in Nat
      BY DEF EngagementInv, TypeOK
    <2>2. CASE ReleaseStale(e)
      BY <2>2, ReleaseMoney DEF ReleaseStale
    <2>3. ASSUME NEW amount \in Amounts, NEW cfg \in Configs, RefillSession(e, amount, cfg)
          PROVE  MoneyInv'
      BY <2>3, RefillMoney
    <2>4. ASSUME NEW amount \in 0 .. customerMax[e], ResolveStuckWork(e, amount)
          PROVE  MoneyInv'
      <3>1. amount \in Nat
        BY <2>t
      <3> QED  BY <2>4, <3>1, CloseMoney DEF ResolveStuckWork
    <2>5. ASSUME NEW n \in Revisions, CloseSession(e, n)
          PROVE  MoneyInv'
      BY <2>5, <2>t, CloseMoney DEF CloseSession
    <2>6. ASSUME NEW n \in Revisions, DeliverRevision(e, n) \/ ReconcileGrant(e, n)
          PROVE  MoneyInv'
      BY <1>1, <2>6 DEF DeliverRevision, ReconcileGrant, sessionVars
    <2> QED  BY <2>1, <2>2, <2>3, <2>4, <2>5, <2>6
  <1>4. CASE BrokerNext
    <2>1. UNCHANGED <<billingVars, state, customerMax, billed>>
      BY <1>4 DEF BrokerNext, BrokerAdmitsFirst, BrokerAdmitsRevision, BrokerDebits,
         BrokerRetiresUnused, BrokerLosesOutcome, BrokerSettles, BrokerMoves, sessionVars
    <2> QED  BY <1>1, <2>1
  <1>5. CASE CreditStep
    <2>1. BillingTypeOK /\ SumsAgree /\ CreditNext /\ UNCHANGED <<state, customerMax, billed>>
      BY <1>5 DEF CreditStep, sessionVars, EngagementInv, TypeOK, MoneyInv
    <2>2. UNCHANGED ledger
      BY <2>1, CreditNextType
    <2>3. \A d \in Engagements : RowOwes(d)' = RowOwes(d)
      BY <2>1, RowOwesFrame
    <2>4. LedgerMatchesEngagement'
      BY <2>2, <2>3, MatchFrame
    <2>5. SumsAgree'
      BY <2>1, CreditSums
    <2> QED  BY <2>4, <2>5 DEF MoneyInv
  <1>6. CASE UNCHANGED vars
    BY <1>1, <1>6 DEF vars, sessionVars
  <1> QED  BY <1>2, <1>3, <1>4, <1>5, <1>6 DEF Next

\* Before the first claim nothing is owed and nothing is on record.
LEMMA InitMoney == Init => MoneyInv
  <1> SUFFICES ASSUME Init PROVE MoneyInv
    OBVIOUS
  <1>1. SumsAgree
    BY BillingInitSums DEF Init
  <1>2. ASSUME NEW e \in Engagements PROVE DeltaSum(RowsAbout(e)) = RowOwes(e)
    <2>1. RowsAbout(e) = {}
      BY DEF Init, BillingInit, RowsAbout
    <2>2. DeltaSum({}) = 0
      BY FS_EmptySet, DeltaSumGains
    <2>3. RowOwes(e) = 0
      BY RowOwesValues DEF Init
    <2> QED  BY <2>1, <2>2, <2>3
  <1> QED  BY <1>1, <1>2 DEF MoneyInv, LedgerMatchesEngagement

\* The sums of a session's money, in every reachable state.
LEMMA MoneyHolds == Spec => []MoneyInv
  <1>1. Init => MoneyInv
    BY InitMoney
  <1>2. EngagementInv /\ MoneyInv /\ [Next]_vars => MoneyInv'
    BY StepMoney
  <1> QED  BY <1>1, <1>2, InvariantHolds, PTL DEF Spec

(***************************************************************************)
(* The ledger rows of a session add up to what its row owes, through every *)
(* interleaving of retried opens, refills, closes, stale releases and      *)
(* operator recourse.                                                      *)
(***************************************************************************)
THEOREM LedgerMatchesRows == Spec => []LedgerMatchesEngagement
  <1>1. MoneyInv => LedgerMatchesEngagement
    BY DEF MoneyInv
  <1> QED  BY <1>1, MoneyHolds, PTL

(***************************************************************************)
(* Sessions keep billing's own promise: a balance is the credit granted    *)
(* plus the ledger rows of all the user's sessions.                        *)
(***************************************************************************)
THEOREM SessionsKeepLedger == Spec => []LedgerIsSourceOfTruth
  <1>1. MoneyInv => LedgerIsSourceOfTruth
    BY DEF MoneyInv, SumsAgree
  <1> QED  BY <1>1, MoneyHolds, PTL
=============================================================================
