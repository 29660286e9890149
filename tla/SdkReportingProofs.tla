------------------------- MODULE SdkReportingProofs -------------------------
(***************************************************************************)
(* Proofs about the Python SDK and what it reports to. First a paid        *)
(* session between the SDK, LOC and the broker, for any number of refill   *)
(* keys and any caps, and for every loss of a reply, every cancellation    *)
(* and every overlap of two close() calls. Then telemetry and              *)
(* notifications, for any number of requests and connections, any          *)
(* threshold, window and retention.                                        *)
(***************************************************************************)
EXTENDS SdkClient, Reporting, SumTheorems

-----------------------------------------------------------------------------
(* The session runner. *)

Calls == {"idle", "asking", "granted", "refused", "topping", "topped"}
Closings == {"idle", "ending", "ended", "closing", "closed", "refused"}
Outcomes == {"none", "granted", "refused", "in_flight"}
Row == [cap : Nat, observed : Nat, outcome : Outcomes]

Runner == [session : BOOLEAN, listener : {"none", "running", "dead"}, closing : BOOLEAN,
           settled : BOOLEAN, key : 0 .. Keys, drawn : 0 .. Keys, refill : Nat, max : Nat]
Call == [at : Calls, cap : Nat, observed : Nat]

(***************************************************************************)
(* The fields of the runner, of the call under way, of LOC and of the      *)
(* broker keep their types.                                                *)
(***************************************************************************)
SdkTypeOK ==
    /\ runner \in Runner
    /\ caller \in Call
    /\ closer \in [Closers -> Closings]
    /\ loc \in [close : {"none", "answered", "committed", "lost"}, max : Nat, funds : Nat,
               row : [1 .. Keys -> Row]]
    /\ broker \in [state : {"none", "active", "ended"}, max : Nat, claimed : Nat,
                   retired : SUBSET (1 .. Keys)]

\* Row k of LOC holds a grant.
HasGrant(k) == loc.row[k].outcome = "granted"

\* LOC never granted more than its session row says, and only keys that the
\* runner has drawn have rows.
GrantsWithinMax ==
    \A k \in 1 .. Keys : /\ HasGrant(k) => loc.row[k].cap <= loc.max
                         /\ loc.row[k] # NoRow => k <= runner.drawn

\* The key in use is the last one drawn.
KeyIsLast == runner.key # NoKey => runner.key = runner.drawn

\* A call that asks LOC has a key; one that takes a grant to the broker, and a
\* refill the runner keeps, have the grant in the row of that key.
CallHasGrant ==
    /\ caller.at = "asking" => runner.key # NoKey /\ runner.refill = NoRefill
    /\ caller.at \in {"granted", "topping", "topped"} =>
         runner.key # NoKey /\ HasGrant(runner.key) /\ loc.row[runner.key].cap = caller.cap
    /\ caller.at \in {"topping", "topped"} => runner.refill = caller.cap
    /\ caller.at = "topped" => caller.cap <= broker.max
    /\ runner.refill # NoRefill =>
         runner.key # NoKey /\ HasGrant(runner.key) /\ loc.row[runner.key].cap = runner.refill

\* LOC handles a close only after the broker ended the session and every grant
\* was admitted or retired, and it tells nobody of a close it did not handle.
\* While the close waits for its commit, and for good once it is committed, no
\* grant is added.
ClosedIsOver ==
    /\ Locked \/ Closed => Retired
    /\ loc.close # "none" => broker.state = "ended"
    /\ runner.settled => loc.close # "none"
    /\ \A c \in Closers : closer[c] = "closed" => loc.close # "none"

(***************************************************************************)
(* The inductive invariant: how the runner's fields, the call under way,   *)
(* LOC's rows and the broker's cap agree.                                  *)
(***************************************************************************)
SdkInv ==
    /\ SdkTypeOK
    /\ CapsAgree
    /\ GrantsWithinMax
    /\ KeyIsLast
    /\ CallHasGrant
    /\ NoGrantForgotten
    /\ ClosedIsOver

-----------------------------------------------------------------------------
(***************************************************************************)
(* A session begins with one authorization, which runner, broker and LOC   *)
(* share.                                                                  *)
(***************************************************************************)
LEMMA SdkInitInv == SdkInit => SdkInv
<1> SUFFICES ASSUME SdkInit PROVE SdkInv
  OBVIOUS
<1> USE SdkAssumption DEF SdkInit, NoRow, NoKey, NoRefill, Quiet
<1>1. SdkTypeOK
  BY DEF SdkTypeOK, Runner, Call, Calls, Closings, Row, Outcomes
<1>2. \A k \in 1 .. Keys : loc.row[k] = NoRow /\ ~HasGrant(k)
  BY DEF HasGrant
<1> QED
  BY <1>1, <1>2 DEF SdkInv, CapsAgree, GrantsWithinMax, KeyIsLast, CallHasGrant,
                    NoGrantForgotten, ClosedIsOver, HasGrant, Locked, Closed

(***************************************************************************)
(* What the steps of close() and of the listener have in common: they      *)
(* leave LOC, the broker and the keys alone, may end the call under way    *)
(* and leave its admitted cap with the runner, and answer "closed" only    *)
(* for a close LOC has handled.                                            *)
(***************************************************************************)
LEMMA ClosingStep ==
    ASSUME SdkInv, SdkTypeOK',
           loc' = loc, broker' = broker,
           runner'.key = runner.key, runner'.drawn = runner.drawn,
           runner'.refill = runner.refill,
           runner'.max = runner.max \/ (caller.at = "topped" /\ runner'.max = caller.cap),
           caller' \in {caller, Quiet},
           runner'.settled => loc.close # "none",
           \A c \in Closers : closer'[c] = "closed" => loc.close # "none"
    PROVE  SdkInv'
<1>1. caller'.at # "idle" => caller' = caller
  BY DEF Quiet
<1>2. CapsAgree' /\ GrantsWithinMax' /\ KeyIsLast' /\ NoGrantForgotten'
  BY DEF SdkInv, CapsAgree, GrantsWithinMax, KeyIsLast, NoGrantForgotten, HasGrant, CallHasGrant
<1>3. CallHasGrant'
  BY <1>1 DEF SdkInv, CallHasGrant, HasGrant
<1>4. ClosedIsOver'
  BY DEF SdkInv, ClosedIsOver, Retired, Locked, Closed
<1> QED
  BY <1>2, <1>3, <1>4 DEF SdkInv

(***************************************************************************)
(* Every step of the session keeps the types.                              *)
(***************************************************************************)
LEMMA SdkTypeStep == SdkInv /\ SessionNext => SdkTypeOK'
<1> SUFFICES ASSUME SdkInv, SessionNext PROVE SdkTypeOK'
  OBVIOUS
<1>0. SdkTypeOK
  BY DEF SdkInv
<1> USE SdkAssumption, <1>0 DEF SdkTypeOK, Runner, Call, Calls, Closings, Row, Outcomes, Closers
<1>1. ASSUME NEW attached \in BOOLEAN, Start(attached) PROVE SdkTypeOK'
  BY <1>1 DEF Start, StartedBroker
<1>2. CASE StartRaises
  BY <1>2 DEF StartRaises, StartedBroker
<1>3. ASSUME NEW cap \in 1 .. MaxUnits, NEW runway \in 0 .. MaxUnits, OnBalance(cap, runway)
      PROVE  SdkTypeOK'
  <2>1. CASE runner.refill # NoRefill
    BY <1>3, <2>1 DEF OnBalance
  <2>2. CASE runner.refill = NoRefill
    <3>1. RefillKey \in 0 .. Keys /\ (runner.key = NoKey => runner.drawn + 1 \in 0 .. Keys)
      BY <1>3, <2>2 DEF OnBalance, RefillKey, NoKey
    <3>2. caller' = [at |-> "asking", cap |-> cap, observed |-> broker.claimed]
      BY <1>3, <2>2 DEF OnBalance
    <3>3. runner' = [runner EXCEPT !.key = RefillKey,
                                   !.drawn = IF runner.key = NoKey THEN @ + 1 ELSE @]
      BY <1>3, <2>2 DEF OnBalance
    <3>4. closer' = closer /\ loc' = loc /\ broker' = broker
      BY <1>3 DEF OnBalance
    <3> HIDE DEF RefillKey
    <3>5. caller' \in Call
      BY <3>2
    <3> DEFINE drawn == IF runner.key = NoKey THEN runner.drawn + 1 ELSE runner.drawn
    <3>6. drawn \in 0 .. Keys
      BY <3>1
    <3>7. runner' = [[runner EXCEPT !.key = RefillKey] EXCEPT !.drawn = drawn]
      BY <3>3
    <3> HIDE DEF drawn
    <3> QED
      BY <3>1, <3>4, <3>5, <3>6, <3>7
  <2> QED
    BY <2>1, <2>2
<1>4. CASE LocRefill
  <2> DEFINE outcome == IF Refills THEN "granted" ELSE "refused"
             top == IF Refills THEN caller.cap ELSE loc.max
  <2>1. /\ loc' = [loc EXCEPT !.max = top, !.row[runner.key] = Stored(outcome)]
        /\ caller' = [caller EXCEPT !.at = outcome]
        /\ runner' = runner /\ closer' = closer /\ broker' = broker
    BY <1>4 DEF LocRefill
  <2>2. Stored(outcome) \in Row /\ top \in Nat
    BY DEF Stored
  <2>3. loc.row \in [1 .. Keys -> Row]
    OBVIOUS
  <2>4. [loc.row EXCEPT ![runner.key] = Stored(outcome)] \in [1 .. Keys -> Row]
    BY <2>2, <2>3
  <2> HIDE DEF top
  <2> QED
    BY <2>1, <2>2, <2>4
<1>5. CASE LocUnproven
  <2>1. Stored("in_flight") \in Row
    BY DEF Stored
  <2>2. [loc.row EXCEPT ![runner.key] = Stored("in_flight")] \in [1 .. Keys -> Row]
    BY <2>1
  <2> QED
    BY <1>5, <2>2 DEF LocUnproven
<1>6. CASE LocReplay
  BY <1>6 DEF LocReplay
<1>7. CASE RefillGranted \/ RefillRefused
  <2>1. \/ runner' = [runner EXCEPT !.refill = caller.cap]
        \/ runner' = [runner EXCEPT !.key = runner.key]
    BY <1>7 DEF RefillGranted, Granted, RefillRefused, KeyAfterRefusal
  <2>2. caller' \in Call
    BY <1>7 DEF RefillGranted, RefillRefused, Quiet
  <2>3. closer' = closer /\ loc' = loc /\ broker' = broker
    BY <1>7 DEF RefillGranted, RefillRefused
  <2> QED
    BY <2>1, <2>2, <2>3
<1>8. CASE TopUp
  BY <1>8 DEF TopUp
<1>9. CASE RefillDone
  <2> DEFINE done == [runner EXCEPT !.max = caller.cap]
  <2>1. done \in Runner
    OBVIOUS
  <2>2. runner' = [[done EXCEPT !.key = 0] EXCEPT !.refill = 0]
    BY <1>9 DEF RefillDone, Forgotten, NoKey, NoRefill
  <2> HIDE DEF done, SdkTypeOK
  <2>3. [done EXCEPT !.key = 0] \in Runner
    BY <2>1, 0 \in 0 .. Keys
  <2>4. runner' \in Runner
    BY <2>2, <2>3
  <2>5. caller' \in Call
    BY <1>9 DEF RefillDone, Quiet
  <2>6. closer' = closer /\ loc' = loc /\ broker' = broker
    BY <1>9 DEF RefillDone
  <2> QED
    BY <2>4, <2>5, <2>6 DEF SdkTypeOK
<1>10. CASE CallRaises \/ SocketCloses
  <2>1. caller' \in Call /\ loc' = loc /\ broker' = broker
    BY <1>10 DEF CallRaises, SocketCloses, Quiet
  <2>2. PICK r \in Interrupted : ListenerEnds(r)
    BY <1>10 DEF CallRaises, SocketCloses, Interrupted
  <2>3. r \in Runner
    BY DEF Interrupted
  <2> QED
    BY <2>1, <2>2, <2>3 DEF ListenerEnds, FirstCall
<1>11. CASE BeginClose
  BY <1>11 DEF BeginClose, FirstCall
<1>12. ASSUME NEW c \in Closers, BrokerEnds(c) PROVE SdkTypeOK'
  BY <1>12 DEF BrokerEnds
<1>13. ASSUME NEW c \in Closers, CancelListener(c) PROVE SdkTypeOK'
  <2>1. /\ caller' \in Call
        /\ closer' \in [Closers -> Closings]
        /\ loc' = loc /\ broker' = broker
    BY <1>13 DEF CancelListener, Quiet
  <2>2. runner' = runner \/ \E r \in Interrupted : runner' = [r EXCEPT !.listener = "dead"]
    BY <1>13 DEF CancelListener
  <2>3. Interrupted \subseteq Runner
    BY DEF Interrupted
  <2>4. CASE runner' = runner
    BY <2>1, <2>4
  <2>5. ASSUME NEW r \in Interrupted, runner' = [r EXCEPT !.listener = "dead"] PROVE SdkTypeOK'
    <3>1. r \in Runner
      BY <2>3
    <3>2. runner' \in Runner
      BY <3>1, <2>5
    <3> QED
      BY <2>1, <3>2
  <2> QED
    BY <2>2, <2>4, <2>5
<1>14. ASSUME NEW c \in Closers, LocClose(c) PROVE SdkTypeOK'
  <2>1. closer' \in [Closers -> Closings] /\ runner' = runner /\ caller' = caller /\ broker' = broker
    BY <1>14 DEF LocClose
  <2>2. loc' = loc \/ loc' = [loc EXCEPT !.close = "answered"]
    BY <1>14 DEF LocClose
  <2> QED
    BY <2>1, <2>2
<1>15. ASSUME NEW c \in Closers, CloseDone(c) \/ CloseRaises(c) PROVE SdkTypeOK'
  <2>1. closer' \in [Closers -> Closings] /\ loc' = loc /\ caller' = caller /\ broker' = broker
    BY <1>15 DEF CloseDone, CloseRaises
  <2>2. runner' = runner \/ runner' = [runner EXCEPT !.settled = TRUE]
    BY <1>15 DEF CloseDone, CloseRaises
  <2> QED
    BY <2>1, <2>2
<1>16. CASE AddFunds
  <2>1. loc.funds + 1 \in Nat
    OBVIOUS
  <2>2. loc' = [loc EXCEPT !.funds = loc.funds + 1]
    BY <1>16 DEF AddFunds
  <2>3. runner' = runner /\ caller' = caller /\ closer' = closer /\ broker' = broker
    BY <1>16 DEF AddFunds
  <2> HIDE DEF Row
  <2> QED
    BY <2>1, <2>2, <2>3
<1>17. CASE Meter
  <2>1. broker.claimed + 1 \in Nat
    OBVIOUS
  <2>2. broker' = [broker EXCEPT !.claimed = broker.claimed + 1]
    BY <1>17 DEF Meter
  <2>3. runner' = runner /\ caller' = caller /\ closer' = closer /\ loc' = loc
    BY <1>17 DEF Meter
  <2> QED
    BY <2>1, <2>2, <2>3
<1>18. ASSUME NEW k \in 1 .. Keys, Retire(k) PROVE SdkTypeOK'
  BY <1>18 DEF Retire
<1>19. ASSUME NEW ends \in {"committed", "lost"}, CommitClose(ends) PROVE SdkTypeOK'
  BY <1>19 DEF CommitClose
<1> HIDE DEF SdkTypeOK
<1> QED
  BY <1>1, <1>2, <1>3, <1>4, <1>5, <1>6, <1>7, <1>8, <1>9, <1>10, <1>11, <1>12, <1>13, <1>14,
     <1>15, <1>16, <1>17, <1>18, <1>19 DEF SessionNext

(***************************************************************************)
(* Every step keeps the invariant.  LOC refills no session it has closed   *)
(* or is closing, and only the row of the runner's key; the broker's cap grows only to a cap  *)
(* that is granted, and the key is dropped only once the broker has it.    *)
(***************************************************************************)
LEMMA SdkStep == SdkInv /\ [SdkNext]_vars => SdkInv'
<1> SUFFICES ASSUME SdkInv, [SdkNext]_vars PROVE SdkInv'
  OBVIOUS
<1>a. SdkTypeOK
  BY DEF SdkInv
<1>b. SessionNext => SdkTypeOK'
  BY SdkTypeStep
<1> USE SdkAssumption, <1>a
<1>1. ASSUME NEW attached \in BOOLEAN, Start(attached) \/ StartRaises PROVE SdkInv'
  <2>1. SdkTypeOK'
    BY <1>1, <1>b DEF SessionNext
  <2>2. /\ caller' = caller /\ closer' = closer /\ loc' = loc
        /\ runner'.key = runner.key /\ runner'.drawn = runner.drawn
        /\ runner'.refill = runner.refill /\ runner'.max = runner.max
        /\ runner'.settled = runner.settled
        /\ broker'.max = broker.max /\ broker'.retired = broker.retired
        /\ broker.state = "ended" => broker'.state = "ended"
    BY <1>1 DEF Start, StartRaises, StartedBroker, SdkTypeOK, Runner
  <2> QED
    BY <2>1, <2>2 DEF SdkInv, CapsAgree, GrantsWithinMax, KeyIsLast, NoGrantForgotten,
                      HasGrant, CallHasGrant, ClosedIsOver, Retired, Locked, Closed
<1>2. ASSUME NEW cap \in 1 .. MaxUnits, NEW runway \in 0 .. MaxUnits, OnBalance(cap, runway)
      PROVE  SdkInv'
  <2>1. SdkTypeOK'
    BY <1>2, <1>b DEF SessionNext
  <2>2. /\ closer' = closer /\ loc' = loc /\ broker' = broker
        /\ runner'.refill = runner.refill /\ runner'.max = runner.max
        /\ runner'.settled = runner.settled
        /\ runner.key # NoKey => runner'.key = runner.key /\ runner'.drawn = runner.drawn
        /\ runner.key = NoKey /\ runner.refill = NoRefill =>
             runner'.key = runner.drawn + 1 /\ runner'.drawn = runner.drawn + 1
    <3>1. runner \in Runner
      BY DEF SdkInv, SdkTypeOK
    <3>2. closer' = closer /\ loc' = loc /\ broker' = broker
      BY <1>2 DEF OnBalance
    <3>3. CASE runner.refill # NoRefill
      <4>1. runner' = runner
        BY <1>2, <3>3 DEF OnBalance
      <4> QED BY <3>2, <3>3, <4>1
    <3>4. CASE runner.refill = NoRefill
      <4>1. runner' = [runner EXCEPT !.key = RefillKey,
                                     !.drawn = IF runner.key = NoKey THEN @ + 1 ELSE @]
        BY <1>2, <3>4 DEF OnBalance
      <4> QED BY <3>1, <3>2, <4>1 DEF RefillKey, Runner
    <3> QED BY <3>3, <3>4
  <2>3. \/ runner.refill # NoRefill /\ caller'.at = "topping" /\ caller'.cap = runner.refill
        \/ runner.refill = NoRefill /\ caller'.at = "asking"
    BY <1>2 DEF OnBalance
  <2>4. runner.refill # NoRefill => runner.key # NoKey
    BY DEF SdkInv, CallHasGrant
  <2>5. CapsAgree' /\ ClosedIsOver'
    BY <2>2 DEF SdkInv, CapsAgree, ClosedIsOver, Retired, Locked, Closed
  <2>6. GrantsWithinMax' /\ KeyIsLast' /\ NoGrantForgotten'
    BY <2>2, <2>4 DEF SdkInv, GrantsWithinMax, KeyIsLast, NoGrantForgotten, HasGrant, NoKey,
                      SdkTypeOK, Runner
  <2>7. CallHasGrant'
    BY <2>2, <2>3, <2>4 DEF SdkInv, CallHasGrant, HasGrant, NoKey, SdkTypeOK, Runner
  <2> QED
    BY <2>1, <2>5, <2>6, <2>7 DEF SdkInv
<1>3. CASE LocRefill
  <2> DEFINE key == runner.key
             outcome == IF Refills THEN "granted" ELSE "refused"
  <2>1. SdkTypeOK'
    BY <1>3, <1>b DEF SessionNext
  <2>2. key \in 1 .. Keys /\ runner.refill = NoRefill /\ ~HasGrant(key) /\ caller.cap \in Nat
    BY <1>3 DEF LocRefill, SdkInv, CallHasGrant, SdkTypeOK, Runner, Call, NoKey, HasGrant, Decides,
                NoRow
  <2>3. /\ runner' = runner /\ closer' = closer /\ broker' = broker
        /\ loc'.close = loc.close
        /\ loc'.max = IF Refills THEN caller.cap ELSE loc.max
        /\ loc'.row = [loc.row EXCEPT ![key] = Stored(outcome)]
        /\ caller'.at = outcome /\ caller'.cap = caller.cap
    BY <1>3 DEF LocRefill, SdkTypeOK, Call
  <2>4. \A k \in 1 .. Keys : loc'.row[k] = IF k = key THEN Stored(outcome) ELSE loc.row[k]
    BY <2>2, <2>3 DEF SdkTypeOK
  <2>5. ~Locked /\ (Refills => ~Closed /\ caller.cap > loc.max)
    BY <1>3 DEF LocRefill, Refills
  <2>6. Stored(outcome).cap = caller.cap /\ Stored(outcome).outcome = outcome
    BY DEF Stored
  <2>7. loc.max \in Nat /\ broker.max \in Nat /\ runner.max \in Nat
    BY DEF SdkTypeOK, Runner
  <2> HIDE DEF key
  <2>8. CapsAgree'
    BY <2>3, <2>5, <2>7, <2>2 DEF SdkInv, CapsAgree
  <2>9. GrantsWithinMax' /\ KeyIsLast'
    <3>1. key <= runner.drawn
      BY <2>2 DEF SdkInv, KeyIsLast, NoKey, SdkTypeOK, Runner, key
    <3>2. loc.max <= loc'.max /\ loc'.max \in Nat
      BY <2>2, <2>3, <2>5, <2>7
    <3>3. \A k \in 1 .. Keys : loc.row[k].cap \in Nat
      BY DEF SdkTypeOK, Row
    <3>4. \A k \in 1 .. Keys : HasGrant(k)' => loc'.row[k].cap <= loc'.max
      BY <2>2, <2>3, <2>4, <2>6, <2>7, <3>2, <3>3 DEF SdkInv, GrantsWithinMax, HasGrant
    <3> QED
      BY <2>3, <2>4, <3>1, <3>4 DEF SdkInv, GrantsWithinMax, KeyIsLast
  <2>10. CallHasGrant' /\ NoGrantForgotten'
    BY <2>2, <2>3, <2>4, <2>6
    DEF SdkInv, CallHasGrant, NoGrantForgotten, HasGrant, NoKey, NoRefill, key
  <2>11. ClosedIsOver'
    BY <2>2, <2>3, <2>4, <2>5, <2>6 DEF SdkInv, ClosedIsOver, Retired, Locked, Closed, HasGrant
  <2> QED
    BY <2>1, <2>8, <2>9, <2>10, <2>11 DEF SdkInv
<1>4. CASE LocUnproven
  <2> DEFINE key == runner.key
  <2>1. SdkTypeOK'
    BY <1>4, <1>b DEF SessionNext
  <2>2. key \in 1 .. Keys /\ runner.refill = NoRefill /\ ~HasGrant(key)
    BY <1>4 DEF LocUnproven, SdkInv, CallHasGrant, SdkTypeOK, Runner, NoKey, HasGrant, Decides,
                NoRow
  <2>3. /\ runner' = runner /\ closer' = closer /\ broker' = broker
        /\ loc'.close = loc.close /\ loc'.max = loc.max
        /\ loc'.row = [loc.row EXCEPT ![key] = Stored("in_flight")]
        /\ caller'.at = "refused"
    BY <1>4 DEF LocUnproven, SdkTypeOK, Call
  <2>4. \A k \in 1 .. Keys : loc'.row[k] = IF k = key THEN Stored("in_flight") ELSE loc.row[k]
    BY <2>2, <2>3 DEF SdkTypeOK
  <2>5. Stored("in_flight").outcome # "granted"
    BY DEF Stored
  <2>6. \A k \in 1 .. Keys : loc'.row[k].outcome = "granted" => k # key /\ loc'.row[k] = loc.row[k]
    BY <2>4, <2>5
  <2>7. CapsAgree' /\ KeyIsLast'
    BY <2>3 DEF SdkInv, CapsAgree, KeyIsLast
  <2>8. GrantsWithinMax'
    BY <2>2, <2>3, <2>4, <2>6
    DEF SdkInv, GrantsWithinMax, KeyIsLast, HasGrant, NoKey, SdkTypeOK, Runner
  <2>9. CallHasGrant' /\ NoGrantForgotten' /\ ClosedIsOver'
    BY <2>2, <2>3, <2>6 DEF SdkInv, CallHasGrant, NoGrantForgotten, ClosedIsOver, Retired, Locked, Closed, HasGrant
  <2> QED
    BY <2>1, <2>7, <2>8, <2>9 DEF SdkInv
<1>5. CASE LocReplay
  <2>1. SdkTypeOK'
    BY <1>5, <1>b DEF SessionNext
  <2>2. /\ runner' = runner /\ closer' = closer /\ broker' = broker /\ loc' = loc
        /\ caller'.cap = caller.cap /\ caller'.at \in {"granted", "refused"}
        /\ caller'.at = "granted" => HasGrant(runner.key) /\ Body(loc.row[runner.key]) = Asked
        /\ runner.key # NoKey /\ runner.refill = NoRefill
    BY <1>5 DEF LocReplay, SdkTypeOK, Call, HasGrant, SdkInv, CallHasGrant
  <2>3. Body(loc.row[runner.key]) = Asked => loc.row[runner.key].cap = caller.cap
    BY DEF Body, Asked
  <2>4. CallHasGrant'
    BY <2>2, <2>3 DEF SdkInv, CallHasGrant, HasGrant
  <2> QED
    BY <2>1, <2>2, <2>4 DEF SdkInv, CapsAgree, GrantsWithinMax, KeyIsLast, NoGrantForgotten,
                            HasGrant, ClosedIsOver, Retired, Locked, Closed
<1>6. CASE RefillGranted \/ RefillRefused
  <2>1. SdkTypeOK'
    BY <1>6, <1>b DEF SessionNext
  <2>2. /\ closer' = closer /\ broker' = broker /\ loc' = loc
        /\ runner'.key = runner.key /\ runner'.drawn = runner.drawn /\ runner'.max = runner.max
        /\ runner'.settled = runner.settled
    BY <1>6 DEF RefillGranted, Granted, RefillRefused, KeyAfterRefusal, SdkTypeOK, Runner
  <2>3. \/ /\ caller.at = "granted" /\ caller'.at = "topping" /\ caller'.cap = caller.cap
           /\ runner'.refill = caller.cap
        \/ caller'.at = "idle" /\ runner'.refill = runner.refill
    BY <1>6 DEF RefillGranted, Granted, RefillRefused, Quiet, SdkTypeOK, Runner, Call
  <2>4. CallHasGrant'
    BY <2>2, <2>3 DEF SdkInv, CallHasGrant, HasGrant
  <2> QED
    BY <2>1, <2>2, <2>4 DEF SdkInv, CapsAgree, GrantsWithinMax, KeyIsLast, NoGrantForgotten,
                            HasGrant, ClosedIsOver, Retired, Locked, Closed
<1>7. CASE TopUp
  <2>1. SdkTypeOK'
    BY <1>7, <1>b DEF SessionNext
  <2>2. /\ runner' = runner /\ closer' = closer /\ loc' = loc
        /\ caller.at = "topping" /\ caller'.at = "topped" /\ caller'.cap = caller.cap
        /\ broker'.max = IF caller.cap > broker.max THEN caller.cap ELSE broker.max
        /\ broker'.state = broker.state /\ broker'.retired = broker.retired
    BY <1>7 DEF TopUp, SdkTypeOK, Call
  <2>3. broker.max \in Nat /\ caller.cap \in Nat /\ runner.max \in Nat /\ loc.max \in Nat
    BY DEF SdkTypeOK, Call, Runner
  <2>4. broker'.max >= broker.max /\ caller.cap <= broker'.max /\ broker'.max \in Nat
    BY <2>2, <2>3
  <2>5. runner.key \in 1 .. Keys /\ HasGrant(runner.key) /\ loc.row[runner.key].cap = caller.cap
    BY <2>2 DEF SdkInv, CallHasGrant, SdkTypeOK, Runner, NoKey
  <2>6. CapsAgree'
    BY <2>2, <2>3, <2>5 DEF SdkInv, CapsAgree, GrantsWithinMax
  <2>7. \A k \in 1 .. Keys : loc.row[k].cap \in Nat
    BY DEF SdkTypeOK, Row
  <2>8. NoGrantForgotten' /\ ClosedIsOver'
    BY <2>2, <2>3, <2>4, <2>7 DEF SdkInv, NoGrantForgotten, ClosedIsOver, Retired, Locked, Closed
  <2>9. CallHasGrant'
    BY <2>2, <2>4 DEF SdkInv, CallHasGrant, HasGrant
  <2> QED
    BY <2>1, <2>2, <2>6, <2>8, <2>9 DEF SdkInv, GrantsWithinMax, KeyIsLast, HasGrant
<1>8. CASE RefillDone
  <2>1. SdkTypeOK'
    BY <1>8, <1>b DEF SessionNext
  <2>2. /\ closer' = closer /\ broker' = broker /\ loc' = loc
        /\ caller.at = "topped" /\ caller'.at = "idle"
        /\ runner'.key = NoKey /\ runner'.refill = NoRefill /\ runner'.max = caller.cap
        /\ runner'.drawn = runner.drawn /\ runner'.settled = runner.settled
    BY <1>8 DEF RefillDone, Forgotten, Quiet, SdkTypeOK, Runner
  <2>3. caller.cap <= broker.max /\ loc.row[runner.key].cap = caller.cap
    BY <2>2 DEF SdkInv, CallHasGrant
  <2>4. broker.max \in Nat /\ caller.cap \in Nat
    BY DEF SdkTypeOK, Call
  <2>5. CapsAgree' /\ NoGrantForgotten'
    BY <2>2, <2>3, <2>4 DEF SdkInv, CapsAgree, NoGrantForgotten
  <2> QED
    BY <2>1, <2>2, <2>5 DEF SdkInv, GrantsWithinMax, KeyIsLast, CallHasGrant, HasGrant,
                            ClosedIsOver, Retired, Locked, Closed
<1>9. CASE CallRaises \/ SocketCloses \/ BeginClose
  <2>1. SdkTypeOK'
    BY <1>9, <1>b DEF SessionNext
  <2>2. /\ loc' = loc /\ broker' = broker /\ caller' \in {caller, Quiet}
        /\ runner'.key = runner.key /\ runner'.drawn = runner.drawn
        /\ runner'.refill = runner.refill
        /\ runner'.max = runner.max \/ (caller.at = "topped" /\ runner'.max = caller.cap)
        /\ runner'.settled = runner.settled
    <3>1. ASSUME NEW r \in Interrupted, ListenerEnds(r)
          PROVE  /\ runner'.key = runner.key /\ runner'.drawn = runner.drawn
                 /\ runner'.refill = runner.refill
                 /\ runner'.max = runner.max \/ (caller.at = "topped" /\ runner'.max = caller.cap)
                 /\ runner'.settled = runner.settled
      BY <3>1 DEF ListenerEnds, Interrupted, SdkTypeOK, Runner
    <3>2. CASE CallRaises \/ SocketCloses
      <4>1. \E r \in Interrupted : ListenerEnds(r)
        BY <3>2 DEF CallRaises, SocketCloses, Interrupted
      <4> QED
        BY <3>1, <3>2, <4>1 DEF CallRaises, SocketCloses
    <3>3. CASE BeginClose
      BY <3>3 DEF BeginClose, SdkTypeOK, Runner
    <3> QED
      BY <1>9, <3>2, <3>3
  <2>3. \A c \in Closers : closer'[c] \in {closer[c], "ending"}
    BY <1>9 DEF CallRaises, SocketCloses, ListenerEnds, BeginClose, FirstCall, SdkTypeOK, Closers
  <2> QED
    BY <2>1, <2>2, <2>3, ClosingStep DEF SdkInv, ClosedIsOver
<1>10. ASSUME NEW c \in Closers, CancelListener(c) \/ CloseDone(c) \/ CloseRaises(c)
       PROVE  SdkInv'
  <2>1. SdkTypeOK'
    BY <1>10, <1>b DEF SessionNext
  <2>2. /\ loc' = loc /\ broker' = broker /\ caller' \in {caller, Quiet}
        /\ runner'.key = runner.key /\ runner'.drawn = runner.drawn
        /\ runner'.refill = runner.refill
        /\ runner'.max = runner.max \/ (caller.at = "topped" /\ runner'.max = caller.cap)
        /\ runner'.settled => runner.settled \/ closer[c] = "closed"
    BY <1>10 DEF CancelListener, Interrupted, CloseDone, ResultAnswer, CloseRaises, SdkTypeOK, Runner
  <2>3. \A d \in Closers : closer'[d] \in {closer[d], "closing", "idle"}
    BY <1>10 DEF CancelListener, CloseDone, CloseRaises, SdkTypeOK, Closers
  <2> QED
    BY <2>1, <2>2, <2>3, ClosingStep DEF SdkInv, ClosedIsOver
<1>11. ASSUME NEW c \in Closers, BrokerEnds(c) PROVE SdkInv'
  <2>1. SdkTypeOK'
    BY <1>11, <1>b DEF SessionNext
  <2>2. /\ runner' = runner /\ caller' = caller /\ loc' = loc
        /\ broker'.max = broker.max /\ broker'.retired = broker.retired /\ broker'.state = "ended"
        /\ \A d \in Closers : closer'[d] \in {closer[d], "ended"}
    BY <1>11 DEF BrokerEnds, SdkTypeOK
  <2> QED
    BY <2>1, <2>2 DEF SdkInv, CapsAgree, GrantsWithinMax, KeyIsLast, NoGrantForgotten, HasGrant,
                      CallHasGrant, ClosedIsOver, Retired, Locked, Closed
<1>12. ASSUME NEW c \in Closers, LocClose(c) PROVE SdkInv'
  <2>1. SdkTypeOK'
    BY <1>12, <1>b DEF SessionNext
  <2> DEFINE accepted == broker.state = "ended" /\ Retired
  <2>2. /\ runner' = runner /\ caller' = caller /\ broker' = broker
        /\ loc'.max = loc.max /\ loc'.row = loc.row
        /\ loc'.close = IF accepted /\ ~Closed THEN "answered" ELSE loc.close
        /\ \A d \in Closers : closer'[d] = "closed" => closer[d] = "closed" \/ accepted
    BY <1>12 DEF LocClose, SdkTypeOK
  <2>3. Retired' = Retired
    BY <2>2 DEF Retired
  <2>4. ClosedIsOver'
    BY <2>2, <2>3 DEF SdkInv, ClosedIsOver, Locked, Closed
  <2> QED
    BY <2>1, <2>2, <2>4 DEF SdkInv, CapsAgree, GrantsWithinMax, KeyIsLast, NoGrantForgotten,
                            HasGrant, CallHasGrant
<1>13. ASSUME NEW k \in 1 .. Keys, AddFunds \/ Meter \/ Retire(k) PROVE SdkInv'
  <2>1. SdkTypeOK'
    BY <1>13, <1>b DEF SessionNext
  <2>2. /\ runner' = runner /\ caller' = caller /\ closer' = closer
        /\ loc'.max = loc.max /\ loc'.row = loc.row /\ loc'.close = loc.close
        /\ broker'.max = broker.max /\ broker'.state = broker.state
        /\ broker.retired \subseteq broker'.retired
    BY <1>13 DEF AddFunds, Meter, Retire, SdkTypeOK
  <2> QED
    BY <2>1, <2>2 DEF SdkInv, CapsAgree, GrantsWithinMax, KeyIsLast, NoGrantForgotten, HasGrant,
                      CallHasGrant, ClosedIsOver, Retired, Locked, Closed
<1>16. ASSUME NEW ends \in {"committed", "lost"}, CommitClose(ends) PROVE SdkInv'
  <2>1. SdkTypeOK'
    BY <1>16, <1>b DEF SessionNext
  <2>2. /\ runner' = runner /\ caller' = caller /\ closer' = closer /\ broker' = broker
        /\ loc'.max = loc.max /\ loc'.row = loc.row /\ loc'.close = ends /\ Locked
    BY <1>16 DEF CommitClose, SdkTypeOK
  <2> QED
    BY <2>1, <2>2 DEF SdkInv, CapsAgree, GrantsWithinMax, KeyIsLast, NoGrantForgotten, HasGrant,
                      CallHasGrant, ClosedIsOver, Retired, Locked, Closed
<1>14. CASE JobNext \/ UNCHANGED vars
  <2>1. UNCHANGED sessionVars
    BY <1>14 DEF JobNext, SubmitStep, OpenJob, Lookup, SettleAtLoc, CommitSettle, SettleAnswered,
                 SettleFails, JobRaises, CallBroker, BrokerSettles, ReconcileJob, vars
  <2> QED
    BY <2>1 DEF sessionVars, SdkInv, SdkTypeOK, CapsAgree, GrantsWithinMax, KeyIsLast,
                NoGrantForgotten, HasGrant, CallHasGrant, ClosedIsOver, Retired, Locked, Closed
<1>15. 1 \in 1 .. Keys /\ TRUE \in BOOLEAN
  OBVIOUS
<1> QED
  BY <1>1, <1>2, <1>3, <1>4, <1>5, <1>6, <1>7, <1>8, <1>9, <1>10, <1>11, <1>12, <1>13, <1>14, <1>15,
     <1>16
  DEF SdkNext, SessionNext

-----------------------------------------------------------------------------
(***************************************************************************)
(* The invariant holds in every state of every behaviour of the SDK, LOC   *)
(* and the broker.                                                         *)
(***************************************************************************)
THEOREM SdkInvariant == SdkSpec => []SdkInv
<1> QED
  BY SdkInitInv, SdkStep, PTL DEF SdkSpec

(***************************************************************************)
(* The runner never works with a cap the broker has not admitted, and the  *)
(* broker never admits more than LOC granted, whatever replies are lost.   *)
(***************************************************************************)
THEOREM CapsAlwaysAgree == SdkSpec => []CapsAgree
<1>1. SdkInv => CapsAgree
  BY DEF SdkInv
<1> QED
  BY <1>1, SdkInvariant, PTL

(***************************************************************************)
(* No reply that is lost, and no cancellation, leaves a usable grant       *)
(* behind that the runner's refill key does not name.                      *)
(***************************************************************************)
THEOREM GrantsAreRemembered == SdkSpec => []NoGrantForgotten
<1>1. SdkInv => NoGrantForgotten
  BY DEF SdkInv
<1> QED
  BY <1>1, SdkInvariant, PTL

(***************************************************************************)
(* When the runner says settled, the broker has ended the session and LOC  *)
(* has handled its close, and every grant is admitted or retired unless    *)
(* the commit that follows LOC's answer failed.                            *)
(***************************************************************************)
THEOREM SettledMeansOver == SdkSpec => []SettledIsOver
<1>1. SdkInv => SettledIsOver
  BY DEF SdkInv, SdkTypeOK, ClosedIsOver, SettledIsOver, Locked, Closed
<1> QED
  BY <1>1, SdkInvariant, PTL

-----------------------------------------------------------------------------
(* Telemetry and notifications. *)

\* The statuses of a recorded mail.
Statuses == {"none", "sent", "delivered", "bounced"}
\* The steps of a request.
Steps == {"flush", "count", "decide", "commit", "event", "notify", "portal", "email", "record",
          "webhook", "raise", "lookup", "apply"}
\* What is known of a request under way.
RequestRecords ==
    [kind : {"none", "ingest", "refusal", "callback"}, todo : Seq(Steps), begun : BOOLEAN,
     extra : BOOLEAN, batch : Nat, stamp : Nat, asked : Nat, seen : Nat,
     aborted : BOOLEAN, callback : Callbacks \cup {NoCallback}, message : Nat, known : Statuses, tries : Nat]
\* The states of the SDK's emitter.
Emitters ==
    [buffer : Nat, batch : Nat, attempt : Nat, at : {"idle", "sending", "waiting"},
     on : Requests \cup {"none"}, closed : {"no", "closing", "final"}]
\* How many rows were received at each instant.
RowCounts == [0..MaxTime -> Nat]

\* The fields of the emitter, of the requests and of the tables keep their
\* types.
ReportTypeOK ==
    /\ emitter \in Emitters
    /\ request \in [Requests -> RequestRecords]
    /\ errors \in RowCounts
    /\ refusals \in [raised : Nat, rows : RowCounts, logged : Nat, purged : Nat]
    /\ lastFired \in Nat
    /\ alerts \in Seq([at : Nat, life : Nat])
    /\ mails \in [sent : Nat, row : [1..MaxMails -> Statuses]]
    /\ now \in 0..MaxTime
    /\ life \in Nat

\* The steps of a notification.
FanOut == {"notify", "portal", "email", "webhook"}

\* The steps after the fan-out began: what is recorded is recorded next.
Late(steps, S) == steps # <<>> => Head(steps) \in S \cup {"record"} /\ Tail(steps) \in Seq(S)

\* What is left to do for a batch that is not counted, and for one that is.
ToCount == <<"count", "decide", "commit">>
ToDecide == <<"decide", "commit">>

\* The steps a request of each kind may have left.
Shape(q) ==
    \/ q.kind = "none" /\ q.todo = <<>>
    \/ q.kind = "callback" /\ q.callback \in Callbacks /\ q.todo \in {<<"lookup", "apply">>, <<"apply">>}
    \/ q.kind = "refusal" /\ (q.todo = Plan("refusal") \/ Late(q.todo, FanOut \cup {"raise"}))
    \/ q.kind = "ingest" /\ q.todo = Plan("ingest")
    \/ q.kind = "ingest" /\ q.begun /\ (q.todo \in {ToCount, ToDecide}
                                        \/ Late(q.todo, FanOut \cup {"commit"}))

\* Every request has one of these lists left.
ShapeInv == \A r \in Requests : Shape(request[r])

\* Refusals that have a row or a log line and were not given to the customer yet.
Noted(q) == q.kind = "refusal" /\ q.todo # <<>> /\ Head(q.todo) # "event"

\* Refusals given or about to be given have their row, log line or deletion.
RefusalInv ==
    refusals.raised + Cardinality({r \in Requests : Noted(request[r])})
      <= refusals.logged + refusals.purged + SumFunction(refusals.rows)

\* The request has sent a mail and is about to record it.
Recording(q) == q.todo # <<>> /\ Head(q.todo) = "record"

\* A message that is about to be recorded has no row yet, and no other request
\* records it.
MailInv ==
    /\ \A i \in 1..MaxMails : i > mails.sent => mails.row[i] = "none"
    /\ \A r \in Requests : Recording(request[r]) =>
          request[r].message \in 1..MaxMails /\ request[r].message <= mails.sent
          /\ mails.row[request[r].message] = "none"
    /\ \A r, o \in Requests : r # o /\ Recording(request[r]) /\ Recording(request[o])
          => request[r].message # request[o].message

\* A batch whose rows are in its transaction, one that was counted and one that
\* was decided.
InTransaction(q) == q.kind = "ingest" /\ q.begun /\ q.todo # Plan("ingest")
Counted(q) == InTransaction(q) /\ q.todo # ToCount
Decided(q) == Counted(q) /\ q.todo # ToDecide

\* An alert of this process that covers the instant the batch was judged at.
Reported(q) ==
    \E i \in 1..Len(alerts) : alerts[i].life = life /\ q.asked < alerts[i].at + Window

\* What the batch adds to the window it was judged by.
Own(q) == IF q.stamp + Window >= q.asked THEN q.batch ELSE 0

\* The dedupe mark has its alert; one batch at a time has rows in its
\* transaction; what a counted batch has seen covers the window; and a decided
\* one was reported when it saw Threshold.
CrossingInv ==
    /\ lastFired # Never => \E i \in 1..Len(alerts) : alerts[i].life = life /\ alerts[i].at = lastFired
    /\ \A r \in Requests : request[r].stamp <= now /\ request[r].asked <= now
    /\ \A r, o \in Requests : r # o /\ InTransaction(request[r]) => ~InTransaction(request[o])
    /\ \A r \in Requests : Counted(request[r]) /\ ~request[r].aborted
          => SumFunctionOnSet(errors, InWindow(request[r].asked)) + Own(request[r]) <= request[r].seen
    /\ \A r \in Requests : Decided(request[r]) /\ ~request[r].aborted /\ request[r].seen >= Threshold
          => Reported(request[r])

\* The inductive invariant of telemetry and notifications.
ReportInv == ReportTypeOK /\ ShapeInv /\ RefusalInv /\ MailInv /\ CrossingInv

\* The types of the constants.
LEMMA ReportConstants ==
    /\ IsFiniteSet(Requests) /\ Window \in Nat /\ Window > 0 /\ Threshold \in Nat /\ Threshold > 0
    /\ MaxTime \in Nat /\ MaxMails \in Nat /\ Never \in Nat /\ Retention \in Nat /\ BufferCap \in Nat
    /\ FlushRetries \in Nat
  BY ReportingAssumption DEF Never

\* The plans of the three kinds.
LEMMA Plans ==
    /\ Plan("ingest") = <<"flush", "count", "decide", "commit">>
    /\ Plan("refusal") = <<"event", "notify", "notify", "raise">>
    /\ Plan("callback") = <<"lookup", "apply">>
  BY DEF Plan

\* How a plan begins.
LEMMA PlanSteps ==
    ASSUME NEW kind \in {"ingest", "refusal", "callback"}
    PROVE  /\ Plan(kind) \in Seq(Steps) /\ Plan(kind) # <<>>
           /\ Head(Plan(kind)) \in {"flush", "event", "lookup"}
           /\ kind = "refusal" => Head(Plan(kind)) = "event"
           /\ kind = "ingest" => Head(Plan(kind)) = "flush"
  <1>1. /\ <<"flush", "count", "decide", "commit">> \in Seq(Steps)
        /\ <<"flush", "count", "decide", "commit">> # <<>>
        /\ Head(<<"flush", "count", "decide", "commit">>) = "flush"
    BY DEF Steps
  <1>2. /\ <<"event", "notify", "notify", "raise">> \in Seq(Steps)
        /\ <<"event", "notify", "notify", "raise">> # <<>>
        /\ Head(<<"event", "notify", "notify", "raise">>) = "event"
    BY DEF Steps
  <1>3. /\ <<"lookup", "apply">> \in Seq(Steps) /\ <<"lookup", "apply">> # <<>>
        /\ Head(<<"lookup", "apply">>) = "lookup"
    BY DEF Steps
  <1> QED BY <1>1, <1>2, <1>3, Plans, Zenon

\* The fields a request keeps when it goes on.
Like(q, p) ==
    /\ p.kind = q.kind /\ p.begun = q.begun /\ p.batch = q.batch /\ p.stamp = q.stamp
    /\ p.asked = q.asked /\ p.seen = q.seen /\ p.aborted = q.aborted

\* What a request may do without disturbing the count of refusals, the mails
\* and the batches.
GentleRefusal(q, p) == Noted(p) => Noted(q)
GentleMail(q, p) == Recording(p) => Recording(q) /\ p.message = q.message
GentleBatch(q, p) ==
    /\ p.stamp \in {0, q.stamp} /\ p.asked \in {0, q.asked}
    /\ InTransaction(p) => InTransaction(q)
    /\ InTransaction(p) /\ ~p.aborted =>
         /\ ~q.aborted /\ p.batch = q.batch /\ p.stamp = q.stamp /\ p.asked = q.asked /\ p.seen = q.seen
         /\ Counted(p) => Counted(q)
         /\ Decided(p) => Decided(q)
\* A change of a request that disturbs nothing.
Gentle(q, p) == GentleRefusal(q, p) /\ GentleMail(q, p) /\ GentleBatch(q, p)

\* A slot without a request.
LEMMA IdleRecord ==
    /\ Idle \in RequestRecords /\ Idle.kind = "none" /\ Idle.todo = <<>> /\ ~Idle.begun
    /\ Idle.stamp = 0 /\ Idle.asked = 0 /\ Shape(Idle)
  <1>1. /\ Idle.kind = "none" /\ Idle.todo = <<>> /\ ~Idle.begun /\ Idle.stamp = 0 /\ Idle.asked = 0
    BY DEF Idle
  <1>2. Idle \in RequestRecords
    BY DEF Idle, RequestRecords, Statuses
  <1> QED BY <1>1, <1>2 DEF Shape

\* A request that ends disturbs nothing.
LEMMA GentleIdle ==
    ASSUME NEW q \in RequestRecords PROVE Gentle(q, Idle)
  BY IdleRecord DEF Gentle, GentleRefusal, GentleMail, GentleBatch, Noted, Recording, InTransaction

\* Nor does one that stays as it is.
LEMMA GentleSelf ==
    ASSUME NEW q \in RequestRecords PROVE Gentle(q, q)
  BY DEF Gentle, GentleRefusal, GentleMail, GentleBatch

\* Nor does one that arrives.
LEMMA Arriving ==
    ASSUME NEW q \in RequestRecords, NEW kind \in {"ingest", "refusal", "callback"}, NEW batch \in Nat,
           NEW callback \in Callbacks \cup {NoCallback}, kind = "callback" => callback \in Callbacks
    PROVE  LET p == [Idle EXCEPT !.kind = kind, !.todo = Plan(kind), !.batch = batch,
                                 !.callback = callback]
           IN  p \in RequestRecords /\ Shape(p) /\ Gentle(q, p)
  <1> DEFINE p == [Idle EXCEPT !.kind = kind, !.todo = Plan(kind), !.batch = batch,
                               !.callback = callback]
  <1>1. /\ Plan(kind) \in Seq(Steps) /\ Plan(kind) # <<>> /\ Head(Plan(kind)) # "record"
        /\ kind = "refusal" => Head(Plan(kind)) = "event"
    BY PlanSteps
  <1>2. /\ p \in RequestRecords /\ p.kind = kind /\ p.todo = Plan(kind) /\ ~p.begun
        /\ p.stamp = 0 /\ p.asked = 0 /\ p.callback = callback
    <2>1. [Idle EXCEPT !.kind = kind] \in RequestRecords
      BY IdleRecord DEF RequestRecords
    <2> HIDE DEF p
    <2> QED BY <1>1, IdleRecord DEF RequestRecords, p
  <1> HIDE DEF p
  <1>3. Shape(p)
    BY <1>2, Plans DEF Shape
  <1>4. ~Noted(p) /\ ~Recording(p) /\ ~InTransaction(p)
    BY <1>1, <1>2 DEF Noted, Recording, InTransaction
  <1>5. Gentle(q, p)
    BY <1>2, <1>4 DEF Gentle, GentleRefusal, GentleMail, GentleBatch
  <1> QED BY <1>2, <1>3, <1>5 DEF p

\* A request that has begun its fan-out, or has decided that there is none.
IsLate(q) ==
    \/ q.kind = "refusal" /\ Late(q.todo, FanOut \cup {"raise"})
    \/ q.kind = "ingest" /\ q.begun /\ Late(q.todo, FanOut \cup {"commit"})

\* What the next step of a request says about its kind.
LEMMA Heads ==
    ASSUME NEW q \in RequestRecords, Shape(q), q.todo # <<>>
    PROVE  LET h == Head(q.todo)
           IN  /\ h = "flush" => q.kind = "ingest" /\ q.todo = Plan("ingest")
               /\ h = "count" => q.kind = "ingest" /\ q.begun /\ q.todo = ToCount
               /\ h = "decide" => q.kind = "ingest" /\ q.begun /\ q.todo = ToDecide
               /\ h = "event" => q.kind = "refusal" /\ q.todo = Plan("refusal")
               /\ h = "lookup" => q.kind = "callback" /\ q.todo = <<"lookup", "apply">>
               /\ h = "apply" => q.kind = "callback"
               /\ h \in {"lookup", "apply"} => q.callback \in Callbacks
               /\ h = "commit" => q.kind = "ingest" /\ IsLate(q)
               /\ h = "raise" => q.kind = "refusal" /\ IsLate(q)
               /\ h \in FanOut \cup {"record"} => IsLate(q)
  <1>1. CASE /\ q.kind = "callback" /\ q.callback \in Callbacks
             /\ q.todo \in {<<"lookup", "apply">>, <<"apply">>}
    BY <1>1 DEF FanOut
  <1>2. CASE q.kind = "refusal" /\ q.todo = Plan("refusal")
    BY <1>2, Plans DEF FanOut
  <1>3. CASE q.kind = "ingest" /\ q.todo = Plan("ingest")
    BY <1>3, Plans DEF FanOut
  <1>4. CASE q.kind = "ingest" /\ q.begun /\ q.todo \in {ToCount, ToDecide}
    BY <1>4 DEF FanOut, ToCount, ToDecide
  <1>5. CASE q.kind = "refusal" /\ Late(q.todo, FanOut \cup {"raise"})
    <2>1. Head(q.todo) \in FanOut \cup {"raise", "record"} /\ IsLate(q)
      BY <1>5 DEF Late, IsLate
    <2> QED BY <1>5, <2>1 DEF FanOut
  <1>6. CASE q.kind = "ingest" /\ q.begun /\ Late(q.todo, FanOut \cup {"commit"})
    <2>1. Head(q.todo) \in FanOut \cup {"commit", "record"} /\ IsLate(q)
      BY <1>6 DEF Late, IsLate
    <2> QED BY <1>6, <2>1 DEF FanOut
  <1> QED BY <1>1, <1>2, <1>3, <1>4, <1>5, <1>6 DEF Shape

\* A request in its fan-out was noted, or decided.
LEMMA LateHeads ==
    ASSUME NEW q \in RequestRecords, IsLate(q), q.todo # <<>>
    PROVE  /\ Head(q.todo) \in FanOut \cup {"record", "commit", "raise"}
           /\ q.kind = "refusal" => Noted(q)
           /\ q.kind = "ingest" => Decided(q)
  <1>1. Head(q.todo) \in FanOut \cup {"record", "commit", "raise"}
    BY DEF IsLate, Late
  <1>2. Head(q.todo) \notin {"event", "flush", "count", "decide"}
    BY <1>1 DEF FanOut
  <1>3. q.todo \notin {Plan("ingest"), ToCount, ToDecide}
    BY <1>2, Plans DEF ToCount, ToDecide
  <1> QED BY <1>1, <1>2, <1>3 DEF Noted, Decided, Counted, InTransaction, IsLate

\* The next steps, with channels before them, are late again.
LEMMA LateMove ==
    ASSUME NEW q \in RequestRecords, NEW p \in RequestRecords, IsLate(q), q.todo # <<>>, Like(q, p),
           NEW s \in Seq(FanOut), p.todo = s \o Tail(q.todo)
    PROVE  Shape(p) /\ Gentle(q, p) /\ ~Recording(p)
  <1>1. ASSUME NEW x, Late(q.todo, FanOut \cup {x}), x # "record"
        PROVE  Late(p.todo, FanOut \cup {x}) /\ (p.todo # <<>> => Head(p.todo) # "record")
    <2>1. Tail(q.todo) \in Seq(FanOut \cup {x}) /\ s \in Seq(FanOut \cup {x})
      BY <1>1 DEF Late
    <2>2. p.todo \in Seq(FanOut \cup {x})
      BY <2>1
    <2>3. p.todo # <<>> => Head(p.todo) \in FanOut \cup {x} /\ Tail(p.todo) \in Seq(FanOut \cup {x})
      BY <2>2
    <2> QED BY <1>1, <2>3 DEF Late, FanOut
  <1>2. IsLate(p) /\ ~Recording(p)
    BY <1>1 DEF IsLate, Like, Recording
  <1>3. (q.kind = "refusal" => Noted(q)) /\ (q.kind = "ingest" => Decided(q))
    BY LateHeads
  <1>4. Gentle(q, p)
    BY <1>2, <1>3 DEF Gentle, GentleRefusal, GentleMail, GentleBatch, Noted, Decided, Counted,
                      InTransaction, Like
  <1> QED BY <1>2, <1>4 DEF Shape, IsLate

\* So are they without channels before them.
LEMMA LateNext ==
    ASSUME NEW q \in RequestRecords, NEW p \in RequestRecords, IsLate(q), q.todo # <<>>, Like(q, p),
           p.todo = Tail(q.todo)
    PROVE  Shape(p) /\ Gentle(q, p) /\ ~Recording(p)
  <1>1. <<>> \in Seq(FanOut) /\ p.todo = <<>> \o Tail(q.todo)
    BY DEF RequestRecords
  <1> QED BY <1>1, LateMove

\* A request that keeps its steps keeps everything that counts.
LEMMA SameSteps ==
    ASSUME NEW q \in RequestRecords, NEW p \in RequestRecords, Shape(q),
           p.todo = q.todo, p.message = q.message, p.kind = q.kind, p.callback = q.callback, q.begun => p.begun,
           p.batch = q.batch, p.stamp = q.stamp, p.asked = q.asked, p.seen = q.seen,
           p.aborted = q.aborted
    PROVE  Shape(p) /\ Gentle(q, p)
  <1>1. Shape(p)
    BY DEF Shape
  <1>2. Noted(p) => Noted(q)
    BY DEF Noted
  <1>3. InTransaction(p) => InTransaction(q)
    BY DEF InTransaction, Shape
  <1>4. (Counted(p) => Counted(q)) /\ (Decided(p) => Decided(q))
    BY <1>3 DEF Counted, Decided
  <1> QED BY <1>1, <1>2, <1>3, <1>4 DEF Gentle, GentleRefusal, GentleMail, GentleBatch, Recording

-----------------------------------------------------------------------------
\* Counts of requests are numbers and grow with the set.
LEMMA NotedCount ==
    ASSUME NEW A \in SUBSET Requests, NEW B \in SUBSET A
    PROVE  Cardinality(A) \in Nat /\ Cardinality(B) \in Nat /\ Cardinality(B) <= Cardinality(A)
  <1>1. IsFiniteSet(A)
    BY ReportConstants, FS_Subset
  <1> QED BY <1>1, FS_Subset, FS_CardinalityType

\* Rows by time of receipt have a sum.
LEMMA RowsTotal ==
    ASSUME NEW rows \in RowCounts
    PROVE  /\ IsFiniteSet(0..MaxTime)
           /\ SumFunction(rows) = SumFunctionOnSet(rows, 0..MaxTime) /\ SumFunction(rows) \in Int
  <1>1. IsFiniteSet(0..MaxTime)
    BY ReportConstants, FS_Interval
  <1>2. DOMAIN rows = 0..MaxTime /\ \A t \in 0..MaxTime : rows[t] \in Int
    BY DEF RowCounts
  <1>3. SumFunction(rows) = SumFunctionOnSet(rows, 0..MaxTime)
    BY <1>2, Zenon DEF SumFunction
  <1> QED BY <1>1, <1>2, <1>3, SumType

\* So has a window of them.
LEMMA WindowSum ==
    ASSUME NEW rows \in RowCounts, NEW a \in 0..MaxTime
    PROVE  /\ InWindow(a) \subseteq 0..MaxTime /\ IsFiniteSet(InWindow(a))
           /\ SumFunctionOnSet(rows, InWindow(a)) \in Int
  <1>1. InWindow(a) \subseteq 0..MaxTime
    BY ReportConstants DEF InWindow
  <1>2. IsFiniteSet(InWindow(a))
    <2>1. IsFiniteSet(0..MaxTime)
      BY ReportConstants, FS_Interval
    <2> QED BY <1>1, <2>1, FS_Subset
  <1>3. \A t \in InWindow(a) : rows[t] \in Int
    BY <1>1 DEF RowCounts
  <1> QED BY <1>1, <1>2, <1>3, SumType

\* The refusals: given, stored by time, logged, purged.
RefusalRecords == [raised : Nat, rows : RowCounts, logged : Nat, purged : Nat]

\* What is on record of refusals.
Total(f) == f.logged + f.purged + SumFunction(f.rows)

\* The record is a number.
LEMMA TotalType ==
    ASSUME NEW f \in RefusalRecords PROVE Total(f) \in Int /\ f.raised \in Nat
  <1>1. f.raised \in Nat /\ f.logged \in Nat /\ f.purged \in Nat /\ f.rows \in RowCounts
    BY DEF RefusalRecords
  <1> QED BY <1>1, RowsTotal DEF Total

\* As long as no refusal is noted that was not, and no row or log line is lost.
LEMMA RefusalKeeps ==
    ASSUME ReportTypeOK, RefusalInv, \A r \in Requests : GentleRefusal(request[r], request'[r]),
           refusals' \in RefusalRecords, refusals'.raised = refusals.raised,
           Total(refusals) <= Total(refusals')
    PROVE  RefusalInv'
  <1> DEFINE A == {r \in Requests : Noted(request[r])}
             B == {r \in Requests : Noted(request'[r])}
  <1>1. A \in SUBSET Requests /\ B \in SUBSET A
    BY DEF GentleRefusal
  <1> HIDE DEF A, B
  <1>2. Cardinality(A) \in Nat /\ Cardinality(B) \in Nat /\ Cardinality(B) <= Cardinality(A)
    BY <1>1, NotedCount
  <1>3. Total(refusals) \in Int /\ Total(refusals') \in Int /\ refusals.raised \in Nat
    BY TotalType DEF ReportTypeOK, RefusalRecords
  <1>4. refusals.raised + Cardinality(A) <= Total(refusals)
    BY DEF RefusalInv, Total, A
  <1>5. refusals'.raised + Cardinality(B) <= Total(refusals')
    BY <1>2, <1>3, <1>4
  <1> QED BY <1>5 DEF RefusalInv, Total, B

\* Mails keep their invariant as long as no request is about to record that was
\* not.
LEMMA MailKeeps ==
    ASSUME MailInv, \A r \in Requests : GentleMail(request[r], request'[r]), mails' = mails
    PROVE  MailInv'
  BY DEF MailInv, GentleMail

\* Batches keep their invariant as long as rows only vanish and no batch goes
\* on.
LEMMA CrossingKeeps ==
    ASSUME ReportTypeOK, CrossingInv, \A r \in Requests : GentleBatch(request[r], request'[r]),
           request' \in [Requests -> RequestRecords],
           errors' \in RowCounts, \A t \in 0..MaxTime : errors'[t] <= errors[t],
           UNCHANGED <<lastFired, alerts, life>>, now' \in Nat, now <= now'
    PROVE  CrossingInv'
  <1> USE ReportConstants DEF ReportTypeOK
  <1>1. (lastFired # Never => \E i \in 1..Len(alerts) : alerts[i].life = life /\ alerts[i].at = lastFired)'
    BY DEF CrossingInv, Never
  <1>2. ASSUME NEW r \in Requests PROVE request'[r].stamp <= now' /\ request'[r].asked <= now'
    <2>1. /\ request[r].stamp <= now /\ request[r].asked <= now
          /\ request'[r].stamp \in {0, request[r].stamp} /\ request'[r].asked \in {0, request[r].asked}
      BY DEF CrossingInv, GentleBatch
    <2>2. request[r].stamp \in Nat /\ request[r].asked \in Nat
      BY DEF RequestRecords
    <2> QED BY <2>1, <2>2
  <1>3. ASSUME NEW r \in Requests, NEW o \in Requests, r # o, InTransaction(request'[r])
        PROVE  ~InTransaction(request'[o])
    BY <1>3 DEF CrossingInv, GentleBatch
  <1>4. ASSUME NEW r \in Requests, Counted(request'[r]), ~request'[r].aborted
        PROVE  SumFunctionOnSet(errors', InWindow(request'[r].asked)) + Own(request'[r]) <= request'[r].seen
    <2>1. InTransaction(request'[r])
      BY <1>4 DEF Counted
    <2>2. /\ Counted(request[r]) /\ ~request[r].aborted
          /\ request'[r].batch = request[r].batch /\ request'[r].stamp = request[r].stamp
          /\ request'[r].asked = request[r].asked /\ request'[r].seen = request[r].seen
      BY <1>4, <2>1 DEF GentleBatch
    <2>3. request[r].batch \in Nat /\ request[r].seen \in Nat /\ request[r].asked \in 0..MaxTime
      <3>1. request[r].batch \in Nat /\ request[r].seen \in Nat /\ request[r].asked \in Nat
        BY DEF RequestRecords
      <3>2. request[r].asked <= now /\ now \in 0..MaxTime
        BY DEF CrossingInv
      <3> QED BY <3>1, <3>2
    <2> DEFINE W == InWindow(request[r].asked)
    <2>4. SumFunctionOnSet(errors, W) + Own(request[r]) <= request[r].seen
      BY <2>2 DEF CrossingInv
    <2>5. Own(request'[r]) = Own(request[r]) /\ Own(request[r]) \in Nat
      BY <2>2, <2>3 DEF Own
    <2>6. /\ W \subseteq 0..MaxTime /\ IsFiniteSet(W) /\ SumFunctionOnSet(errors, W) \in Int
          /\ SumFunctionOnSet(errors', W) \in Int
      BY <2>3, WindowSum
    <2> HIDE DEF W
    <2>7. \A t \in W : errors'[t] \in Int /\ errors[t] \in Int /\ errors'[t] <= errors[t]
      BY <2>6 DEF RowCounts
    <2>8. SumFunctionOnSet(errors', W) <= SumFunctionOnSet(errors, W)
      BY <2>6, <2>7, SumOrder
    <2>9. SumFunctionOnSet(errors', W) + Own(request[r]) <= request[r].seen
      BY <2>3, <2>4, <2>5, <2>6, <2>8
    <2> QED BY <2>2, <2>5, <2>9 DEF W
  <1>5. ASSUME NEW r \in Requests, Decided(request'[r]), ~request'[r].aborted,
               request'[r].seen >= Threshold
        PROVE  Reported(request[r])' 
    <2>1. InTransaction(request'[r])
      BY <1>5 DEF Counted, Decided
    <2>2. /\ Decided(request[r]) /\ ~request[r].aborted
          /\ request'[r].asked = request[r].asked /\ request'[r].seen = request[r].seen
      BY <1>5, <2>1 DEF GentleBatch
    <2>3. Reported(request[r])
      BY <1>5, <2>2 DEF CrossingInv
    <2> QED BY <2>2, <2>3 DEF Reported
  <1> QED BY <1>1, <1>2, <1>3, <1>4, <1>5 DEF CrossingInv

-----------------------------------------------------------------------------
(* Steps that disturb nothing. *)

\* A step of one request leaves the others alone.
LEMMA OneRequest ==
    ASSUME ReportInv, NEW r \in Requests, NEW p \in RequestRecords, Shape(p),
           request' = [request EXCEPT ![r] = p]
    PROVE  /\ request' \in [Requests -> RequestRecords] /\ ShapeInv'
           /\ \A o \in Requests : o # r => request'[o] = request[o] /\ request[o] \in RequestRecords
           /\ request'[r] = p /\ request[r] \in RequestRecords
  BY DEF ReportInv, ReportTypeOK, ShapeInv

\* A gentle step of one request is gentle to all.
LEMMA OneGentle ==
    ASSUME ReportInv, NEW r \in Requests, NEW p \in RequestRecords, Shape(p), Gentle(request[r], p),
           request' = [request EXCEPT ![r] = p]
    PROVE  \A o \in Requests : Gentle(request[o], request'[o])
  BY OneRequest, GentleSelf

\* Nothing but requests, the emitter, banners and preferences changes.
Elsewhere == UNCHANGED <<errors, refusals, lastFired, alerts, mails, life>>

\* A step that disturbs nothing keeps the invariant.
LEMMA GentleStep ==
    ASSUME ReportInv, request' \in [Requests -> RequestRecords], ShapeInv',
           \A o \in Requests : Gentle(request[o], request'[o]),
           emitter' \in Emitters, Elsewhere, now' \in 0..MaxTime, now <= now'
    PROVE  ReportInv'
  <1> USE DEF ReportInv, Elsewhere
  <1>1. ReportTypeOK'
    BY DEF ReportTypeOK
  <1>2. RefusalInv'
    <2>1. refusals \in RefusalRecords /\ Total(refusals) \in Int
      BY TotalType DEF ReportTypeOK, RefusalRecords
    <2> QED BY <2>1, RefusalKeeps DEF Gentle
  <1>3. MailInv'
    BY MailKeeps DEF Gentle
  <1>4. CrossingInv'
    <2>1. errors \in RowCounts /\ \A t \in 0..MaxTime : errors[t] <= errors[t]
      <3>1. errors \in RowCounts
        BY DEF ReportTypeOK
      <3> QED BY <3>1 DEF RowCounts
    <2> QED BY <2>1, CrossingKeeps DEF Gentle
  <1> QED BY <1>1, <1>2, <1>3, <1>4

\* A step of one request that disturbs nothing keeps the invariant.
LEMMA GentleRequestStep ==
    ASSUME ReportInv, NEW r \in Requests, NEW p \in RequestRecords, Shape(p), Gentle(request[r], p),
           request' = [request EXCEPT ![r] = p], emitter' \in Emitters, Elsewhere, now' = now
    PROVE  ReportInv'
  <1>1. now \in 0..MaxTime /\ now <= now
    BY DEF ReportInv, ReportTypeOK
  <1> QED BY <1>1, OneRequest, OneGentle, GentleStep

\* The states of the emitter.
LEMMA EmitterMoves ==
    ASSUME NEW e \in Emitters
    PROVE  Rest(e) \in Emitters /\ Retried(e) \in Emitters /\ [e EXCEPT !.closed = "closing"] \in Emitters
           /\ [Rest(e) EXCEPT !.closed = "final"] \in Emitters
           /\ e.batch \in Nat /\ e.buffer \in Nat
  <1>1. Rest(e) \in Emitters
    BY DEF Rest, Emitters
  <1>2. Retried(e) \in Emitters
    <2>1. PICK n \in Nat : n = e.attempt + 1
      BY DEF Emitters
    <2>2. [e EXCEPT !.at = "sending", !.attempt = n, !.on = "none"] \in Emitters
      BY DEF Emitters
    <2> QED BY <1>1, <2>1, <2>2 DEF Retried
  <1>3. [Rest(e) EXCEPT !.closed = "final"] \in Emitters
    BY <1>1 DEF Emitters
  <1> QED BY <1>1, <1>2, <1>3 DEF Emitters

\* The end of a request and its answer.
LEMMA EndMoves ==
    ASSUME ReportInv, NEW r \in Requests, NEW retry, End(r, retry)
    PROVE  /\ request' = [request EXCEPT ![r] = Idle] /\ emitter' \in Emitters
           /\ Idle \in RequestRecords /\ Shape(Idle) /\ Gentle(request[r], Idle)
           /\ request[r] \in RequestRecords
  <1>1. emitter \in Emitters /\ request[r] \in RequestRecords
    BY DEF ReportInv, ReportTypeOK
  <1>2. emitter' \in Emitters
    BY <1>1, EmitterMoves DEF End, Answer
  <1> QED BY <1>1, <1>2, IdleRecord, GentleIdle DEF End

\* The emitter alone.
LEMMA EmitterStep ==
    ASSUME ReportInv, Emit \/ FlushOnce \/ AClose \/ SendFails PROVE ReportInv'
  <1>1. emitter \in Emitters /\ BufferCap \in Nat
    BY ReportConstants DEF ReportInv, ReportTypeOK
  <1>2. emitter' \in Emitters
    <2>1. CASE Emit
      BY <1>1, <2>1 DEF Emit, Emitters
    <2>2. CASE FlushOnce
      BY <1>1, <2>2 DEF FlushOnce, Emitters
    <2>3. CASE AClose \/ SendFails
      BY <1>1, <2>3, EmitterMoves DEF AClose, SendFails
    <2> QED BY <2>1, <2>2, <2>3
  <1>3. request' = request /\ Elsewhere /\ now' = now
    BY DEF Emit, FlushOnce, AClose, SendFails, Elsewhere, rowVars, clockVars
  <1>4. /\ request \in [Requests -> RequestRecords] /\ ShapeInv' /\ now \in 0..MaxTime /\ now <= now
        /\ \A o \in Requests : Gentle(request[o], request'[o])
    BY <1>3, GentleSelf DEF ReportInv, ReportTypeOK, ShapeInv
  <1> QED BY <1>2, <1>3, <1>4, GentleStep

\* The answer to a batch, sent before its commit.
LEMMA RespondStep ==
    ASSUME ReportInv, NEW r \in Requests, Respond(r) PROVE ReportInv'
  <1>1. emitter \in Emitters
    BY DEF ReportInv, ReportTypeOK
  <1>2. emitter' \in Emitters
    BY <1>1, EmitterMoves DEF Respond, Answer
  <1>3. request' = request /\ Elsewhere /\ now' = now
    BY DEF Respond, Elsewhere, rowVars, clockVars
  <1>4. /\ request \in [Requests -> RequestRecords] /\ ShapeInv' /\ now \in 0..MaxTime /\ now <= now
        /\ \A o \in Requests : Gentle(request[o], request'[o])
    BY <1>3, GentleSelf DEF ReportInv, ReportTypeOK, ShapeInv
  <1> QED BY <1>2, <1>3, <1>4, GentleStep

\* The clock, the customer, and no step at all.
LEMMA ClockStep ==
    ASSUME ReportInv, Tick \/ Dismiss \/ (\E cell \in Editable : SetPreference(cell)) \/ UNCHANGED reportVars
    PROVE  ReportInv'
  <1>1. /\ request' = request /\ emitter' = emitter /\ Elsewhere
        /\ now' \in 0..MaxTime /\ now <= now'
    BY ReportConstants
       DEF Tick, Dismiss, SetPreference, reportVars, Elsewhere, rowVars, clockVars, ReportInv, ReportTypeOK
  <1>2. /\ request \in [Requests -> RequestRecords] /\ ShapeInv' /\ emitter \in Emitters
        /\ \A o \in Requests : Gentle(request[o], request'[o])
    BY <1>1, GentleSelf DEF ReportInv, ReportTypeOK, ShapeInv
  <1> QED BY <1>1, <1>2, GentleStep

\* A request arrives.
LEMMA ArriveStep ==
    ASSUME ReportInv, NEW r \in Requests, NEW kind \in {"ingest", "refusal", "callback"},
           NEW batch \in Nat, NEW callback \in Callbacks \cup {NoCallback},
           kind = "callback" => callback \in Callbacks, Arrive(r, kind, batch, callback), emitter' \in Emitters,
           UNCHANGED <<lastFired, alerts, prefs, rowVars>>
    PROVE  ReportInv'
  <1>1. request[r] \in RequestRecords
    BY DEF ReportInv, ReportTypeOK
  <1>2. PICK p : p = [Idle EXCEPT !.kind = kind, !.todo = Plan(kind), !.batch = batch,
                                  !.callback = callback]
    OBVIOUS
  <1>3. p \in RequestRecords /\ Shape(p) /\ Gentle(request[r], p)
    BY <1>1, <1>2, Arriving
  <1>4. request' = [request EXCEPT ![r] = p] /\ now' = now /\ Elsewhere
    BY <1>2 DEF Arrive, Elsewhere, rowVars
  <1> QED BY <1>3, <1>4, GentleRequestStep

\* A batch, a refused mint or a callback arrives.
LEMMA ArrivalsStep ==
    ASSUME ReportInv, NEW r \in Requests,
           Send(r) \/ RefuseMint(r) \/ (\E c \in Callbacks : DeliverCallback(r, c))
    PROVE  ReportInv'
  <1>1. emitter \in Emitters /\ emitter.batch \in Nat
    BY EmitterMoves DEF ReportInv, ReportTypeOK
  <1>2. CASE Send(r)
    <2>1. emitter' \in Emitters
      BY <1>1, <1>2 DEF Send, Emitters
    <2> QED BY <1>1, <1>2, <2>1, ArriveStep DEF Send
  <1>3. CASE RefuseMint(r)
    BY <1>1, <1>3, ArriveStep DEF RefuseMint
  <1>4. ASSUME NEW c \in Callbacks, DeliverCallback(r, c) PROVE ReportInv'
    BY <1>1, <1>4, ArriveStep DEF DeliverCallback
  <1> QED BY <1>2, <1>3, <1>4

-----------------------------------------------------------------------------
(* The steps of a request. *)

\* A request that is at a step.
LEMMA AtStep ==
    ASSUME ReportInv, NEW r \in Requests, NEW step, Todo(r, step)
    PROVE  /\ request[r] \in RequestRecords /\ Shape(request[r]) /\ request[r].todo # <<>>
           /\ request[r].begun /\ Head(request[r].todo) = step
           /\ request[r].todo \in Seq(Steps) /\ Tail(request[r].todo) \in Seq(Steps)
  <1>1. /\ request[r] \in RequestRecords /\ Shape(request[r]) /\ request[r].todo # <<>>
        /\ request[r].begun /\ Head(request[r].todo) = step
    BY DEF Todo, Next1, ReportInv, ReportTypeOK, ShapeInv
  <1>2. request[r].todo \in Seq(Steps)
    BY <1>1 DEF RequestRecords
  <1> QED BY <1>1, <1>2

\* A request after a step.
LEMMA ThenRecord ==
    ASSUME NEW q \in RequestRecords, NEW s \in Seq(Steps), s = Tail(q.todo)
    PROVE  /\ Then(q) \in RequestRecords /\ Like(q, Then(q)) /\ Then(q).todo = s
           /\ Then(q).message = q.message /\ Then(q).callback = q.callback
  <1>1. Then(q) = [q EXCEPT !.todo = s]
    BY DEF Then
  <1> QED BY <1>1 DEF RequestRecords, Like

\* A step that is done, one way or the other.
LEMMA DoneRecords ==
    ASSUME NEW q \in RequestRecords, NEW s \in Seq(Steps), s = Tail(q.todo)
    PROVE  /\ [Then(q) EXCEPT !.extra = FALSE] \in RequestRecords
           /\ Like(q, [Then(q) EXCEPT !.extra = FALSE]) /\ [Then(q) EXCEPT !.extra = FALSE].todo = s
           /\ [Then(q) EXCEPT !.extra = FALSE, !.tries = 0] \in RequestRecords
           /\ Like(q, [Then(q) EXCEPT !.extra = FALSE, !.tries = 0])
           /\ [Then(q) EXCEPT !.extra = FALSE, !.tries = 0].todo = s
           /\ [Then(q) EXCEPT !.tries = 0] \in RequestRecords
           /\ Like(q, [Then(q) EXCEPT !.tries = 0]) /\ [Then(q) EXCEPT !.tries = 0].todo = s
           /\ [Then(q) EXCEPT !.extra = FALSE, !.message = 0] \in RequestRecords
           /\ Like(q, [Then(q) EXCEPT !.extra = FALSE, !.message = 0])
           /\ [Then(q) EXCEPT !.extra = FALSE, !.message = 0].todo = s
  <1>1. PICK p : p = Then(q)
    OBVIOUS
  <1>2. p \in RequestRecords /\ Like(q, p) /\ p.todo = s
    BY <1>1, ThenRecord
  <1>3. /\ [p EXCEPT !.extra = FALSE] \in RequestRecords
        /\ Like(p, [p EXCEPT !.extra = FALSE]) /\ [p EXCEPT !.extra = FALSE].todo = p.todo
    BY <1>2 DEF RequestRecords, Like
  <1>4. /\ [p EXCEPT !.extra = FALSE, !.tries = 0] \in RequestRecords
        /\ Like(p, [p EXCEPT !.extra = FALSE, !.tries = 0])
        /\ [p EXCEPT !.extra = FALSE, !.tries = 0].todo = p.todo
    BY <1>2 DEF RequestRecords, Like
  <1>5. /\ [p EXCEPT !.tries = 0] \in RequestRecords
        /\ Like(p, [p EXCEPT !.tries = 0]) /\ [p EXCEPT !.tries = 0].todo = p.todo
    BY <1>2 DEF RequestRecords, Like
  <1>6. /\ [p EXCEPT !.extra = FALSE, !.message = 0] \in RequestRecords
        /\ Like(p, [p EXCEPT !.extra = FALSE, !.message = 0])
        /\ [p EXCEPT !.extra = FALSE, !.message = 0].todo = p.todo
    BY <1>2 DEF RequestRecords, Like
  <1>7. ASSUME NEW o, Like(p, o) PROVE Like(q, o)
    BY <1>2, <1>7 DEF Like
  <1>8. /\ Like(q, [p EXCEPT !.extra = FALSE]) /\ Like(q, [p EXCEPT !.extra = FALSE, !.tries = 0])
        /\ Like(q, [p EXCEPT !.tries = 0]) /\ Like(q, [p EXCEPT !.extra = FALSE, !.message = 0])
    BY <1>3, <1>4, <1>5, <1>6, <1>7
  <1> QED BY <1>1, <1>2, <1>3, <1>4, <1>5, <1>6, <1>8

\* A connection is taken.
LEMMA WaitStep ==
    ASSUME ReportInv, NEW r \in Requests, Begin(r) \/ OpenIndependent(r) PROVE ReportInv'
  <1>1. request[r] \in RequestRecords /\ Shape(request[r]) /\ emitter \in Emitters
    BY DEF ReportInv, ReportTypeOK, ShapeInv
  <1>2. PICK q : q = request[r]
    OBVIOUS
  <1>3. PICK p : p \in {[q EXCEPT !.begun = TRUE], [q EXCEPT !.extra = TRUE]}
                 /\ request' = [request EXCEPT ![r] = p]
    BY <1>2 DEF Begin, OpenIndependent
  <1>4. /\ p \in RequestRecords /\ p.todo = q.todo /\ p.message = q.message /\ p.kind = q.kind
        /\ p.callback = q.callback /\ (q.begun => p.begun) /\ p.batch = q.batch /\ p.stamp = q.stamp
        /\ p.asked = q.asked /\ p.seen = q.seen /\ p.aborted = q.aborted
    <2>1. CASE p = [q EXCEPT !.begun = TRUE]
      BY <1>1, <1>2, <2>1 DEF RequestRecords
    <2>2. CASE p = [q EXCEPT !.extra = TRUE]
      BY <1>1, <1>2, <2>2 DEF RequestRecords
    <2> QED BY <1>3, <2>1, <2>2
  <1>5. Shape(p) /\ Gentle(request[r], p)
    BY <1>1, <1>2, <1>4, SameSteps
  <1>6. emitter' \in Emitters /\ Elsewhere /\ now' = now
    BY <1>1 DEF Begin, OpenIndependent, Elsewhere, rowVars, clockVars
  <1> QED BY <1>3, <1>4, <1>5, <1>6, GentleRequestStep

\* A request ends and writes nothing.
LEMMA EndStep ==
    ASSUME ReportInv, NEW r \in Requests, NEW retry, End(r, retry),
           UNCHANGED <<lastFired, alerts, prefs, rowVars, clockVars>>
    PROVE  ReportInv'
  <1>1. Elsewhere /\ now' = now
    BY DEF Elsewhere, rowVars, clockVars
  <1> QED BY <1>1, EndMoves, GentleRequestStep

\* A refused batch and a failed request.
LEMMA RefusedStep ==
    ASSUME ReportInv, NEW r \in Requests, Refuse(r) \/ RequestFails(r) PROVE ReportInv'
  BY EndStep DEF Refuse, RequestFails

\* ingest_event finds the event, or goes on with the send it belongs to.
LEMMA LookupStep ==
    ASSUME ReportInv, NEW r \in Requests, LookupEvent(r) PROVE ReportInv'
  <1>1. CASE request[r].callback \in callbacks
    BY <1>1, EndStep DEF LookupEvent
  <1>2. CASE request[r].callback \notin callbacks
    <2>1. PICK q : q = request[r]
      OBVIOUS
    <2>2. /\ q \in RequestRecords /\ q.kind = "callback" /\ q.todo = <<"lookup", "apply">>
          /\ q.callback \in Callbacks
      BY <2>1, AtStep, Heads DEF LookupEvent
    <2>3. Tail(q.todo) = <<"apply">> /\ <<"apply">> \in Seq(Steps) /\ <<"apply">> # <<>>
          /\ Head(<<"apply">>) = "apply"
      BY <2>2 DEF Steps
    <2>4. q.callback[1] \in 1..MaxMails
      BY <2>2 DEF Callbacks
    <2>5. PICK k : k = mails.row[q.callback[1]]
      OBVIOUS
    <2>6. k \in Statuses
      BY <2>4, <2>5 DEF ReportInv, ReportTypeOK
    <2>7. PICK p : p = [Then(q) EXCEPT !.known = k]
      OBVIOUS
    <2>8. p \in RequestRecords /\ Like(q, p) /\ p.todo = <<"apply">> /\ p.callback = q.callback
      <3>1. PICK u : u = Then(q)
        OBVIOUS
      <3>2. u \in RequestRecords /\ Like(q, u) /\ u.todo = <<"apply">> /\ u.callback = q.callback
        BY <2>2, <2>3, <3>1, ThenRecord
      <3>3. p = [u EXCEPT !.known = k]
        BY <2>7, <3>1
      <3>4. p \in RequestRecords /\ Like(u, p) /\ p.todo = u.todo /\ p.callback = u.callback
        BY <2>6, <3>2, <3>3 DEF RequestRecords, Like
      <3> QED BY <3>2, <3>4 DEF Like
    <2>9. Shape(p) /\ Gentle(q, p)
      <3>1. Shape(p)
        BY <2>2, <2>8 DEF Shape, Like
      <3>2. ~Noted(p) /\ ~Recording(p) /\ ~InTransaction(p)
        BY <2>2, <2>3, <2>8 DEF Noted, Recording, InTransaction, Like
      <3> QED BY <2>8, <3>1, <3>2 DEF Gentle, GentleRefusal, GentleMail, GentleBatch, Like
    <2>10. request' = [request EXCEPT ![r] = p]
      BY <1>2, <2>1, <2>5, <2>7 DEF LookupEvent
    <2>11. emitter' \in Emitters /\ Elsewhere /\ now' = now
      BY <1>2 DEF LookupEvent, Elsewhere, rowVars, clockVars, ReportInv, ReportTypeOK
    <2> QED BY <2>1, <2>8, <2>9, <2>10, <2>11, GentleRequestStep
  <1> QED BY <1>1, <1>2

\* The fan-out: a step that ends, with or without success, and one tried again.
LEMMA LateStep ==
    ASSUME ReportInv, NEW r \in Requests, NEW p \in RequestRecords,
           NEW step \in FanOut \cup {"record"}, Todo(r, step),
           Like(request[r], p), p.todo = Tail(request[r].todo),
           request' = [request EXCEPT ![r] = p], emitter' = emitter
    PROVE  Shape(p) /\ Gentle(request[r], p) /\ emitter' \in Emitters /\ ~Recording(p)
  <1>1. /\ request[r] \in RequestRecords /\ IsLate(request[r]) /\ request[r].todo # <<>>
    BY AtStep, Heads
  <1>2. emitter' \in Emitters
    BY DEF ReportInv, ReportTypeOK
  <1> QED BY <1>1, <1>2, LateNext

\* A banner.
LEMMA PortalStep ==
    ASSUME ReportInv, NEW r \in Requests, FireInPortal(r) PROVE ReportInv'
  <1>1. PICK q : q = request[r]
    OBVIOUS
  <1>2. PICK p : p = [Then(q) EXCEPT !.extra = FALSE]
    OBVIOUS
  <1>3. q \in RequestRecords /\ Tail(q.todo) \in Seq(Steps) /\ Todo(r, "portal")
    BY <1>1, AtStep DEF FireInPortal
  <1>4. p \in RequestRecords /\ Like(q, p) /\ p.todo = Tail(q.todo)
    BY <1>2, <1>3, DoneRecords
  <1>5. request' = [request EXCEPT ![r] = p] /\ emitter' = emitter /\ Elsewhere /\ now' = now
    BY <1>1, <1>2 DEF FireInPortal, Elsewhere, clockVars
  <1>6. "portal" \in FanOut \cup {"record"}
    BY DEF FanOut
  <1> QED BY <1>1, <1>3, <1>4, <1>5, <1>6, LateStep, GentleRequestStep

\* A webhook is delivered, or tried again.
LEMMA WebhookStep ==
    ASSUME ReportInv, NEW r \in Requests, FireWebhook(r) PROVE ReportInv'
  <1>1. PICK q : q = request[r]
    OBVIOUS
  <1>2. /\ q \in RequestRecords /\ Shape(q) /\ Tail(q.todo) \in Seq(Steps) /\ Todo(r, "webhook")
    BY <1>1, AtStep DEF FireWebhook
  <1>3. "webhook" \in FanOut \cup {"record"}
    BY DEF FanOut
  <1>4. emitter' = emitter /\ emitter \in Emitters /\ Elsewhere /\ now' = now
    BY DEF FireWebhook, Elsewhere, rowVars, clockVars, ReportInv, ReportTypeOK
  <1>5. CASE request' = [request EXCEPT ![r] = [Then(@) EXCEPT !.tries = 0]]
    <2>1. PICK p : p = [Then(q) EXCEPT !.tries = 0]
      OBVIOUS
    <2>2. p \in RequestRecords /\ Like(q, p) /\ p.todo = Tail(q.todo)
      BY <1>2, <2>1, DoneRecords
    <2>3. request' = [request EXCEPT ![r] = p]
      BY <1>1, <1>5, <2>1
    <2> QED BY <1>1, <1>2, <1>3, <1>4, <2>2, <2>3, LateStep, GentleRequestStep
  <1>6. CASE request' = [request EXCEPT ![r].tries = @ + 1]
    <2>1. q.tries \in Nat
      BY <1>2 DEF RequestRecords
    <2>2. PICK n \in Nat : n = q.tries + 1
      BY <2>1
    <2>3. PICK p : p = [q EXCEPT !.tries = n]
      OBVIOUS
    <2>4. /\ p \in RequestRecords /\ p.todo = q.todo /\ p.message = q.message /\ p.kind = q.kind
          /\ p.callback = q.callback /\ p.begun = q.begun /\ p.batch = q.batch /\ p.stamp = q.stamp
          /\ p.asked = q.asked /\ p.seen = q.seen /\ p.aborted = q.aborted
      BY <1>2, <2>3 DEF RequestRecords
    <2>5. Shape(p) /\ Gentle(q, p)
      BY <1>2, <2>4, SameSteps
    <2>6. request' = [request EXCEPT ![r] = p]
      BY <1>1, <1>6, <2>2, <2>3
    <2> QED BY <1>1, <1>4, <2>4, <2>5, <2>6, GentleRequestStep
  <1> QED BY <1>5, <1>6 DEF FireWebhook

\* A webhook whose address cannot be read is skipped, and nothing of the
\* request's transaction will be stored.
LEMMA WebhookLookupStep ==
    ASSUME ReportInv, NEW r \in Requests, WebhookLookupFails(r) PROVE ReportInv'
  <1>1. PICK q : q = request[r]
    OBVIOUS
  <1>2. /\ q \in RequestRecords /\ IsLate(q) /\ q.todo # <<>> /\ Tail(q.todo) \in Seq(Steps)
    <2>1. Todo(r, "webhook") /\ "webhook" \in FanOut
      BY DEF WebhookLookupFails, FanOut
    <2> QED BY <1>1, <2>1, AtStep, Heads
  <1>3. PICK k : k = Then(q)
    OBVIOUS
  <1>4. k \in RequestRecords /\ Like(q, k) /\ k.todo = Tail(q.todo)
    BY <1>2, <1>3, ThenRecord
  <1>5. Shape(k) /\ Gentle(q, k) /\ ~Recording(k)
    BY <1>2, <1>4, LateNext
  <1>6. PICK p : p = [k EXCEPT !.aborted = TRUE]
    OBVIOUS
  <1>7. /\ p \in RequestRecords /\ p.todo = k.todo /\ p.kind = k.kind /\ p.callback = k.callback
        /\ p.begun = k.begun /\ p.stamp = k.stamp /\ p.asked = k.asked /\ p.aborted
    BY <1>4, <1>6 DEF RequestRecords
  <1>8. Shape(p)
    BY <1>5, <1>7 DEF Shape
  <1>9. Gentle(q, p)
    BY <1>5, <1>7 DEF Gentle, GentleRefusal, GentleMail, GentleBatch, Noted, Recording, InTransaction
  <1>10. request' = [request EXCEPT ![r] = p]
    BY <1>1, <1>3, <1>6 DEF WebhookLookupFails
  <1>11. emitter' \in Emitters /\ Elsewhere /\ now' = now
    BY DEF WebhookLookupFails, Elsewhere, rowVars, clockVars, ReportInv, ReportTypeOK
  <1> QED BY <1>1, <1>7, <1>8, <1>9, <1>10, <1>11, GentleRequestStep

\* The channels of a trigger come next.
LEMMA NotifyStep ==
    ASSUME ReportInv, NEW r \in Requests, Notify(r) PROVE ReportInv'
  <1>1. PICK q : q = request[r]
    OBVIOUS
  <1>2. /\ q \in RequestRecords /\ q.todo # <<>> /\ IsLate(q) /\ Tail(q.todo) \in Seq(Steps)
    <2>1. Todo(r, "notify") /\ "notify" \in FanOut
      BY DEF Notify, FanOut
    <2> QED BY <1>1, <2>1, AtStep, Heads
  <1>3. PICK a : a = Channel(r, "portal")
    OBVIOUS
  <1>4. PICK b : b = Channel(r, "email")
    OBVIOUS
  <1>5. PICK c : c = Channel(r, "webhook")
    OBVIOUS
  <1>6. a \in Seq(FanOut) /\ b \in Seq(FanOut) /\ c \in Seq(FanOut)
    BY <1>3, <1>4, <1>5 DEF Channel, FanOut
  <1>7. PICK s : s = a \o b \o c
    OBVIOUS
  <1>8. s \in Seq(FanOut) /\ s \in Seq(Steps)
    <2>1. s \in Seq(FanOut)
      BY <1>6, <1>7
    <2>2. FanOut \subseteq Steps
      BY DEF FanOut, Steps
    <2> QED BY <2>1, <2>2
  <1>9. PICK u : u = s \o Tail(q.todo)
    OBVIOUS
  <1>10. u \in Seq(Steps)
    BY <1>2, <1>8, <1>9
  <1>11. PICK p : p = [q EXCEPT !.todo = u]
    OBVIOUS
  <1>12. p \in RequestRecords /\ Like(q, p) /\ p.todo = u
    BY <1>2, <1>10, <1>11 DEF RequestRecords, Like
  <1>13. Shape(p) /\ Gentle(q, p)
    BY <1>2, <1>8, <1>9, <1>12, LateMove
  <1>14. request' = [request EXCEPT ![r] = p]
    BY <1>1, <1>3, <1>4, <1>5, <1>7, <1>9, <1>11 DEF Notify
  <1>15. emitter' \in Emitters /\ Elsewhere /\ now' = now
    BY DEF Notify, Elsewhere, rowVars, clockVars, ReportInv, ReportTypeOK
  <1> QED BY <1>1, <1>12, <1>13, <1>14, <1>15, GentleRequestStep

\* The evaluation's error ends the fan-out, and the batch will not be stored.
LEMMA EvaluationStep ==
    ASSUME ReportInv, NEW r \in Requests, EvaluationFails(r) PROVE ReportInv'
  <1>1. PICK q : q = request[r]
    OBVIOUS
  <1>2. /\ q \in RequestRecords /\ q.todo # <<>> /\ q.kind = "ingest" /\ q.begun
        /\ Head(q.todo) \in {"count", "notify"}
    BY <1>1, AtStep DEF EvaluationFails
  <1>3. PICK p : p = [q EXCEPT !.todo = <<"commit">>, !.aborted = TRUE]
    OBVIOUS
  <1>4. /\ <<"commit">> \in Seq(Steps) /\ <<"commit">> # <<>> /\ Head(<<"commit">>) = "commit"
        /\ Tail(<<"commit">>) \in Seq(FanOut \cup {"commit"})
    BY DEF Steps
  <1>5. /\ p \in RequestRecords /\ p.todo = <<"commit">> /\ p.aborted /\ p.kind = q.kind
        /\ p.begun = q.begun /\ p.stamp = q.stamp /\ p.asked = q.asked
    <2>1. PICK s \in Seq(Steps) : s = <<"commit">>
      BY <1>4
    <2>2. p = [q EXCEPT !.todo = s, !.aborted = TRUE]
      BY <1>3, <2>1
    <2>3. /\ p \in RequestRecords /\ p.todo = s /\ p.aborted /\ p.kind = q.kind
          /\ p.begun = q.begun /\ p.stamp = q.stamp /\ p.asked = q.asked
      BY <1>2, <2>2 DEF RequestRecords
    <2> QED BY <2>1, <2>3
  <1>6. Shape(p)
    <2>1. Late(p.todo, FanOut \cup {"commit"})
      BY <1>4, <1>5 DEF Late
    <2> QED BY <1>2, <1>5, <2>1 DEF Shape
  <1>7. InTransaction(q)
    <2>1. q.todo # Plan("ingest")
      BY <1>2, PlanSteps
    <2> QED BY <1>2, <2>1 DEF InTransaction
  <1>8. ~Noted(p) /\ ~Recording(p)
    BY <1>2, <1>4, <1>5 DEF Noted, Recording
  <1>9. Gentle(q, p)
    BY <1>5, <1>7, <1>8 DEF Gentle, GentleRefusal, GentleMail, GentleBatch
  <1>10. request' = [request EXCEPT ![r] = p]
    BY <1>1, <1>3 DEF EvaluationFails
  <1>11. emitter' \in Emitters /\ Elsewhere /\ now' = now
    BY DEF EvaluationFails, Elsewhere, rowVars, clockVars, ReportInv, ReportTypeOK
  <1> QED BY <1>1, <1>5, <1>6, <1>9, <1>10, <1>11, GentleRequestStep

-----------------------------------------------------------------------------
(* Steps that record a refusal, or give it to the customer. *)

\* A step that touches the record of refusals.
LEMMA RefusalStep ==
    ASSUME ReportInv, NEW r \in Requests, NEW p \in RequestRecords, Shape(p),
           GentleMail(request[r], p), GentleBatch(request[r], p),
           request' = [request EXCEPT ![r] = p], emitter' \in Emitters,
           refusals' \in RefusalRecords, RefusalInv',
           UNCHANGED <<errors, lastFired, alerts, mails, life, now>>
    PROVE  ReportInv'
  <1>1. request' \in [Requests -> RequestRecords] /\ ShapeInv'
    BY OneRequest
  <1>2. \A o \in Requests : GentleMail(request[o], request'[o]) /\ GentleBatch(request[o], request'[o])
    BY OneRequest, GentleSelf DEF Gentle
  <1>3. ReportTypeOK'
    BY <1>1 DEF ReportInv, ReportTypeOK, RefusalRecords
  <1>4. MailInv'
    BY <1>2, MailKeeps DEF ReportInv
  <1>5. CrossingInv'
    <2>1. errors \in RowCounts /\ now \in Nat /\ now <= now
      BY ReportConstants DEF ReportInv, ReportTypeOK
    <2>2. \A t \in 0..MaxTime : errors[t] <= errors[t]
      BY <2>1 DEF RowCounts
    <2> QED BY <1>1, <1>2, <2>1, <2>2, CrossingKeeps DEF ReportInv
  <1> QED BY <1>1, <1>3, <1>4, <1>5 DEF ReportInv

\* A refusal's first step: it is noted, with a row or with a log line.
LEMMA NoteStep ==
    ASSUME ReportInv, NEW r \in Requests, NEW p \in RequestRecords, Todo(r, "event"),
           Like(request[r], p), p.todo = Tail(request[r].todo),
           request' = [request EXCEPT ![r] = p], emitter' = emitter,
           refusals' \in RefusalRecords, refusals'.raised = refusals.raised,
           Total(refusals) + 1 <= Total(refusals'),
           UNCHANGED <<errors, lastFired, alerts, mails, life, now>>
    PROVE  ReportInv'
  <1>1. PICK q : q = request[r]
    OBVIOUS
  <1>2. q \in RequestRecords /\ q.kind = "refusal" /\ q.todo = Plan("refusal")
    BY <1>1, AtStep, Heads
  <1>3. /\ p.todo = <<"notify", "notify", "raise">>
        /\ p.todo # <<>> /\ Head(p.todo) = "notify" /\ Tail(p.todo) = <<"notify", "raise">>
    <2>1. /\ Tail(<<"event", "notify", "notify", "raise">>) = <<"notify", "notify", "raise">>
          /\ <<"notify", "notify", "raise">> # <<>> /\ Head(<<"notify", "notify", "raise">>) = "notify"
          /\ Tail(<<"notify", "notify", "raise">>) = <<"notify", "raise">>
      OBVIOUS
    <2>2. p.todo = Tail(<<"event", "notify", "notify", "raise">>)
      BY <1>1, <1>2, Plans, Zenon
    <2> QED BY <2>1, <2>2, Zenon
  <1>4. <<"notify", "raise">> \in Seq(FanOut \cup {"raise"}) /\ "notify" \in FanOut
    BY DEF FanOut
  <1>5. Shape(p)
    <2>1. Late(p.todo, FanOut \cup {"raise"})
      BY <1>3, <1>4, Zenon DEF Late
    <2> QED BY <1>1, <1>2, <2>1 DEF Shape, Like
  <1>6. GentleMail(q, p) /\ GentleBatch(q, p)
    <2>1. ~Recording(p) /\ ~InTransaction(p)
      BY <1>1, <1>2, <1>3 DEF Recording, InTransaction, Like
    <2> QED BY <1>1, <2>1 DEF GentleMail, GentleBatch, Like
  <1>7. RefusalInv'
    <2> DEFINE A == {o \in Requests : Noted(request[o])}
               B == {o \in Requests : Noted(request'[o])}
    <2>1. A \in SUBSET Requests /\ B \in SUBSET (A \cup {r}) /\ IsFiniteSet(A)
      <3>1. \A o \in Requests \ {r} : request'[o] = request[o]
        BY <1>5, OneRequest
      <3>2. A \in SUBSET Requests /\ B \in SUBSET (A \cup {r})
        BY <3>1
      <3> QED BY <3>2, ReportConstants, FS_Subset
    <2>2. refusals.raised + Cardinality(A) <= Total(refusals)
      BY DEF ReportInv, RefusalInv, Total
    <2> HIDE DEF A
    <2>3. Cardinality(A \cup {r}) <= Cardinality(A) + 1 /\ Cardinality(A) \in Nat
      <3>1. Cardinality(A) \in Nat
        BY <2>1, FS_CardinalityType
      <3>2. Cardinality(A \cup {r}) = IF r \in A THEN Cardinality(A) ELSE Cardinality(A) + 1
        BY <2>1, FS_AddElement
      <3> QED BY <3>1, <3>2
    <2>4. B \in SUBSET (A \cup {r}) /\ A \cup {r} \in SUBSET Requests
      BY <2>1
    <2> HIDE DEF B
    <2>5. /\ Cardinality(A \cup {r}) \in Nat /\ Cardinality(B) \in Nat
          /\ Cardinality(B) <= Cardinality(A \cup {r})
      BY <2>4, NotedCount
    <2>6. Total(refusals) \in Int /\ Total(refusals') \in Int /\ refusals.raised \in Nat
      BY TotalType DEF ReportInv, ReportTypeOK, RefusalRecords
    <2>7. refusals'.raised + Cardinality(B) <= Total(refusals')
      BY <2>2, <2>3, <2>5, <2>6
    <2> QED BY <2>7 DEF RefusalInv, Total, B
  <1>8. emitter' \in Emitters
    BY DEF ReportInv, ReportTypeOK
  <1> QED BY <1>1, <1>5, <1>6, <1>7, <1>8, RefusalStep

\* One more row adds one to the total.
LEMMA RowAdds ==
    ASSUME NEW f \in RefusalRecords, NEW n \in 0..MaxTime, NEW u,
           u = [f EXCEPT !.rows = [f.rows EXCEPT ![n] = f.rows[n] + 1]]
    PROVE  u \in RefusalRecords /\ u.raised = f.raised /\ Total(u) = Total(f) + 1
  <1>1. PICK rows : rows = f.rows
    OBVIOUS
  <1>2. PICK more : more = [rows EXCEPT ![n] = rows[n] + 1]
    OBVIOUS
  <1>3. rows \in RowCounts /\ f.logged \in Nat /\ f.purged \in Nat
    BY <1>1 DEF RefusalRecords
  <1>4. /\ more \in RowCounts /\ more[n] = rows[n] + 1 /\ rows[n] \in Nat
        /\ \A t \in (0..MaxTime) \ {n} : rows[t] = more[t]
        /\ \A t \in 0..MaxTime : rows[t] \in Int /\ more[t] \in Int
    BY <1>2, <1>3 DEF RowCounts
  <1>5. /\ IsFiniteSet(0..MaxTime)
        /\ SumFunction(rows) = SumFunctionOnSet(rows, 0..MaxTime) /\ SumFunction(rows) \in Int
        /\ SumFunction(more) = SumFunctionOnSet(more, 0..MaxTime)
    BY <1>3, <1>4, RowsTotal
  <1>6. SumFunctionOnSet(more, 0..MaxTime) = SumFunctionOnSet(rows, 0..MaxTime) - rows[n] + more[n]
    <2>1. PICK T : T = 0..MaxTime
      OBVIOUS
    <2>2. /\ IsFiniteSet(T) /\ n \in T /\ \A t \in T : rows[t] \in Int /\ more[t] \in Int
          /\ \A t \in T \ {n} : rows[t] = more[t]
      BY <1>4, <1>5, <2>1
    <2>3. SumFunctionOnSet(more, T) = SumFunctionOnSet(rows, T) - rows[n] + more[n]
      BY <2>2, SumChanges
    <2> QED BY <2>1, <2>3
  <1>7. SumFunction(more) = SumFunction(rows) + 1
    BY <1>4, <1>5, <1>6
  <1>8. u = [f EXCEPT !.rows = more]
    BY <1>1, <1>2
  <1>9. /\ u \in RefusalRecords /\ u.raised = f.raised /\ u.logged = f.logged /\ u.purged = f.purged
        /\ u.rows = more
    BY <1>4, <1>8 DEF RefusalRecords
  <1> QED BY <1>1, <1>3, <1>5, <1>7, <1>9 DEF Total

\* _safe_emit_independent commits the row of a refusal.
LEMMA StoreStep ==
    ASSUME ReportInv, NEW r \in Requests, StoreEvent(r) PROVE ReportInv'
  <1>1. PICK q : q = request[r]
    OBVIOUS
  <1>2. PICK p : p = [Then(q) EXCEPT !.extra = FALSE]
    OBVIOUS
  <1>3. q \in RequestRecords /\ Tail(q.todo) \in Seq(Steps) /\ Todo(r, "event")
    BY <1>1, AtStep DEF StoreEvent
  <1>4. p \in RequestRecords /\ Like(q, p) /\ p.todo = Tail(q.todo)
    BY <1>2, <1>3, DoneRecords
  <1>5. /\ request' = [request EXCEPT ![r] = p] /\ emitter' = emitter
        /\ UNCHANGED <<errors, lastFired, alerts, mails, life, now>>
    BY <1>1, <1>2 DEF StoreEvent, clockVars
  <1>6. PICK f : f = refusals
    OBVIOUS
  <1>7. PICK u : u = [f EXCEPT !.rows = [f.rows EXCEPT ![now] = f.rows[now] + 1]]
    OBVIOUS
  <1>8. f \in RefusalRecords /\ now \in 0..MaxTime
    BY <1>6 DEF ReportInv, ReportTypeOK, RefusalRecords
  <1>9. u \in RefusalRecords /\ u.raised = f.raised /\ Total(u) = Total(f) + 1 /\ Total(f) \in Int
    BY <1>7, <1>8, RowAdds, TotalType
  <1>10. refusals' = u
    BY <1>6, <1>7 DEF StoreEvent, RowOfRefusal
  <1>11. Total(refusals) + 1 <= Total(refusals')
    BY <1>6, <1>9, <1>10
  <1> QED BY <1>1, <1>3, <1>4, <1>5, <1>6, <1>9, <1>10, <1>11, NoteStep

\* A step fails: the event of a refusal is logged, any other is skipped.
LEMMA FailStep ==
    ASSUME ReportInv, NEW r \in Requests, StepFails(r) PROVE ReportInv'
  <1>1. PICK q : q = request[r]
    OBVIOUS
  <1>2. PICK p : p = [Then(q) EXCEPT !.extra = FALSE, !.tries = 0]
    OBVIOUS
  <1>3. PICK step \in {"event", "portal", "record", "email", "notify", "webhook"} : Todo(r, step)
    BY DEF StepFails, Independent
  <1>4. q \in RequestRecords /\ Tail(q.todo) \in Seq(Steps)
    BY <1>1, <1>3, AtStep
  <1>5. p \in RequestRecords /\ Like(q, p) /\ p.todo = Tail(q.todo)
    BY <1>2, <1>4, DoneRecords
  <1>6. /\ request' = [request EXCEPT ![r] = p] /\ emitter' = emitter
        /\ UNCHANGED <<errors, lastFired, alerts, mails, life, now>>
    BY <1>1, <1>2 DEF StepFails, clockVars
  <1>7. PICK f : f = refusals
    OBVIOUS
  <1>8. f \in RefusalRecords /\ f.logged \in Nat /\ f.purged \in Nat /\ f.rows \in RowCounts
    BY <1>7 DEF ReportInv, ReportTypeOK, RefusalRecords
  <1>9. CASE step = "event"
    <2>1. PICK n \in Nat : n = f.logged + 1
      BY <1>8
    <2>2. PICK u : u = [f EXCEPT !.logged = n]
      OBVIOUS
    <2>3. refusals' = u
      BY <1>3, <1>7, <1>9, <2>1, <2>2 DEF StepFails
    <2>4. u \in RefusalRecords /\ u.raised = f.raised /\ u.logged = n /\ u.purged = f.purged
          /\ u.rows = f.rows
      BY <1>8, <2>2 DEF RefusalRecords
    <2>5. Total(f) + 1 <= Total(u)
      BY <1>8, <2>1, <2>4, RowsTotal DEF Total
    <2> QED BY <1>1, <1>3, <1>5, <1>6, <1>7, <1>9, <2>3, <2>4, <2>5, NoteStep
  <1>10. CASE step # "event"
    <2>1. ~Todo(r, "event")
      BY <1>3, <1>10, AtStep
    <2>2. refusals' = refusals
      <3>1. refusals' = [f EXCEPT !.logged = f.logged]
        BY <1>7, <2>1 DEF StepFails
      <3> QED BY <1>7, <1>8, <3>1 DEF RefusalRecords
    <2>3. step \in FanOut \cup {"record"} /\ Elsewhere
      BY <1>3, <1>6, <1>10, <2>2 DEF FanOut, Elsewhere
    <2> QED BY <1>1, <1>3, <1>5, <1>6, <2>3, LateStep, GentleRequestStep
  <1> QED BY <1>9, <1>10

\* The refusal is given to the customer: it was noted before.
LEMMA RaiseStep ==
    ASSUME ReportInv, NEW r \in Requests, Raise(r) PROVE ReportInv'
  <1>1. Noted(request[r])
    <2>1. /\ request[r] \in RequestRecords /\ request[r].kind = "refusal" /\ IsLate(request[r])
          /\ request[r].todo # <<>>
      BY AtStep, Heads DEF Raise
    <2> QED BY <2>1, LateHeads
  <1>2. /\ request' = [request EXCEPT ![r] = Idle] /\ emitter' \in Emitters
        /\ Idle \in RequestRecords /\ Shape(Idle) /\ Gentle(request[r], Idle)
    BY EndMoves DEF Raise
  <1>3. PICK f : f = refusals
    OBVIOUS
  <1>4. f \in RefusalRecords /\ f.raised \in Nat
    BY <1>3 DEF ReportInv, ReportTypeOK, RefusalRecords
  <1>5. PICK n \in Nat : n = f.raised + 1
    BY <1>4
  <1>6. PICK u : u = [f EXCEPT !.raised = n]
    OBVIOUS
  <1>7. refusals' = u
    BY <1>3, <1>5, <1>6 DEF Raise
  <1>8. u \in RefusalRecords /\ u.raised = n /\ Total(u) = Total(f) /\ Total(f) \in Int
    <2>1. u \in RefusalRecords /\ u.raised = n /\ u.logged = f.logged /\ u.purged = f.purged
          /\ u.rows = f.rows
      BY <1>4, <1>6 DEF RefusalRecords
    <2> QED BY <1>4, <2>1, TotalType DEF Total
  <1>9. RefusalInv'
    <2> DEFINE A == {o \in Requests : Noted(request[o])}
               B == {o \in Requests : Noted(request'[o])}
    <2>1. A \in SUBSET Requests /\ B \in SUBSET (A \ {r}) /\ r \in A /\ IsFiniteSet(A)
      <3>1. ~Noted(Idle)
        BY IdleRecord DEF Noted
      <3>2. request'[r] = Idle /\ \A o \in Requests \ {r} : request'[o] = request[o]
        BY <1>2, OneRequest
      <3>3. A \in SUBSET Requests /\ B \in SUBSET (A \ {r}) /\ r \in A
        BY <1>1, <3>1, <3>2
      <3> QED BY <3>3, ReportConstants, FS_Subset
    <2>2. f.raised + Cardinality(A) <= Total(f)
      BY <1>3 DEF ReportInv, RefusalInv, Total
    <2> HIDE DEF A
    <2>3. Cardinality(A \ {r}) = Cardinality(A) - 1 /\ Cardinality(A) \in Nat
      BY <2>1, FS_CardinalityType, FS_RemoveElement
    <2>4. B \in SUBSET (A \ {r}) /\ A \ {r} \in SUBSET Requests
      BY <2>1
    <2> HIDE DEF B
    <2>5. Cardinality(B) \in Nat /\ Cardinality(B) <= Cardinality(A \ {r})
      BY <2>4, NotedCount
    <2>6. u.raised + Cardinality(B) <= Total(u)
      BY <1>4, <1>5, <1>8, <2>2, <2>3, <2>5
    <2> QED BY <1>7, <2>6 DEF RefusalInv, Total, B
  <1>10. UNCHANGED <<errors, lastFired, alerts, mails, life, now>>
    BY DEF Raise, clockVars
  <1> QED BY <1>2, <1>7, <1>8, <1>9, <1>10, RefusalStep DEF Gentle

-----------------------------------------------------------------------------
(* Steps that send a mail, record it or change its status. *)

\* The messages sent and their rows.
MailRecords == [sent : Nat, row : [1..MaxMails -> Statuses]]

\* A step that touches the mails.
LEMMA MailStep ==
    ASSUME ReportInv, NEW r \in Requests, NEW p \in RequestRecords, Shape(p),
           GentleRefusal(request[r], p), GentleBatch(request[r], p),
           request' = [request EXCEPT ![r] = p], emitter' \in Emitters,
           mails' \in MailRecords, MailInv',
           UNCHANGED <<errors, refusals, lastFired, alerts, life, now>>
    PROVE  ReportInv'
  <1>1. request' \in [Requests -> RequestRecords] /\ ShapeInv'
    BY OneRequest
  <1>2. \A o \in Requests : GentleRefusal(request[o], request'[o]) /\ GentleBatch(request[o], request'[o])
    BY OneRequest, GentleSelf DEF Gentle
  <1>3. ReportTypeOK'
    BY <1>1 DEF ReportInv, ReportTypeOK, MailRecords
  <1>4. RefusalInv'
    <2>1. refusals \in RefusalRecords /\ Total(refusals) \in Int
      BY TotalType DEF ReportInv, ReportTypeOK, RefusalRecords
    <2> QED BY <1>2, <2>1, RefusalKeeps DEF ReportInv
  <1>5. CrossingInv'
    <2>1. errors \in RowCounts /\ now \in Nat /\ now <= now
      BY ReportConstants DEF ReportInv, ReportTypeOK
    <2>2. \A t \in 0..MaxTime : errors[t] <= errors[t]
      BY <2>1 DEF RowCounts
    <2> QED BY <1>1, <1>2, <2>1, <2>2, CrossingKeeps DEF ReportInv
  <1> QED BY <1>1, <1>3, <1>4, <1>5 DEF ReportInv

\* The send is recorded next.
LEMMA LateRecord ==
    ASSUME NEW q \in RequestRecords, NEW p \in RequestRecords, IsLate(q), q.todo # <<>>, Like(q, p),
           p.todo = <<"record">> \o Tail(q.todo)
    PROVE  Shape(p) /\ GentleRefusal(q, p) /\ GentleBatch(q, p) /\ Recording(p)
  <1>1. Tail(q.todo) \in Seq(Steps) /\ <<"record">> \in Seq(Steps)
    BY DEF RequestRecords, Steps
  <1>2. p.todo # <<>> /\ Head(p.todo) = "record" /\ Tail(p.todo) = Tail(q.todo)
    <2>1. PICK s \in Seq(Steps) : s = Tail(q.todo)
      BY <1>1
    <2>2. /\ <<"record">> \o s # <<>> /\ Head(<<"record">> \o s) = "record"
          /\ Tail(<<"record">> \o s) = s
      OBVIOUS
    <2> QED BY <2>1, <2>2
  <1>3. ASSUME NEW S, Late(q.todo, S) PROVE Late(p.todo, S)
    BY <1>2, <1>3 DEF Late
  <1>4. IsLate(p)
    BY <1>3 DEF IsLate, Like
  <1>5. (q.kind = "refusal" => Noted(q)) /\ (q.kind = "ingest" => Decided(q))
    BY LateHeads
  <1> QED BY <1>2, <1>4, <1>5 DEF Shape, IsLate, GentleRefusal, GentleBatch, Noted, Decided, Counted,
                                  InTransaction, Recording, Like

\* The provider takes a mail: its message is new.
LEMMA EmailStep ==
    ASSUME ReportInv, NEW r \in Requests, FireEmail(r) PROVE ReportInv'
  <1>1. PICK q : q = request[r]
    OBVIOUS
  <1>2. /\ q \in RequestRecords /\ q.todo # <<>> /\ Tail(q.todo) \in Seq(Steps) /\ IsLate(q)
        /\ Todo(r, "email")
    <2>1. Todo(r, "email") /\ "email" \in FanOut
      BY DEF FireEmail, FanOut
    <2> QED BY <1>1, <2>1, AtStep, Heads
  <1>3. PICK m : m = mails
    OBVIOUS
  <1>4. m \in MailRecords /\ m.sent \in Nat /\ m.sent < MaxMails /\ MaxMails \in Nat
    BY <1>3, ReportConstants DEF FireEmail, ReportInv, ReportTypeOK, MailRecords
  <1>5. PICK n \in Nat : n = m.sent + 1
    BY <1>4
  <1>6. PICK u : u = [m EXCEPT !.sent = n]
    OBVIOUS
  <1>7. mails' = u /\ u \in MailRecords /\ u.sent = n /\ u.row = m.row
    BY <1>3, <1>4, <1>5, <1>6 DEF FireEmail, MailRecords
  <1>8. /\ \A i \in 1..MaxMails : i > m.sent => m.row[i] = "none"
        /\ \A o \in Requests : Recording(request[o]) =>
              request[o].message \in 1..MaxMails /\ request[o].message <= m.sent
              /\ m.row[request[o].message] = "none"
        /\ \A k, o \in Requests : k # o /\ Recording(request[k]) /\ Recording(request[o])
              => request[k].message # request[o].message
    BY <1>3 DEF ReportInv, MailInv
  <1>9. emitter' \in Emitters /\ UNCHANGED <<errors, refusals, lastFired, alerts, life, now>>
    BY DEF FireEmail, clockVars, ReportInv, ReportTypeOK
  <1>10. n \in 1..MaxMails /\ m.row[n] = "none"
    BY <1>4, <1>5, <1>8
  <1>11. CASE request' = [request EXCEPT ![r].todo = <<"record">> \o Tail(@), ![r].message = mails.sent + 1]
    <2>1. PICK s : s = <<"record">> \o Tail(q.todo)
      OBVIOUS
    <2>2. s \in Seq(Steps)
      <3>1. <<"record">> \in Seq(Steps)
        BY DEF Steps
      <3> QED BY <1>2, <2>1, <3>1
    <2>3. PICK p : p = [q EXCEPT !.todo = s, !.message = n]
      OBVIOUS
    <2>4. p \in RequestRecords /\ Like(q, p) /\ p.todo = s /\ p.message = n
      BY <1>2, <2>2, <2>3 DEF RequestRecords, Like
    <2>5. Shape(p) /\ GentleRefusal(q, p) /\ GentleBatch(q, p)
      BY <1>2, <2>1, <2>4, LateRecord
    <2>6. request' = [request EXCEPT ![r] = p]
      <3>1. request \in [Requests -> RequestRecords]
        BY DEF ReportInv, ReportTypeOK
      <3> QED BY <1>1, <1>3, <1>5, <1>11, <2>1, <2>3, <3>1
    <2>7. request'[r] = p /\ \A o \in Requests : o # r => request'[o] = request[o]
      BY <2>4, <2>5, <2>6, OneRequest
    <2>8. \A i \in 1..MaxMails : i > u.sent => u.row[i] = "none"
      BY <1>4, <1>5, <1>7, <1>8
    <2>9. \A o \in Requests : Recording(request'[o]) =>
             request'[o].message \in 1..MaxMails /\ request'[o].message <= u.sent
             /\ u.row[request'[o].message] = "none"
      BY <1>4, <1>5, <1>7, <1>8, <1>10, <2>4, <2>7
    <2>10. \A k, o \in Requests : k # o /\ Recording(request'[k]) /\ Recording(request'[o])
              => request'[k].message # request'[o].message
      BY <1>4, <1>5, <1>8, <2>4, <2>7
    <2>11. MailInv'
      BY <1>7, <2>8, <2>9, <2>10 DEF MailInv
    <2> QED BY <1>1, <1>7, <1>9, <2>4, <2>5, <2>6, <2>11, MailStep
  <1>12. CASE request' = [request EXCEPT ![r] = Then(@)]
    <2>1. PICK p : p = Then(q)
      OBVIOUS
    <2>2. p \in RequestRecords /\ Like(q, p) /\ p.todo = Tail(q.todo)
      BY <1>2, <2>1, ThenRecord
    <2>3. Shape(p) /\ Gentle(q, p) /\ ~Recording(p)
      BY <1>2, <2>2, LateNext
    <2>4. request' = [request EXCEPT ![r] = p]
      BY <1>1, <1>12, <2>1
    <2>5. request'[r] = p /\ \A o \in Requests : o # r => request'[o] = request[o]
      BY <2>2, <2>3, <2>4, OneRequest
    <2>6. \A i \in 1..MaxMails : i > u.sent => u.row[i] = "none"
      BY <1>4, <1>5, <1>7, <1>8
    <2>7. \A o \in Requests : Recording(request'[o]) =>
             request'[o].message \in 1..MaxMails /\ request'[o].message <= u.sent
             /\ u.row[request'[o].message] = "none"
      BY <1>4, <1>5, <1>7, <1>8, <2>3, <2>5
    <2>8. MailInv'
      BY <1>7, <1>8, <2>3, <2>5, <2>6, <2>7 DEF MailInv
    <2> QED BY <1>1, <1>7, <1>9, <2>2, <2>3, <2>4, <2>8, MailStep DEF Gentle
  <1> QED BY <1>11, <1>12 DEF FireEmail

\* The send is recorded: no other request records the same message.
LEMMA RecordStep ==
    ASSUME ReportInv, NEW r \in Requests, RecordEmailSend(r) PROVE ReportInv'
  <1>1. PICK q : q = request[r]
    OBVIOUS
  <1>2. PICK p : p = [Then(q) EXCEPT !.extra = FALSE, !.message = 0]
    OBVIOUS
  <1>3. /\ q \in RequestRecords /\ q.todo # <<>> /\ Head(q.todo) = "record"
        /\ Tail(q.todo) \in Seq(Steps) /\ Todo(r, "record")
    BY <1>1, AtStep DEF RecordEmailSend
  <1>4. p \in RequestRecords /\ Like(q, p) /\ p.todo = Tail(q.todo)
    BY <1>2, <1>3, DoneRecords
  <1>5. /\ request' = [request EXCEPT ![r] = p] /\ emitter' = emitter
        /\ UNCHANGED <<errors, refusals, lastFired, alerts, life, now>>
    BY <1>1, <1>2 DEF RecordEmailSend, clockVars
  <1>6. Shape(p) /\ Gentle(q, p) /\ emitter' \in Emitters /\ ~Recording(p)
    BY <1>1, <1>3, <1>4, <1>5, LateStep
  <1>7. PICK m : m = mails
    OBVIOUS
  <1>8. PICK n : n = q.message
    OBVIOUS
  <1>9. /\ \A i \in 1..MaxMails : i > m.sent => m.row[i] = "none"
        /\ \A o \in Requests : Recording(request[o]) =>
              request[o].message \in 1..MaxMails /\ request[o].message <= m.sent
              /\ m.row[request[o].message] = "none"
        /\ \A k, o \in Requests : k # o /\ Recording(request[k]) /\ Recording(request[o])
              => request[k].message # request[o].message
    BY <1>7 DEF ReportInv, MailInv
  <1>10. Recording(request[r]) /\ n \in 1..MaxMails /\ n <= m.sent
    BY <1>1, <1>3, <1>8, <1>9 DEF Recording
  <1>11. m \in MailRecords /\ m.sent \in Nat /\ m.row \in [1..MaxMails -> Statuses]
    BY <1>7 DEF ReportInv, ReportTypeOK, MailRecords
  <1>12. PICK rows : rows = [m.row EXCEPT ![n] = "sent"]
    OBVIOUS
  <1>13. /\ rows \in [1..MaxMails -> Statuses]
         /\ \A i \in 1..MaxMails : i # n => rows[i] = m.row[i]
    BY <1>10, <1>11, <1>12 DEF Statuses
  <1>14. PICK u : u = [m EXCEPT !.row = rows]
    OBVIOUS
  <1>15. mails' = u
    BY <1>1, <1>7, <1>8, <1>12, <1>14 DEF RecordEmailSend
  <1>16. u \in MailRecords /\ u.sent = m.sent /\ u.row = rows
    BY <1>11, <1>13, <1>14 DEF MailRecords
  <1>17. request'[r] = p /\ \A o \in Requests : o # r => request'[o] = request[o]
    BY <1>4, <1>5, <1>6, OneRequest
  <1>18. \A i \in 1..MaxMails : i > u.sent => u.row[i] = "none"
    BY <1>9, <1>10, <1>11, <1>13, <1>16
  <1>19. \A o \in Requests : Recording(request'[o]) =>
             request'[o].message \in 1..MaxMails /\ request'[o].message <= u.sent
             /\ u.row[request'[o].message] = "none"
    <2> SUFFICES ASSUME NEW o \in Requests, Recording(request'[o])
                 PROVE  request'[o].message \in 1..MaxMails /\ request'[o].message <= u.sent
                        /\ u.row[request'[o].message] = "none"
      OBVIOUS
    <2>1. o # r /\ request'[o] = request[o] /\ Recording(request[o])
      BY <1>6, <1>17
    <2>2. request[o].message # n
      BY <1>1, <1>8, <1>9, <1>10, <2>1
    <2> QED BY <1>9, <1>13, <1>16, <2>1, <2>2
  <1>20. MailInv'
    BY <1>6, <1>9, <1>15, <1>17, <1>18, <1>19 DEF MailInv
  <1> QED BY <1>1, <1>4, <1>5, <1>6, <1>15, <1>16, <1>20, MailStep DEF Gentle

\* What a callback does to the rows.
LEMMA ApplyRows ==
    ASSUME ReportInv, NEW r \in Requests, Apply(r)
    PROVE  /\ mails' \in MailRecords /\ mails'.sent = mails.sent
           /\ \A i \in 1..MaxMails : /\ mails.row[i] = "none" => mails'.row[i] = "none"
                                     /\ mails'.row[i] # mails.row[i] => i = request[r].callback[1]
  <1>1. PICK q : q = request[r]
    OBVIOUS
  <1>2. q \in RequestRecords /\ q.callback \in Callbacks
    BY <1>1, AtStep, Heads DEF Apply
  <1>3. PICK n : n = q.callback[1]
    OBVIOUS
  <1>4. n \in 1..MaxMails /\ q.callback[2] \in Kinds
    BY <1>2, <1>3 DEF Callbacks
  <1>5. PICK m : m = mails
    OBVIOUS
  <1>6. m \in MailRecords /\ m.row \in [1..MaxMails -> Statuses]
    BY <1>5 DEF ReportInv, ReportTypeOK, MailRecords
  <1>7. PICK st : st = StatusFor(q.callback[2], m.row[n])
    OBVIOUS
  <1>8. st \in Statuses /\ (m.row[n] = "none" => st = "none")
    BY <1>4, <1>6, <1>7 DEF StatusFor, Statuses
  <1>9. PICK rows : rows = [m.row EXCEPT ![n] = st]
    OBVIOUS
  <1>10. PICK u : u = [m EXCEPT !.row = rows]
    OBVIOUS
  <1>11. rows \in [1..MaxMails -> Statuses]
    BY <1>4, <1>6, <1>8, <1>9
  <1>12. u \in MailRecords /\ u.sent = m.sent /\ u.row = rows
    BY <1>6, <1>10, <1>11 DEF MailRecords
  <1>13. mails' = m \/ mails' = u
    BY <1>1, <1>3, <1>5, <1>7, <1>9, <1>10 DEF Apply
  <1>14. \A i \in 1..MaxMails : (m.row[i] = "none" => rows[i] = "none") /\ (rows[i] # m.row[i] => i = n)
    BY <1>4, <1>6, <1>8, <1>9
  <1> QED BY <1>1, <1>3, <1>5, <1>6, <1>12, <1>13, <1>14

\* A callback changes the status of a recorded send.
LEMMA ApplyStep ==
    ASSUME ReportInv, NEW r \in Requests, Apply(r) PROVE ReportInv'
  <1>1. /\ mails' \in MailRecords /\ mails'.sent = mails.sent
        /\ \A i \in 1..MaxMails : mails.row[i] = "none" => mails'.row[i] = "none"
    BY ApplyRows
  <1>2. /\ request' = [request EXCEPT ![r] = Idle] /\ emitter' \in Emitters
        /\ Idle \in RequestRecords /\ Shape(Idle) /\ Gentle(request[r], Idle)
    BY EndMoves DEF Apply
  <1>3. \A o \in Requests : GentleMail(request[o], request'[o])
    BY <1>2, OneGentle DEF Gentle
  <1>4. MailInv'
    BY <1>1, <1>3 DEF ReportInv, MailInv, GentleMail
  <1>5. UNCHANGED <<errors, refusals, lastFired, alerts, life, now>>
    BY DEF Apply, clockVars
  <1> QED BY <1>1, <1>2, <1>4, <1>5, MailStep DEF Gentle

-----------------------------------------------------------------------------
(* Steps of a batch. *)

\* Alerts by instant and process life.
AlertRecords == [at : Nat, life : Nat]

\* A step that touches the batches and alerts.
LEMMA BatchStep ==
    ASSUME ReportInv, request' \in [Requests -> RequestRecords], ShapeInv',
           \A o \in Requests : GentleRefusal(request[o], request'[o]) /\ GentleMail(request[o], request'[o]),
           emitter' \in Emitters, errors' \in RowCounts, alerts' \in Seq(AlertRecords), lastFired' \in Nat,
           CrossingInv', UNCHANGED <<refusals, mails, life, now>>
    PROVE  ReportInv'
  <1>1. ReportTypeOK'
    BY DEF ReportInv, ReportTypeOK, AlertRecords
  <1>2. RefusalInv'
    <2>1. refusals \in RefusalRecords /\ Total(refusals) \in Int
      BY TotalType DEF ReportInv, ReportTypeOK, RefusalRecords
    <2> QED BY <2>1, RefusalKeeps DEF ReportInv
  <1>3. MailInv'
    BY MailKeeps DEF ReportInv
  <1> QED BY <1>1, <1>2, <1>3 DEF ReportInv

\* A batch is neither a refusal nor a mail to record.
LEMMA BatchRecord ==
    ASSUME ReportInv, NEW r \in Requests, NEW p \in RequestRecords, Shape(p), ~Noted(p), ~Recording(p),
           request' = [request EXCEPT ![r] = p], emitter' \in Emitters, errors' \in RowCounts,
           alerts' \in Seq(AlertRecords), lastFired' \in Nat,
           CrossingInv', UNCHANGED <<refusals, mails, life, now>>
    PROVE  ReportInv'
  <1>1. request' \in [Requests -> RequestRecords] /\ ShapeInv'
    BY OneRequest
  <1>2. \A o \in Requests : GentleRefusal(request[o], request'[o]) /\ GentleMail(request[o], request'[o])
    BY OneRequest DEF GentleRefusal, GentleMail
  <1> QED BY <1>1, <1>2, BatchStep

\* Numbers that are not negative have such a sum.
LEMMA NatSum ==
    ASSUME NEW f, NEW T, IsFiniteSet(T), \A t \in T : f[t] \in Nat
    PROVE  SumFunctionOnSet(f, T) \in Nat
  <1>1. PICK zero : zero = [t \in T |-> 0]
    OBVIOUS
  <1>2. SumFunctionOnSet(zero, T) = 0
    BY <1>1, SumOfZeros
  <1>3. SumFunctionOnSet(zero, T) <= SumFunctionOnSet(f, T)
    <2>1. \A t \in T : zero[t] \in Int /\ f[t] \in Int /\ zero[t] <= f[t]
      BY <1>1
    <2> QED BY <2>1, SumOrder
  <1>4. SumFunctionOnSet(f, T) \in Int
    BY SumType
  <1> QED BY <1>2, <1>3, <1>4

\* The steps of a batch.
LEMMA BatchSteps ==
    /\ Tail(<<"flush", "count", "decide", "commit">>) = ToCount /\ Tail(ToCount) = ToDecide
    /\ Tail(ToDecide) = <<"commit">>
    /\ ToCount \in Seq(Steps) /\ ToCount # <<>> /\ Head(ToCount) = "count"
    /\ ToDecide \in Seq(Steps) /\ ToDecide # <<>> /\ Head(ToDecide) = "decide"
    /\ <<"commit">> \in Seq(Steps) /\ <<"commit">> # <<>> /\ Head(<<"commit">>) = "commit"
    /\ Tail(<<"commit">>) \in Seq(FanOut \cup {"commit"})
    /\ LET s == <<"notify">> \o <<"commit">>
       IN  /\ s \in Seq(Steps) /\ s # <<>> /\ Head(s) = "notify"
           /\ Tail(s) \in Seq(FanOut \cup {"commit"})
  <1>1. Tail(<<"flush", "count", "decide", "commit">>) = ToCount
    BY DEF ToCount
  <1>2. Tail(ToCount) = ToDecide /\ Tail(ToDecide) = <<"commit">>
    BY DEF ToCount, ToDecide
  <1>3. ToCount \in Seq(Steps) /\ ToCount # <<>> /\ Head(ToCount) = "count"
    BY DEF ToCount, Steps
  <1>4. ToDecide \in Seq(Steps) /\ ToDecide # <<>> /\ Head(ToDecide) = "decide"
    BY DEF ToDecide, Steps
  <1>5. <<"commit">> \in Seq(Steps) /\ <<"commit">> # <<>> /\ Head(<<"commit">>) = "commit"
    BY DEF Steps
  <1>6. <<"commit">> \in Seq(FanOut \cup {"commit"}) /\ Tail(<<"commit">>) \in Seq(FanOut \cup {"commit"})
    OBVIOUS
  <1>7. PICK s : s = <<"notify">> \o <<"commit">>
    OBVIOUS
  <1>8. s \in Seq(Steps) /\ s # <<>> /\ Head(s) = "notify" /\ Tail(s) = <<"commit">>
    <2>1. <<"notify">> \in Seq(Steps)
      BY DEF Steps
    <2>2. PICK u \in Seq(Steps) : u = <<"commit">>
      BY <1>5
    <2>3. <<"notify">> \o u \in Seq(Steps)
      BY <2>1
    <2>4. <<"notify">> \o u # <<>> /\ Head(<<"notify">> \o u) = "notify" /\ Tail(<<"notify">> \o u) = u
      OBVIOUS
    <2> QED BY <1>7, <2>2, <2>3, <2>4
  <1> QED BY <1>1, <1>2, <1>3, <1>4, <1>5, <1>6, <1>7, <1>8, Zenon

\* A batch with rows in its transaction holds the lock of the key's row.
LEMMA FlushedWhenStored ==
    ASSUME ReportInv, NEW o \in Requests, InTransaction(request[o]) PROVE Flushed(o)
  BY AtStep, Heads DEF InTransaction, Flushed

\* A batch that gets the lock is the only one with rows in its transaction.
LEMMA FlushStep ==
    ASSUME ReportInv, NEW r \in Requests, Flush(r) PROVE ReportInv'
  <1>1. PICK q : q = request[r]
    OBVIOUS
  <1>2. \A o \in Requests : o # r => ~InTransaction(request[o])
    BY FlushedWhenStored DEF Flush, KeyLocked
  <1>3. /\ q \in RequestRecords /\ Shape(q) /\ q.kind = "ingest" /\ q.begun
        /\ q.todo = <<"flush", "count", "decide", "commit">>
    BY <1>1, AtStep, Heads, Plans DEF Flush
  <1>4. PICK n : n = now
    OBVIOUS
  <1>5. n \in Nat /\ n \in 0..MaxTime
    BY <1>4 DEF ReportInv, ReportTypeOK
  <1>6. PICK p : p = [Then(q) EXCEPT !.stamp = n]
    OBVIOUS
  <1>7. /\ p \in RequestRecords /\ p.kind = "ingest" /\ p.begun /\ p.todo = ToCount /\ p.stamp = n
        /\ p.asked = q.asked
    <2>1. PICK k : k = Then(q)
      OBVIOUS
    <2>2. Tail(q.todo) = ToCount
      BY <1>3, BatchSteps, Zenon
    <2>3. k \in RequestRecords /\ k.todo = ToCount /\ Like(q, k)
      BY <1>3, <2>1, <2>2, BatchSteps, ThenRecord
    <2>4. p = [k EXCEPT !.stamp = n]
      BY <1>6, <2>1
    <2>5. p \in RequestRecords /\ p.kind = k.kind /\ p.begun = k.begun /\ p.todo = k.todo
          /\ p.stamp = n /\ p.asked = k.asked
      BY <1>5, <2>3, <2>4 DEF RequestRecords
    <2> QED BY <1>3, <2>3, <2>5 DEF Like
  <1>8. request' = [request EXCEPT ![r] = p]
    BY <1>1, <1>4, <1>6 DEF Flush
  <1>9. Shape(p) /\ ~Noted(p) /\ ~Recording(p) /\ ~Counted(p)
    <2>1. Shape(p)
      BY <1>7 DEF Shape
    <2> QED BY <1>7, <2>1, BatchSteps DEF Noted, Recording, Counted
  <1>10. request'[r] = p /\ \A o \in Requests : o # r => request'[o] = request[o]
    BY <1>7, <1>8, <1>9, OneRequest
  <1>11. /\ emitter' \in Emitters /\ errors' \in RowCounts /\ alerts' \in Seq(AlertRecords)
         /\ lastFired' \in Nat /\ UNCHANGED <<errors, refusals, mails, life, now, alerts, lastFired>>
    BY DEF Flush, rowVars, clockVars, ReportInv, ReportTypeOK, AlertRecords
  <1>12. CrossingInv'
    <2>1. (lastFired # Never => \E i \in 1..Len(alerts) : alerts[i].life = life /\ alerts[i].at = lastFired)'
      BY <1>11 DEF ReportInv, CrossingInv, Never
    <2>2. \A o \in Requests : request[o].stamp <= now /\ request[o].asked <= now
      BY DEF ReportInv, CrossingInv
    <2>3. \A o \in Requests : request'[o].stamp <= now' /\ request'[o].asked <= now'
      BY <1>1, <1>4, <1>5, <1>7, <1>10, <1>11, <2>2
    <2>4. \A o \in Requests : o # r => ~InTransaction(request'[o])
      BY <1>2, <1>10
    <2>5. \A o \in Requests : ~Counted(request'[o]) /\ ~Decided(request'[o])
      BY <1>9, <1>10, <2>4 DEF Counted, Decided
    <2> QED BY <2>1, <2>3, <2>4, <2>5 DEF CrossingInv
  <1> QED BY <1>7, <1>8, <1>9, <1>11, <1>12, BatchRecord

\* The count covers the committed rows of the window and its own.
LEMMA CountStep ==
    ASSUME ReportInv, NEW r \in Requests, Count(r) PROVE ReportInv'
  <1>1. PICK q : q = request[r]
    OBVIOUS
  <1>2. /\ q \in RequestRecords /\ Shape(q) /\ q.kind = "ingest" /\ q.begun /\ q.todo = ToCount
    BY <1>1, AtStep, Heads DEF Count
  <1>3. PICK n : n = now
    OBVIOUS
  <1>4. n \in Nat /\ n \in 0..MaxTime /\ Window \in Nat
    BY <1>3, ReportConstants DEF ReportInv, ReportTypeOK
  <1>5. PICK total : total = Recent
    OBVIOUS
  <1>6. total = SumFunctionOnSet(errors, InWindow(n)) /\ total \in Nat
    <2>1. errors \in RowCounts
      BY DEF ReportInv, ReportTypeOK
    <2>2. InWindow(n) \subseteq 0..MaxTime /\ IsFiniteSet(InWindow(n))
      BY <1>4, <2>1, WindowSum
    <2>3. \A t \in InWindow(n) : errors[t] \in Nat
      BY <2>1, <2>2 DEF RowCounts
    <2> QED BY <1>3, <1>5, <2>2, <2>3, NatSum DEF Recent
  <1>7. PICK own : own = IF q.stamp + Window >= n THEN q.batch ELSE 0
    OBVIOUS
  <1>8. q.batch \in Nat /\ q.stamp \in Nat /\ own \in Nat
    BY <1>2, <1>7 DEF RequestRecords
  <1>9. PICK s \in Nat : s = total + own
    BY <1>6, <1>8
  <1>10. PICK p : p = [Then(q) EXCEPT !.seen = s, !.asked = n]
    OBVIOUS
  <1>11. /\ p \in RequestRecords /\ p.kind = "ingest" /\ p.begun /\ p.todo = ToDecide
         /\ p.stamp = q.stamp /\ p.asked = n /\ p.seen = s
         /\ p.batch = q.batch
    <2>1. PICK k : k = Then(q)
      OBVIOUS
    <2>2. Tail(q.todo) = ToDecide
      BY <1>2, BatchSteps, Zenon
    <2>3. k \in RequestRecords /\ k.todo = ToDecide /\ Like(q, k)
      BY <1>2, <2>1, <2>2, BatchSteps, ThenRecord
    <2>4. p = [k EXCEPT !.seen = s, !.asked = n]
      BY <1>10, <2>1
    <2>5. p \in RequestRecords /\ p.kind = k.kind /\ p.begun = k.begun /\ p.todo = k.todo
          /\ p.stamp = k.stamp /\ p.asked = n /\ p.seen = s
          /\ p.batch = k.batch
      BY <1>4, <2>3, <2>4 DEF RequestRecords
    <2> QED BY <1>2, <2>3, <2>5 DEF Like
  <1>12. request' = [request EXCEPT ![r] = p]
    BY <1>1, <1>3, <1>5, <1>7, <1>9, <1>10 DEF Count
  <1>13. Shape(p) /\ ~Noted(p) /\ ~Recording(p) /\ ~Decided(p)
    <2>1. Shape(p)
      BY <1>11 DEF Shape
    <2> QED BY <1>11, <2>1, BatchSteps DEF Noted, Recording, Decided
  <1>14. InTransaction(q)
    <2>1. ToCount # Plan("ingest")
      BY Plans, BatchSteps, PlanSteps
    <2> QED BY <1>2, <2>1 DEF InTransaction
  <1>15. /\ emitter' \in Emitters /\ errors' \in RowCounts /\ alerts' \in Seq(AlertRecords)
         /\ lastFired' \in Nat /\ UNCHANGED <<errors, refusals, mails, life, now, alerts, lastFired>>
    BY DEF Count, rowVars, clockVars, ReportInv, ReportTypeOK, AlertRecords
  <1>16. request'[r] = p /\ \A o \in Requests : o # r => request'[o] = request[o]
    BY <1>11, <1>12, <1>13, OneRequest
  <1>17. CrossingInv'
    <2>1. (lastFired # Never => \E i \in 1..Len(alerts) : alerts[i].life = life /\ alerts[i].at = lastFired)'
      BY <1>15 DEF ReportInv, CrossingInv, Never
    <2>2. \A o \in Requests : request[o].stamp <= now /\ request[o].asked <= now
      BY DEF ReportInv, CrossingInv
    <2>3. \A o \in Requests : request'[o].stamp <= now' /\ request'[o].asked <= now'
      BY <1>1, <1>3, <1>4, <1>11, <1>15, <1>16, <2>2
    <2>4. \A k, o \in Requests : k # o /\ InTransaction(request[k]) => ~InTransaction(request[o])
      BY DEF ReportInv, CrossingInv
    <2>5. \A k, o \in Requests : k # o /\ InTransaction(request'[k]) => ~InTransaction(request'[o])
      BY <1>1, <1>11, <1>14, <1>16, <2>4
    <2>6. ASSUME NEW o \in Requests, Counted(request'[o]), ~request'[o].aborted
          PROVE  SumFunctionOnSet(errors', InWindow(request'[o].asked)) + Own(request'[o])
                   <= request'[o].seen
      <3>1. CASE o # r
        BY <1>15, <1>16, <2>6, <3>1 DEF ReportInv, CrossingInv
      <3>2. CASE o = r
        <4>1. Own(p) = own
          BY <1>7, <1>11 DEF Own
        <4>2. SumFunctionOnSet(errors', InWindow(p.asked)) = total
          BY <1>6, <1>11, <1>15
        <4>3. total + own <= s
          BY <1>6, <1>8, <1>9
        <4> QED BY <1>11, <1>16, <3>2, <4>1, <4>2, <4>3
      <3> QED BY <3>1, <3>2
    <2>7. ASSUME NEW o \in Requests, Decided(request'[o]), ~request'[o].aborted,
                 request'[o].seen >= Threshold
          PROVE  Reported(request[o])'
      <3>1. o # r /\ request'[o] = request[o]
        BY <1>13, <1>16, <2>7
      <3>2. Reported(request[o])
        BY <2>7, <3>1 DEF ReportInv, CrossingInv
      <3> QED BY <1>15, <3>1, <3>2 DEF Reported
    <2> QED BY <2>1, <2>3, <2>5, <2>6, <2>7 DEF CrossingInv
  <1> QED BY <1>11, <1>12, <1>13, <1>15, <1>17, BatchRecord

\* At the threshold an alert starts, or one of this window exists.
LEMMA DecideStep ==
    ASSUME ReportInv, NEW r \in Requests, Decide(r) PROVE ReportInv'
  <1>1. PICK q : q = request[r]
    OBVIOUS
  <1>2. /\ q \in RequestRecords /\ Shape(q) /\ q.kind = "ingest" /\ q.begun /\ q.todo = ToDecide
    BY <1>1, AtStep, Heads DEF Decide
  <1>3. Tail(q.todo) = <<"commit">>
    BY <1>2, BatchSteps, Zenon
  <1>4. PICK n \in Nat : n = q.asked
    BY <1>2 DEF RequestRecords
  <1>5. /\ alerts \in Seq(AlertRecords) /\ lastFired \in Nat /\ life \in Nat /\ now \in 0..MaxTime
        /\ Window \in Nat /\ Window > 0 /\ Threshold \in Nat
    BY ReportConstants DEF ReportInv, ReportTypeOK, AlertRecords
  <1>6. PICK fires \in BOOLEAN : fires = (q.seen >= Threshold /\ ~Suppressed(r))
    <2>1. CASE q.seen >= Threshold /\ ~Suppressed(r)
      BY <2>1, TRUE = (q.seen >= Threshold /\ ~Suppressed(r))
    <2>2. CASE ~(q.seen >= Threshold /\ ~Suppressed(r))
      BY <2>2, FALSE = (q.seen >= Threshold /\ ~Suppressed(r))
    <2> QED BY <2>1, <2>2
  <1>7. PICK s : s = IF fires THEN <<"notify">> \o <<"commit">> ELSE <<"commit">>
    OBVIOUS
  <1>8. /\ s \in Seq(Steps) /\ s # <<>> /\ Head(s) \in {"notify", "commit"}
        /\ Tail(s) \in Seq(FanOut \cup {"commit"})
    BY <1>7, BatchSteps, Zenon
  <1>9. PICK p : p = [q EXCEPT !.todo = s]
    OBVIOUS
  <1>10. p \in RequestRecords /\ Like(q, p) /\ p.todo = s
    BY <1>2, <1>8, <1>9 DEF RequestRecords, Like
  <1>11. request' = [request EXCEPT ![r] = p]
    <2>1. CASE fires
      BY <1>1, <1>3, <1>6, <1>7, <1>9, <2>1 DEF Decide
    <2>2. CASE ~fires
      BY <1>1, <1>3, <1>6, <1>7, <1>9, <2>2 DEF Decide, Then
    <2> QED BY <2>1, <2>2
  <1>12. Shape(p) /\ ~Noted(p) /\ ~Recording(p)
    <2>1. Late(p.todo, FanOut \cup {"commit"})
      BY <1>8, <1>10 DEF Late, FanOut
    <2> QED BY <1>2, <1>8, <1>10, <2>1 DEF Shape, Noted, Recording, Like
  <1>13. InTransaction(q) /\ Counted(q)
    <2>1. ToDecide # Plan("ingest") /\ ToDecide # ToCount
      BY Plans, BatchSteps, PlanSteps
    <2> QED BY <1>2, <2>1 DEF InTransaction, Counted
  <1>14. /\ emitter' \in Emitters /\ errors' \in RowCounts /\ UNCHANGED <<errors, refusals, mails, life, now>>
    BY DEF Decide, rowVars, clockVars, ReportInv, ReportTypeOK
  <1>15. request'[r] = p /\ \A o \in Requests : o # r => request'[o] = request[o]
    BY <1>10, <1>11, <1>12, OneRequest
  <1>16. PICK a : a = [at |-> n, life |-> life]
    OBVIOUS
  <1>17. a \in AlertRecords /\ a.at = n /\ a.life = life
    BY <1>5, <1>16 DEF AlertRecords
  <1>18. /\ alerts' \in Seq(AlertRecords) /\ lastFired' \in Nat
         /\ Len(alerts) \in Nat /\ 1..Len(alerts) \subseteq 1..Len(alerts')
         /\ \A i \in 1..Len(alerts) : alerts'[i] = alerts[i]
         /\ lastFired' # Never => \E i \in 1..Len(alerts') : alerts'[i].life = life /\ alerts'[i].at = lastFired'
         /\ q.seen >= Threshold =>
              \E i \in 1..Len(alerts') : alerts'[i].life = life /\ n < alerts'[i].at + Window
    <2>1. CASE fires
      <3>1. lastFired' = n /\ alerts' = Append(alerts, a)
        BY <1>1, <1>4, <1>6, <1>16, <2>1 DEF Decide, Mark
      <3>2. /\ Len(alerts) \in Nat /\ Len(alerts') = Len(alerts) + 1
            /\ alerts'[Len(alerts) + 1] = a /\ \A i \in 1..Len(alerts) : alerts'[i] = alerts[i]
            /\ alerts' \in Seq(AlertRecords)
        BY <1>5, <1>17, <3>1
      <3>3. PICK k \in Nat : k = Len(alerts) + 1
        BY <3>2
      <3>4. k \in 1..Len(alerts') /\ alerts'[k].life = life /\ alerts'[k].at = n
        BY <1>17, <3>2, <3>3
      <3>5. n < n + Window
        BY <1>5
      <3>6. 1..Len(alerts) \subseteq 1..Len(alerts')
        BY <3>2
      <3> QED BY <3>1, <3>2, <3>4, <3>5, <3>6
    <2>2. CASE ~fires
      <3>1. lastFired' = lastFired /\ alerts' = alerts
        BY <1>1, <1>6, <2>2 DEF Decide
      <3>2. lastFired # Never => \E i \in 1..Len(alerts) : alerts[i].life = life /\ alerts[i].at = lastFired
        BY DEF ReportInv, CrossingInv
      <3>3. q.seen >= Threshold => lastFired # Never /\ n < lastFired + Window
        BY <1>1, <1>4, <1>6, <2>2 DEF Suppressed
      <3>4. Len(alerts) \in Nat
        BY <1>5
      <3> QED BY <1>5, <3>1, <3>2, <3>3, <3>4
    <2> QED BY <2>1, <2>2
  <1>19. CrossingInv'
    <2>1. (lastFired # Never => \E i \in 1..Len(alerts) : alerts[i].life = life /\ alerts[i].at = lastFired)'
      BY <1>14, <1>18 DEF Never
    <2>2. \A o \in Requests : request'[o].stamp <= now' /\ request'[o].asked <= now'
      <3>1. \A o \in Requests : request[o].stamp <= now /\ request[o].asked <= now
        BY DEF ReportInv, CrossingInv
      <3> QED BY <1>1, <1>10, <1>14, <1>15, <3>1 DEF Like
    <2>3. \A k, o \in Requests : k # o /\ InTransaction(request'[k]) => ~InTransaction(request'[o])
      <3>1. \A k, o \in Requests : k # o /\ InTransaction(request[k]) => ~InTransaction(request[o])
        BY DEF ReportInv, CrossingInv
      <3> QED BY <1>1, <1>13, <1>15, <3>1
    <2>4. ASSUME NEW o \in Requests, Counted(request'[o]), ~request'[o].aborted
          PROVE  SumFunctionOnSet(errors', InWindow(request'[o].asked)) + Own(request'[o])
                   <= request'[o].seen
      <3>1. CASE o # r
        BY <1>14, <1>15, <2>4, <3>1 DEF ReportInv, CrossingInv
      <3>2. CASE o = r
        <4>1. SumFunctionOnSet(errors, InWindow(q.asked)) + Own(q) <= q.seen
          BY <1>1, <1>10, <1>13, <1>15, <2>4, <3>2 DEF ReportInv, CrossingInv, Like
        <4>2. Own(p) = Own(q) /\ p.asked = q.asked /\ p.seen = q.seen
          BY <1>10 DEF Own, Like
        <4> QED BY <1>14, <1>15, <3>2, <4>1, <4>2
      <3> QED BY <3>1, <3>2
    <2>5. ASSUME NEW o \in Requests, Decided(request'[o]), ~request'[o].aborted,
                 request'[o].seen >= Threshold
          PROVE  Reported(request[o])'
      <3>1. CASE o # r
        <4>1. Reported(request[o])
          BY <1>15, <2>5, <3>1 DEF ReportInv, CrossingInv
        <4>2. PICK i \in 1..Len(alerts) : alerts[i].life = life /\ request[o].asked < alerts[i].at + Window
          BY <4>1 DEF Reported
        <4>3. /\ i \in 1..Len(alerts') /\ alerts'[i].life = life'
              /\ request'[o].asked < alerts'[i].at + Window
          BY <1>14, <1>15, <1>18, <3>1, <4>2
        <4> QED BY <4>3 DEF Reported
      <3>2. CASE o = r
        <4>1. q.seen >= Threshold /\ request'[o].asked = n
          BY <1>4, <1>10, <1>15, <2>5, <3>2 DEF Like
        <4>2. PICK i \in 1..Len(alerts') : alerts'[i].life = life /\ n < alerts'[i].at + Window
          BY <1>18, <4>1
        <4> QED BY <1>14, <4>1, <4>2 DEF Reported
      <3> QED BY <3>1, <3>2
    <2> QED BY <2>1, <2>2, <2>3, <2>4, <2>5 DEF CrossingInv
  <1> QED BY <1>10, <1>11, <1>12, <1>14, <1>18, <1>19, BatchRecord

\* A commit disturbs no other batch, because none beside it has rows in its
\* transaction.
LEMMA CommitStep ==
    ASSUME ReportInv, NEW r \in Requests, CommitIngest(r) PROVE ReportInv'
  <1>1. /\ request' = [request EXCEPT ![r] = Idle] /\ emitter' \in Emitters
        /\ Idle \in RequestRecords /\ Shape(Idle) /\ Gentle(request[r], Idle)
    BY EndMoves DEF CommitIngest
  <1>2. CASE request[r].aborted
    <2>1. Elsewhere /\ now' = now
      BY <1>2 DEF CommitIngest, Elsewhere, clockVars
    <2> QED BY <1>1, <2>1, GentleRequestStep
  <1>3. CASE ~request[r].aborted
    <2>1. PICK q : q = request[r]
      OBVIOUS
    <2>2. q \in RequestRecords /\ InTransaction(q)
      BY <2>1, AtStep, Heads, LateHeads DEF CommitIngest, Decided, Counted
    <2>3. PICK n : n = q.stamp
      OBVIOUS
    <2>4. PICK b \in Nat : b = q.batch
      BY <2>2 DEF RequestRecords
    <2>5. errors' \in RowCounts
      <3>1. errors' = [errors EXCEPT ![n] = @ + b] /\ errors \in RowCounts
        BY <1>3, <2>1, <2>3, <2>4 DEF CommitIngest, ReportInv, ReportTypeOK
      <3>2. PICK k : k = errors[n] + b
        OBVIOUS
      <3>3. n \in 0..MaxTime
        <4>1. n \in Nat /\ n <= now /\ now \in 0..MaxTime /\ MaxTime \in Nat
          BY <2>1, <2>2, <2>3, ReportConstants
             DEF RequestRecords, ReportInv, CrossingInv, ReportTypeOK
        <4> QED BY <4>1
      <3>4. k \in Nat
        BY <3>1, <3>2, <3>3 DEF RowCounts
      <3>5. errors' = [errors EXCEPT ![n] = k]
        BY <3>1, <3>2
      <3> QED BY <3>1, <3>4, <3>5 DEF RowCounts
    <2>6. /\ alerts' \in Seq(AlertRecords) /\ lastFired' \in Nat
          /\ UNCHANGED <<refusals, mails, life, now, alerts, lastFired>>
      BY DEF CommitIngest, clockVars, ReportInv, ReportTypeOK, AlertRecords
    <2>7. request'[r] = Idle /\ \A o \in Requests : o # r => request'[o] = request[o]
      BY <1>1, OneRequest
    <2>8. /\ Idle.todo = <<>> /\ Idle.stamp = 0 /\ Idle.asked = 0 /\ ~InTransaction(Idle) /\ ~Noted(Idle)
          /\ ~Recording(Idle)
      BY IdleRecord DEF InTransaction, Noted, Recording
    <2>9. CrossingInv'
      <3>1. (lastFired # Never => \E i \in 1..Len(alerts) : alerts[i].life = life /\ alerts[i].at = lastFired)'
        BY <2>6 DEF ReportInv, CrossingInv, Never
      <3>2. \A o \in Requests : request'[o].stamp <= now' /\ request'[o].asked <= now'
        <4>1. \A o \in Requests : request[o].stamp <= now /\ request[o].asked <= now
          BY DEF ReportInv, CrossingInv
        <4>2. now \in Nat
          BY DEF ReportInv, ReportTypeOK
        <4> QED BY <2>6, <2>7, <2>8, <4>1, <4>2
      <3>3. \A k, o \in Requests : k # o /\ InTransaction(request[k]) => ~InTransaction(request[o])
        BY DEF ReportInv, CrossingInv
      <3>4. \A k, o \in Requests : k # o /\ InTransaction(request'[k]) => ~InTransaction(request'[o])
        BY <2>7, <2>8, <3>3
      <3>5. \A o \in Requests : ~Counted(request'[o])
        BY <2>1, <2>2, <2>7, <2>8, <3>3 DEF Counted
      <3>6. ASSUME NEW o \in Requests, Decided(request'[o]), ~request'[o].aborted,
                   request'[o].seen >= Threshold
            PROVE  Reported(request[o])'
        <4>1. o # r /\ request'[o] = request[o]
          BY <2>7, <2>8, <3>6 DEF Decided, Counted
        <4>2. Reported(request[o])
          BY <3>6, <4>1 DEF ReportInv, CrossingInv
        <4> QED BY <2>6, <4>1, <4>2 DEF Reported
      <3> QED BY <3>1, <3>2, <3>4, <3>5, <3>6 DEF CrossingInv
    <2> QED BY <1>1, <2>5, <2>6, <2>8, <2>9, BatchRecord
  <1> QED BY <1>2, <1>3

-----------------------------------------------------------------------------
(* The purges and the restart. *)

\* A purge splits the rows in those it keeps and those it deletes.
LEMMA KeptRows ==
    ASSUME NEW rows \in RowCounts, NEW cutoff \in Int
    PROVE  /\ Kept(rows, cutoff) \in RowCounts /\ Deleted(rows, cutoff) \in RowCounts
           /\ \A t \in 0..MaxTime : Kept(rows, cutoff)[t] <= rows[t]
           /\ SumFunction(rows) = SumFunction(Kept(rows, cutoff)) + SumFunction(Deleted(rows, cutoff))
           /\ SumFunction(Deleted(rows, cutoff)) \in Nat
  <1>1. PICK f : f = Kept(rows, cutoff)
    OBVIOUS
  <1>2. PICK g : g = Deleted(rows, cutoff)
    OBVIOUS
  <1>3. \A t \in 0..MaxTime : rows[t] \in Nat
    BY DEF RowCounts
  <1>4. /\ f \in RowCounts /\ g \in RowCounts
        /\ \A t \in 0..MaxTime : f[t] \in Nat /\ g[t] \in Nat /\ rows[t] = f[t] + g[t] /\ f[t] <= rows[t]
    BY <1>1, <1>2, <1>3 DEF Kept, Deleted, RowCounts
  <1>5. /\ IsFiniteSet(0..MaxTime) /\ SumFunction(rows) = SumFunctionOnSet(rows, 0..MaxTime)
        /\ SumFunction(f) = SumFunctionOnSet(f, 0..MaxTime)
        /\ SumFunction(g) = SumFunctionOnSet(g, 0..MaxTime)
    BY <1>4, RowsTotal
  <1>6. PICK T : T = 0..MaxTime
    OBVIOUS
  <1>7. \A t \in T : f[t] \in Int /\ g[t] \in Int /\ rows[t] = f[t] + g[t]
    BY <1>4, <1>6
  <1>8. SumFunctionOnSet(rows, T) = SumFunctionOnSet(f, T) + SumFunctionOnSet(g, T)
    <2>1. IsFiniteSet(T)
      BY <1>5, <1>6
    <2> QED BY <1>7, <2>1, SumAdds
  <1>9. SumFunctionOnSet(g, T) \in Nat
    BY <1>4, <1>5, <1>6, NatSum
  <1> QED BY <1>1, <1>2, <1>4, <1>5, <1>6, <1>8, <1>9

\* What a purge deletes is counted.
LEMMA PurgeStep ==
    ASSUME ReportInv, NEW cutoff \in Int, Purge(cutoff) PROVE ReportInv'
  <1>1. /\ errors \in RowCounts /\ refusals \in RefusalRecords
        /\ request \in [Requests -> RequestRecords] /\ now \in Nat
    BY DEF ReportInv, ReportTypeOK, RefusalRecords
  <1>2. PICK f : f = refusals
    OBVIOUS
  <1>3. f \in RefusalRecords /\ f.rows \in RowCounts /\ f.purged \in Nat /\ f.logged \in Nat
    BY <1>1, <1>2 DEF RefusalRecords
  <1>4. PICK kept : kept = Kept(f.rows, cutoff)
    OBVIOUS
  <1>5. PICK gone : gone = SumFunction(Deleted(f.rows, cutoff))
    OBVIOUS
  <1>6. /\ kept \in RowCounts /\ gone \in Nat /\ SumFunction(f.rows) = SumFunction(kept) + gone
        /\ SumFunction(kept) \in Int
    BY <1>3, <1>4, <1>5, KeptRows, RowsTotal
  <1>7. PICK n \in Nat : n = f.purged + gone
    BY <1>3, <1>6
  <1>8. PICK u : u = [f EXCEPT !.rows = kept, !.purged = n]
    OBVIOUS
  <1>9. refusals' = u
    BY <1>2, <1>4, <1>5, <1>7, <1>8 DEF Purge
  <1>10. /\ u \in RefusalRecords /\ u.raised = f.raised /\ u.logged = f.logged /\ u.rows = kept
         /\ u.purged = n
    BY <1>3, <1>6, <1>8 DEF RefusalRecords
  <1>11. Total(f) <= Total(u)
    BY <1>3, <1>6, <1>7, <1>10 DEF Total
  <1>12. errors' \in RowCounts /\ \A t \in 0..MaxTime : errors'[t] <= errors[t]
    BY <1>1, KeptRows DEF Purge
  <1>13. UNCHANGED <<emitter, request, lastFired, alerts, mails, now, life>>
    BY DEF Purge, clockVars
  <1>14. \A o \in Requests : Gentle(request[o], request'[o])
    BY <1>1, <1>13, GentleSelf
  <1>15. RefusalInv'
    BY <1>2, <1>9, <1>10, <1>11, <1>14, RefusalKeeps DEF ReportInv, Gentle
  <1>16. MailInv'
    BY <1>13, <1>14, MailKeeps DEF ReportInv, Gentle
  <1>17. CrossingInv'
    <2>1. now' \in Nat /\ now <= now' /\ request' \in [Requests -> RequestRecords]
      BY <1>1, <1>13
    <2> QED BY <1>12, <1>13, <1>14, <2>1, CrossingKeeps DEF ReportInv, Gentle
  <1>18. ReportTypeOK' /\ ShapeInv'
    <2>1. ReportTypeOK'
      BY <1>9, <1>10, <1>12, <1>13 DEF ReportInv, ReportTypeOK, RefusalRecords
    <2>2. ShapeInv'
      BY <1>13 DEF ReportInv, ShapeInv
    <2> QED BY <2>1, <2>2
  <1> QED BY <1>15, <1>16, <1>17, <1>18 DEF ReportInv

\* Both purges.
LEMMA PurgesStep ==
    ASSUME ReportInv, PurgeExpired \/ PurgeForUser PROVE ReportInv'
  <1>1. now - Retention \in Int /\ MaxTime + 1 \in Int
    BY ReportConstants DEF ReportInv, ReportTypeOK
  <1> QED BY <1>1, PurgeStep DEF PurgeExpired, PurgeForUser

\* A restart loses requests and the dedupe mark.
LEMMA RestartStep ==
    ASSUME ReportInv, Restart PROVE ReportInv'
  <1>1. /\ request \in [Requests -> RequestRecords] /\ emitter \in Emitters /\ now \in 0..MaxTime
        /\ refusals \in RefusalRecords /\ life \in Nat
    BY DEF ReportInv, ReportTypeOK, RefusalRecords
  <1>2. /\ request' \in [Requests -> RequestRecords] /\ \A o \in Requests : request'[o] = Idle
    BY IdleRecord DEF Restart
  <1>3. emitter' \in Emitters
    BY <1>1, EmitterMoves DEF Restart
  <1>4. /\ lastFired' = Never /\ life' = life + 1
        /\ UNCHANGED <<alerts, errors, refusals, mails, now>>
    BY DEF Restart, rowVars
  <1>5. \A o \in Requests : Gentle(request[o], request'[o])
    BY <1>1, <1>2, GentleIdle
  <1>6. RefusalInv'
    <2>1. Total(refusals) \in Int
      BY <1>1, TotalType
    <2> QED BY <1>1, <1>4, <1>5, <2>1, RefusalKeeps DEF ReportInv, Gentle
  <1>7. MailInv'
    BY <1>4, <1>5, MailKeeps DEF ReportInv, Gentle
  <1>8. CrossingInv'
    <2>1. /\ Idle.stamp = 0 /\ Idle.asked = 0 /\ ~InTransaction(Idle) /\ ~Counted(Idle) /\ ~Decided(Idle)
      BY IdleRecord DEF InTransaction, Counted, Decided
    <2>2. Never' = Never
      BY DEF Never
    <2>3. lastFired' = Never'
      BY <1>4, <2>2
    <2>4. \A o \in Requests : request'[o].stamp <= now' /\ request'[o].asked <= now'
      BY <1>1, <1>2, <1>4, <2>1
    <2> QED BY <1>2, <2>1, <2>3, <2>4 DEF CrossingInv
  <1>9. ReportTypeOK'
    <2>1. life' \in Nat /\ lastFired' \in Nat
      BY <1>1, <1>4, ReportConstants
    <2> QED BY <1>2, <1>3, <1>4, <2>1 DEF ReportInv, ReportTypeOK
  <1>10. ShapeInv'
    BY <1>2, IdleRecord DEF ShapeInv
  <1> QED BY <1>6, <1>7, <1>8, <1>9, <1>10 DEF ReportInv

\* Nothing has happened at the start.
LEMMA ReportInitInv == ReportingInit => ReportInv
  <1> SUFFICES ASSUME ReportingInit PROVE ReportInv
    OBVIOUS
  <1> USE DEF ReportingInit, ReportingInitWith
  <1>1. PICK zero : zero = [t \in 0..MaxTime |-> 0]
    OBVIOUS
  <1>2. zero \in RowCounts /\ SumFunction(zero) = 0
    <2>1. zero \in RowCounts /\ \A t \in 0..MaxTime : zero[t] = 0
      BY <1>1 DEF RowCounts
    <2>2. IsFiniteSet(0..MaxTime) /\ SumFunction(zero) = SumFunctionOnSet(zero, 0..MaxTime)
      BY <2>1, RowsTotal
    <2>3. PICK T : T = 0..MaxTime
      OBVIOUS
    <2>4. SumFunctionOnSet(zero, T) = 0
      BY <2>1, <2>2, <2>3, SumOfZeros
    <2> QED BY <2>1, <2>2, <2>3, <2>4
  <1>3. \A o \in Requests : request[o] = Idle
    OBVIOUS
  <1>4. ReportTypeOK
    <2>1. emitter \in Emitters
      BY DEF Resting, Emitters
    <2>2. request \in [Requests -> RequestRecords]
      BY IdleRecord
    <2>3. refusals \in RefusalRecords
      BY <1>1, <1>2 DEF RefusalRecords
    <2>4. mails \in [sent : Nat, row : [1..MaxMails -> Statuses]]
      BY DEF Statuses
    <2>5. now \in 0..MaxTime /\ lastFired \in Nat /\ life \in Nat /\ errors \in RowCounts
      BY <1>1, <1>2, ReportConstants
    <2>6. alerts \in Seq([at : Nat, life : Nat])
      OBVIOUS
    <2> QED BY <2>1, <2>2, <2>3, <2>4, <2>5, <2>6 DEF ReportTypeOK, RefusalRecords
  <1>5. ShapeInv
    BY <1>3, IdleRecord DEF ShapeInv
  <1>6. RefusalInv
    <2>1. {r \in Requests : Noted(request[r])} = {}
      BY <1>3, IdleRecord DEF Noted
    <2>2. Cardinality({r \in Requests : Noted(request[r])}) = 0
      BY <2>1, FS_EmptySet
    <2>3. /\ refusals.raised = 0 /\ refusals.logged = 0 /\ refusals.purged = 0
          /\ refusals.rows = zero
      BY <1>1
    <2>4. SumFunction(refusals.rows) = 0
      BY <1>2, <2>3
    <2> QED BY <2>2, <2>3, <2>4 DEF RefusalInv
  <1>7. MailInv
    <2>1. ~Recording(Idle) /\ \A i \in 1..MaxMails : mails.row[i] = "none"
      BY IdleRecord DEF Recording
    <2> QED BY <1>3, <2>1 DEF MailInv
  <1>8. CrossingInv
    <2>1. /\ Idle.stamp = 0 /\ Idle.asked = 0 /\ ~InTransaction(Idle) /\ ~Counted(Idle) /\ ~Decided(Idle)
      BY IdleRecord DEF InTransaction, Counted, Decided
    <2>2. lastFired = Never /\ now = 0
      OBVIOUS
    <2> QED BY <1>3, <2>1, <2>2 DEF CrossingInv
  <1> QED BY <1>4, <1>5, <1>6, <1>7, <1>8 DEF ReportInv

\* Every step of a request keeps the invariant.
LEMMA RequestStepInv ==
    ASSUME ReportInv, NEW r \in Requests, RequestStep(r) PROVE ReportInv'
  BY WaitStep, RefusedStep, FlushStep, CountStep, DecideStep, EvaluationStep, CommitStep, StoreStep,
     FailStep, NotifyStep, PortalStep, EmailStep, RecordStep, WebhookStep, WebhookLookupStep,
     RaiseStep, LookupStep, ApplyStep, RespondStep
     DEF RequestStep

\* Every step keeps the invariant.
LEMMA ReportStepInv == ReportInv /\ [ReportingNext]_reportVars => ReportInv'
  <1> SUFFICES ASSUME ReportInv, [ReportingNext]_reportVars PROVE ReportInv'
    OBVIOUS
  <1>1. CASE \E r \in Requests : Send(r) \/ RefuseMint(r) \/ (\E c \in Callbacks : DeliverCallback(r, c))
    BY <1>1, ArrivalsStep
  <1>2. CASE \E r \in Requests : RequestStep(r)
    BY <1>2, RequestStepInv
  <1>3. CASE Emit \/ FlushOnce \/ AClose \/ SendFails
    BY <1>3, EmitterStep
  <1>4. CASE Tick \/ Dismiss \/ (\E cell \in Editable : SetPreference(cell)) \/ UNCHANGED reportVars
    BY <1>4, ClockStep
  <1>5. CASE PurgeExpired \/ PurgeForUser \/ Restart
    BY <1>5, PurgesStep, RestartStep
  <1> QED BY <1>1, <1>2, <1>3, <1>4, <1>5 DEF ReportingNext

(***************************************************************************)
(* The requests of telemetry and notifications go through their steps in   *)
(* order, one batch at a time has rows in its transaction, a mail is       *)
(* recorded once, and the process's dedupe mark always has its alert.      *)
(***************************************************************************)
THEOREM ReportsKeepInvariant == ReportingSpec => []ReportInv
  BY ReportInitInv, ReportStepInv, PTL DEF ReportingSpec

(***************************************************************************)
(* Every refusal that a customer was given has its server.mint_refused     *)
(* row, its log line, or was purged, although the request that was refused *)
(* rolls back: emit_mint_refused commits the row in a session of its own   *)
(* before the exception.                                                   *)
(***************************************************************************)
THEOREM RefusalsAreRecorded == ReportingSpec => []RefusalRecorded
  <1>1. ReportInv => RefusalRecorded
    <2> SUFFICES ASSUME ReportInv PROVE RefusalRecorded
      OBVIOUS
    <2> DEFINE A == {r \in Requests : Noted(request[r])}
    <2>1. A \in SUBSET Requests /\ A \in SUBSET A
      OBVIOUS
    <2>2. refusals.raised + Cardinality(A) <= Total(refusals)
      BY DEF ReportInv, RefusalInv, Total
    <2> HIDE DEF A
    <2>3. Cardinality(A) \in Nat
      BY <2>1, NotedCount
    <2>4. Total(refusals) \in Int /\ refusals.raised \in Nat
      BY TotalType DEF ReportInv, ReportTypeOK, RefusalRecords
    <2>5. refusals.raised <= Total(refusals)
      BY <2>2, <2>3, <2>4
    <2> QED BY <2>5 DEF RefusalRecorded, Total
  <1> QED BY <1>1, ReportsKeepInvariant, PTL

(***************************************************************************)
(* The status of a recorded mail changes only with a callback that was not *)
(* recorded before: neither a redelivered callback nor two in flight       *)
(* together, nor a late record of the send, changes it.                    *)
(***************************************************************************)
THEOREM RedeliveriesAreSilent == ReportingSpec => RedeliveryIsSilent
  <1>1. ASSUME ReportInv, [ReportingNext]_reportVars, NEW i \in 1..MaxMails,
               mails.row[i] # "none", mails'.row[i] # mails.row[i]
        PROVE  \E c \in callbacks' \ callbacks : c[1] = i
    <2>1. CASE \E r \in Requests : Apply(r)
      <3>1. PICK r \in Requests : Apply(r)
        BY <2>1
      <3>2. i = request[r].callback[1]
        BY <1>1, <3>1, ApplyRows
      <3> QED BY <3>1, <3>2 DEF Apply, Unrecorded
    <2>2. CASE \E r \in Requests : RecordEmailSend(r)
      <3>1. PICK r \in Requests : RecordEmailSend(r)
        BY <2>2
      <3>2. mails.row[request[r].message] = "none" /\ mails'.row[i] = mails.row[i]
        <4>1. Recording(request[r])
          BY <1>1, <3>1, AtStep DEF RecordEmailSend, Recording
        <4>2. mails.row[request[r].message] = "none" /\ mails.row \in [1..MaxMails -> Statuses]
          BY <1>1, <4>1 DEF ReportInv, MailInv, ReportTypeOK
        <4> QED BY <1>1, <3>1, <4>2 DEF RecordEmailSend
      <3> QED BY <1>1, <3>2
    <2>3. CASE \E r \in Requests : FireEmail(r)
      <3>1. mails'.row = mails.row
        BY <1>1, <2>3 DEF FireEmail, ReportInv, ReportTypeOK
      <3> QED BY <1>1, <3>1
    <2>4. ASSUME ~\E r \in Requests : Apply(r) \/ RecordEmailSend(r) \/ FireEmail(r)
          PROVE  mails' = mails
      <3>1. CASE \E r \in Requests : RequestStep(r)
        BY <2>4, <3>1 DEF RequestStep, rowVars, Begin, OpenIndependent, Refuse, Flush, Count, Decide,
           EvaluationFails, Respond, WebhookLookupFails, CommitIngest, StoreEvent, StepFails, Notify, FireInPortal, FireWebhook,
           Raise, RequestFails, LookupEvent
      <3>2. CASE \E r \in Requests : Send(r) \/ RefuseMint(r) \/ (\E c \in Callbacks : DeliverCallback(r, c))
        BY <3>2 DEF Send, RefuseMint, DeliverCallback, rowVars
      <3>3. CASE ~(\E r \in Requests : RequestStep(r))
                 /\ ~(\E r \in Requests : Send(r) \/ RefuseMint(r) \/ (\E c \in Callbacks : DeliverCallback(r, c)))
        BY <1>1, <3>3 DEF ReportingNext, Emit, FlushOnce, AClose, SendFails, SetPreference, Dismiss,
           PurgeExpired, PurgeForUser, Purge, Tick, Restart, reportVars, rowVars
      <3> QED BY <3>1, <3>2, <3>3
    <2> QED BY <1>1, <2>1, <2>2, <2>3, <2>4
  <1>2. ReportInv /\ [ReportingNext]_reportVars =>
          (\A i \in 1..MaxMails : mails.row[i] /= "none" /\ mails'.row[i] /= mails.row[i]
              => \E c \in callbacks' \ callbacks : c[1] = i)
    BY <1>1
  <1> QED BY <1>2, ReportsKeepInvariant, PTL DEF ReportingSpec, RedeliveryIsSilent

\* A commit adds the batch to the window it was judged by, or misses it.
LEMMA CommitAdds ==
    ASSUME NEW rows \in RowCounts, NEW more \in RowCounts, NEW n \in 0..MaxTime, NEW b \in Nat,
           NEW a \in 0..MaxTime, more[n] = rows[n] + b, \A t \in (0..MaxTime) \ {n} : rows[t] = more[t]
    PROVE  LET own == IF n + Window >= a THEN b ELSE 0
           IN  /\ SumFunctionOnSet(more, InWindow(a)) \in Int
               /\ SumFunctionOnSet(rows, InWindow(a)) \in Int
               /\ SumFunctionOnSet(more, InWindow(a)) <= SumFunctionOnSet(rows, InWindow(a)) + own
  <1>1. PICK W : W = InWindow(a)
    OBVIOUS
  <1>2. /\ W \subseteq 0..MaxTime /\ IsFiniteSet(W) /\ SumFunctionOnSet(rows, W) \in Int
        /\ SumFunctionOnSet(more, W) \in Int
    BY <1>1, WindowSum
  <1>3. IsFiniteSet(W) /\ \A t \in W : rows[t] \in Int /\ more[t] \in Int
    BY <1>2 DEF RowCounts
  <1>4. CASE n \in W
    <2>1. \A t \in W \ {n} : rows[t] = more[t]
      BY <1>2
    <2>2. SumFunctionOnSet(more, W) = SumFunctionOnSet(rows, W) - rows[n] + more[n]
      <3>1. PICK f : f = rows
        OBVIOUS
      <3>2. PICK g : g = more
        OBVIOUS
      <3>3. PICK x : x = n
        OBVIOUS
      <3>4. /\ IsFiniteSet(W) /\ x \in W /\ \A t \in W : f[t] \in Int /\ g[t] \in Int
            /\ \A t \in W \ {x} : f[t] = g[t]
        BY <1>3, <1>4, <2>1, <3>1, <3>2, <3>3
      <3>5. SumFunctionOnSet(g, W) = SumFunctionOnSet(f, W) - f[x] + g[x]
        BY <3>4, SumChanges
      <3> QED BY <3>1, <3>2, <3>3, <3>5
    <2>3. n + Window >= a
      BY <1>1, <1>4 DEF InWindow
    <2>4. rows[n] \in Int
      BY <1>3, <1>4
    <2> QED BY <1>1, <1>2, <2>2, <2>3, <2>4
  <1>5. CASE n \notin W
    <2>1. \A t \in W : rows[t] = more[t]
      BY <1>2, <1>5
    <2>2. SumFunctionOnSet(rows, W) = SumFunctionOnSet(more, W)
      BY <1>3, <2>1, SumSame
    <2> QED BY <1>1, <1>2, <2>2
  <1> QED BY <1>4, <1>5

(***************************************************************************)
(* A batch that leaves Threshold errors in the window it was judged by has *)
(* an alert of this process less than a window old, its own or an earlier  *)
(* one: purges, restarts, lost batches, the dedupe mark and batches that   *)
(* arrive together hide no crossing.                                       *)
(***************************************************************************)
THEOREM CrossingsAreReported == ReportingSpec => CrossingIsReported
  <1>1. ASSUME ReportInv, [ReportingNext]_reportVars, NEW r \in Requests, Todo(r, "commit"),
               request'[r] = Idle, errors' # errors,
               SumFunctionOnSet(errors', InWindow(request[r].asked)) >= Threshold
        PROVE  Reported(request[r])
    <2>1. PICK q : q = request[r]
      OBVIOUS
    <2>2. /\ q \in RequestRecords /\ q # Idle /\ Decided(q) /\ Counted(q)
      BY <1>1, <2>1, AtStep, Heads, LateHeads, IdleRecord DEF Decided
    <2>3. CommitIngest(r)
      <3>1. CASE \E o \in Requests : CommitIngest(o)
        <4>1. PICK o \in Requests : CommitIngest(o)
          BY <3>1
        <4>2. request' = [request EXCEPT ![o] = Idle] /\ request \in [Requests -> RequestRecords]
          BY <1>1, <4>1 DEF CommitIngest, End, ReportInv, ReportTypeOK
        <4>3. o = r
          BY <1>1, <2>1, <2>2, <4>2
        <4> QED BY <4>1, <4>3
      <3>2. CASE PurgeExpired \/ PurgeForUser
        BY <1>1, <2>1, <2>2, <3>2 DEF PurgeExpired, PurgeForUser, Purge
      <3>3. ASSUME ~(\E o \in Requests : CommitIngest(o)), ~(PurgeExpired \/ PurgeForUser)
            PROVE  errors' = errors
        <4>1. CASE \E o \in Requests : RequestStep(o)
          BY <3>3, <4>1 DEF RequestStep, rowVars, Begin, OpenIndependent, Refuse, Flush, Count, Decide,
             EvaluationFails, Respond, WebhookLookupFails, StoreEvent, StepFails, Notify, FireInPortal, FireWebhook,
             Raise, RequestFails, LookupEvent, Apply, FireEmail, RecordEmailSend
        <4>2. CASE \E o \in Requests : Send(o) \/ RefuseMint(o) \/ (\E c \in Callbacks : DeliverCallback(o, c))
          BY <4>2 DEF Send, RefuseMint, DeliverCallback, rowVars
        <4>3. CASE ~(\E o \in Requests : RequestStep(o))
                   /\ ~(\E o \in Requests : Send(o) \/ RefuseMint(o) \/ (\E c \in Callbacks : DeliverCallback(o, c)))
          BY <1>1, <3>3, <4>3 DEF ReportingNext, Emit, FlushOnce, AClose, SendFails, SetPreference,
             Dismiss, Tick, Restart, reportVars, rowVars
        <4> QED BY <4>1, <4>2, <4>3
      <3> QED BY <1>1, <3>1, <3>2, <3>3
    <2>4. ~q.aborted
      BY <1>1, <2>1, <2>3 DEF CommitIngest
    <2>5. PICK n : n = q.stamp
      OBVIOUS
    <2>6. PICK b : b = q.batch
      OBVIOUS
    <2>7. PICK a : a = q.asked
      OBVIOUS
    <2>8. n \in 0..MaxTime /\ a \in 0..MaxTime /\ b \in Nat /\ q.seen \in Nat
      <3>1. n \in Nat /\ a \in Nat /\ b \in Nat /\ q.seen \in Nat
        BY <2>2, <2>5, <2>6, <2>7 DEF RequestRecords
      <3>2. n <= now /\ a <= now /\ now \in 0..MaxTime /\ MaxTime \in Nat
        BY <1>1, <2>1, <2>5, <2>7, ReportConstants DEF ReportInv, CrossingInv, ReportTypeOK
      <3> QED BY <3>1, <3>2
    <2>9. errors \in RowCounts /\ errors' = [errors EXCEPT ![n] = errors[n] + b]
      BY <1>1, <2>1, <2>3, <2>4, <2>5, <2>6 DEF CommitIngest, ReportInv, ReportTypeOK
    <2>10. PICK own : own = IF n + Window >= a THEN b ELSE 0
      OBVIOUS
    <2>11. own = Own(q) /\ own \in Nat
      BY <2>5, <2>6, <2>7, <2>8, <2>10 DEF Own
    <2>12. SumFunctionOnSet(errors, InWindow(a)) + own <= q.seen
      BY <1>1, <2>1, <2>2, <2>4, <2>7, <2>11 DEF ReportInv, CrossingInv
    <2>13. /\ errors' \in RowCounts /\ errors'[n] = errors[n] + b
           /\ \A t \in (0..MaxTime) \ {n} : errors[t] = errors'[t]
      BY <2>8, <2>9 DEF RowCounts
    <2>14. /\ SumFunctionOnSet(errors', InWindow(a)) \in Int /\ SumFunctionOnSet(errors, InWindow(a)) \in Int
           /\ SumFunctionOnSet(errors', InWindow(a)) <= SumFunctionOnSet(errors, InWindow(a)) + own
      <3>1. PICK rows : rows = errors
        OBVIOUS
      <3>2. PICK more : more = errors'
        OBVIOUS
      <3>3. /\ rows \in RowCounts /\ more \in RowCounts /\ more[n] = rows[n] + b
            /\ \A t \in (0..MaxTime) \ {n} : rows[t] = more[t]
        BY <2>9, <2>13, <3>1, <3>2
      <3>4. /\ SumFunctionOnSet(more, InWindow(a)) \in Int /\ SumFunctionOnSet(rows, InWindow(a)) \in Int
            /\ SumFunctionOnSet(more, InWindow(a)) <= SumFunctionOnSet(rows, InWindow(a)) + own
        BY <2>8, <2>10, <3>3, CommitAdds
      <3> QED BY <3>1, <3>2, <3>4
    <2>15. q.seen >= Threshold
      BY <1>1, <2>1, <2>7, <2>8, <2>11, <2>12, <2>14, ReportConstants
    <2> QED BY <1>1, <2>1, <2>2, <2>4, <2>15 DEF ReportInv, CrossingInv
  <1>2. ReportInv /\ [ReportingNext]_reportVars =>
          (\A r \in Requests :
              LET q == request[r]
              IN  /\ Todo(r, "commit") /\ request'[r] = Idle /\ errors' /= errors
                  /\ SumFunctionOnSet(errors', InWindow(q.asked)) >= Threshold
                  => \E i \in 1..Len(alerts) :
                        alerts[i].life = life /\ q.asked < alerts[i].at + Window)
    BY <1>1 DEF Reported
  <1> QED BY <1>2, ReportsKeepInvariant, PTL DEF ReportingSpec, CrossingIsReported
=============================================================================
