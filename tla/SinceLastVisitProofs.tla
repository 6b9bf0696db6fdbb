------------------------ MODULE SinceLastVisitProofs ------------------------
(***************************************************************************)
(* Proofs about SinceLastVisit for any number of check runs and tabs, any   *)
(* lookback and any length of time.                                         *)
(*                                                                          *)
(* A watermark that was once stored must be known to cover, for good, every *)
(* run stamped by then (WatermarkInv), whichever tab stores the next one;   *)
(* and what a page is about to store must cover them already (PageInv).     *)
(***************************************************************************)
EXTENDS Deployment, TLAPS

---------------------------------------------------------------------------
(* The inductive invariant *)

\* Instants are past, and a run commits no earlier than it is stamped.
TimeInv ==
    /\ \A r \in Runs :
          /\ run[r] = "open" <=> completedAt[r] = Null
          /\ run[r] = "committed" <=> committedAt[r] # Null
          /\ completedAt[r] # Null => completedAt[r] <= clock
          /\ committedAt[r] # Null => committedAt[r] <= clock
    /\ \A t \in Tabs : through[t] <= clock
    /\ \A w \in watermarks : w <= clock

\* What the browser keeps was stored by some page.
StoredInv ==
    /\ checkpoint # Null => checkpoint \in watermarks
    /\ \A t \in Tabs : after[t] # Null => after[t] \in watermarks

\* w fell between r's stamp and its commit, which may still be to come.
Straddles(w, r) == completedAt[r] <= w /\ (run[r] = "committed" => w <= committedAt[r])

StampedBy(r, w) == run[r] # "open" /\ completedAt[r] <= w

Accounted(r) == r \in shown \cup beyond \/ \E w \in watermarks : Straddles(w, r)

WatermarkInv == \A w \in watermarks, r \in Runs : StampedBy(r, w) => Accounted(r)

PageInv ==
    \A t \in Tabs, r \in Runs : StampedBy(r, through[t]) =>
        /\ tab[t] = "loaded" =>
              \/ r \in found[t]
              \/ run[r] = "committed" /\ completedAt[r] <= EffectiveAfter(after[t], through[t])
              \/ Straddles(through[t], r)
        /\ tab[t] = "rendered" =>
              \/ r \in shown \cup beyond
              \/ after[t] # Null /\ completedAt[r] <= after[t]
              \/ Straddles(through[t], r)

IInv == VisitTypeOK /\ TimeInv /\ StoredInv /\ WatermarkInv /\ PageInv

---------------------------------------------------------------------------
(* Every step preserves it *)

\* The initial state satisfies the invariant.
LEMMA InitIInv == VisitInit => IInv
  BY NullAssumption, LookbackAssumption DEF VisitInit, IInv, VisitTypeOK, Instant, TimeInv, StoredInv,
     WatermarkInv, PageInv, StampedBy, Accounted, Straddles

\* Every step keeps the invariant.
LEMMA NextIInv == IInv /\ [VisitNext]_visitVars => IInv'
  <1> SUFFICES ASSUME IInv, [VisitNext]_visitVars PROVE IInv'
    OBVIOUS
  <1> USE NullAssumption, LookbackAssumption
      DEF IInv, Instant, checkRuns, pages, readerHistory
  <1>1. CASE Tick
    <2>1. VisitTypeOK' /\ TimeInv' /\ StoredInv'
      BY <1>1 DEF VisitTypeOK, TimeInv, StoredInv, Tick
    <2>2. WatermarkInv'
      BY <1>1 DEF VisitTypeOK, TimeInv, StoredInv, WatermarkInv, PageInv, StampedBy, Accounted, Straddles, Tick
    <2>3. PageInv'
      BY <1>1 DEF VisitTypeOK, TimeInv, StoredInv, PageInv, EffectiveAfter, FirstVisit, LookbackClamped,
         StampedBy, Straddles, Tick
    <2> QED BY <2>1, <2>2, <2>3
  <1>2. ASSUME NEW r \in Runs, StampRun(r)
       PROVE  IInv'
    <2>1. VisitTypeOK' /\ TimeInv' /\ StoredInv'
      BY <1>2 DEF VisitTypeOK, TimeInv, StoredInv, StampRun
    <2>2. WatermarkInv'
      BY <1>2 DEF VisitTypeOK, TimeInv, StoredInv, WatermarkInv, PageInv, StampedBy, Accounted, Straddles, StampRun
    <2>3. PageInv'
      BY <1>2 DEF VisitTypeOK, TimeInv, StoredInv, PageInv, EffectiveAfter, FirstVisit, LookbackClamped,
         StampedBy, Straddles, StampRun
    <2> QED BY <2>1, <2>2, <2>3
  <1>3. ASSUME NEW r \in Runs, CommitRun(r)
       PROVE  IInv'
    <2>1. VisitTypeOK' /\ TimeInv' /\ StoredInv'
      BY <1>3 DEF VisitTypeOK, TimeInv, StoredInv, CommitRun
    <2>2. WatermarkInv'
      BY <1>3 DEF VisitTypeOK, TimeInv, StoredInv, WatermarkInv, PageInv, StampedBy, Accounted, Straddles, CommitRun
    <2>3. PageInv'
      BY <1>3 DEF VisitTypeOK, TimeInv, StoredInv, PageInv, EffectiveAfter, FirstVisit, LookbackClamped,
         StampedBy, Straddles, CommitRun
    <2> QED BY <2>1, <2>2, <2>3
  <1>4. ASSUME NEW r \in Runs, RollBackRun(r)
       PROVE  IInv'
    <2>1. VisitTypeOK' /\ TimeInv' /\ StoredInv'
      BY <1>4 DEF VisitTypeOK, TimeInv, StoredInv, RollBackRun
    <2>2. WatermarkInv'
      BY <1>4 DEF VisitTypeOK, TimeInv, StoredInv, WatermarkInv, PageInv, StampedBy, Accounted, Straddles, RollBackRun
    <2>3. PageInv'
      BY <1>4 DEF VisitTypeOK, TimeInv, StoredInv, PageInv, EffectiveAfter, FirstVisit, LookbackClamped,
         StampedBy, Straddles, RollBackRun
    <2> QED BY <2>1, <2>2, <2>3
  <1>5. ASSUME NEW t \in Tabs, Ask(t)
       PROVE  IInv'
    <2>1. VisitTypeOK' /\ TimeInv' /\ StoredInv'
      BY <1>5 DEF VisitTypeOK, TimeInv, StoredInv, Ask
    <2>2. WatermarkInv'
      BY <1>5 DEF VisitTypeOK, TimeInv, StoredInv, WatermarkInv, PageInv, StampedBy, Accounted, Straddles, Ask
    <2>3. PageInv'
      BY <1>5 DEF VisitTypeOK, TimeInv, StoredInv, PageInv, EffectiveAfter, FirstVisit, LookbackClamped,
         StampedBy, Straddles, Ask
    <2> QED BY <2>1, <2>2, <2>3
  <1>6. ASSUME NEW t \in Tabs, TakeWatermark(t)
       PROVE  IInv'
    <2>1. VisitTypeOK' /\ TimeInv' /\ StoredInv'
      BY <1>6 DEF VisitTypeOK, TimeInv, StoredInv, TakeWatermark
    <2>2. WatermarkInv'
      BY <1>6 DEF VisitTypeOK, TimeInv, StoredInv, WatermarkInv, PageInv, StampedBy, Accounted, Straddles, TakeWatermark
    <2>3. PageInv'
      BY <1>6 DEF VisitTypeOK, TimeInv, StoredInv, PageInv, EffectiveAfter, FirstVisit, LookbackClamped,
         StampedBy, Straddles, TakeWatermark
    <2> QED BY <2>1, <2>2, <2>3
  <1>7. ASSUME NEW t \in Tabs, Query(t)
       PROVE  IInv'
    <2>1. VisitTypeOK' /\ TimeInv' /\ StoredInv'
      BY <1>7 DEF VisitTypeOK, TimeInv, StoredInv, Query, CompletedInWindow
    <2>2. WatermarkInv'
      BY <1>7 DEF VisitTypeOK, TimeInv, StoredInv, WatermarkInv, PageInv, StampedBy, Accounted, Straddles, Query, CompletedInWindow
    <2>3. PageInv'
      BY <1>7 DEF VisitTypeOK, TimeInv, StoredInv, PageInv, EffectiveAfter, FirstVisit, LookbackClamped,
         StampedBy, Straddles, Query, CompletedInWindow
    <2> QED BY <2>1, <2>2, <2>3
  <1>8. ASSUME NEW t \in Tabs, Render(t)
       PROVE  IInv'
    <2>1. VisitTypeOK' /\ TimeInv' /\ StoredInv'
      BY <1>8 DEF VisitTypeOK, TimeInv, StoredInv, Render
    <2>2. WatermarkInv'
      BY <1>8 DEF VisitTypeOK, TimeInv, StoredInv, WatermarkInv, PageInv, StampedBy, Accounted, Straddles, Render
    <2>3. PageInv'
      BY <1>8 DEF VisitTypeOK, TimeInv, StoredInv, PageInv, EffectiveAfter, FirstVisit, LookbackClamped,
         StampedBy, Straddles, Render
    <2> QED BY <2>1, <2>2, <2>3
  <1>9. ASSUME NEW t \in Tabs, Acknowledge(t)
       PROVE  IInv'
    <2>1. VisitTypeOK' /\ TimeInv' /\ StoredInv'
      <3>1. VisitTypeOK'
        <4>1. through[t] \in Instant /\ 0 \in Instant
          BY DEF VisitTypeOK
        <4>2. UNCHANGED <<clock, run, completedAt, committedAt, shown, beyond>>
              /\ checkpoint' = through[t] /\ watermarks' = watermarks \cup {through[t]}
          BY <1>9 DEF Acknowledge
        <4>3. tab' \in [Tabs -> {"idle", "asking", "answering", "loaded", "rendered"}]
              /\ after' \in [Tabs -> Instant \cup {Null}]
              /\ through' \in [Tabs -> Instant] /\ found' \in [Tabs -> SUBSET Runs]
          BY <1>9, <4>1 DEF VisitTypeOK, Acknowledge, Forget
        <4> QED BY <4>1, <4>2, <4>3 DEF VisitTypeOK
      <3>2. TimeInv'
        BY <1>9 DEF VisitTypeOK, TimeInv, Acknowledge, Forget
      <3>3. StoredInv'
        BY <1>9 DEF VisitTypeOK, StoredInv, Acknowledge, Forget
      <3> QED BY <3>1, <3>2, <3>3
    <2>2. WatermarkInv'
      BY <1>9 DEF VisitTypeOK, TimeInv, StoredInv, WatermarkInv, PageInv, StampedBy, Accounted, Straddles, Acknowledge, Forget
    <2>3. PageInv'
      BY <1>9 DEF VisitTypeOK, TimeInv, StoredInv, PageInv, EffectiveAfter, FirstVisit, LookbackClamped,
         StampedBy, Straddles, Acknowledge, Forget
    <2> QED BY <2>1, <2>2, <2>3
  <1>10. ASSUME NEW t \in Tabs, Leave(t)
       PROVE  IInv'
    <2>1. VisitTypeOK' /\ TimeInv' /\ StoredInv'
      BY <1>10 DEF VisitTypeOK, TimeInv, StoredInv, Leave, Forget
    <2>2. WatermarkInv'
      BY <1>10 DEF VisitTypeOK, TimeInv, StoredInv, WatermarkInv, PageInv, StampedBy, Accounted, Straddles, Leave, Forget
    <2>3. PageInv'
      BY <1>10 DEF VisitTypeOK, TimeInv, StoredInv, PageInv, EffectiveAfter, FirstVisit, LookbackClamped,
         StampedBy, Straddles, Leave, Forget
    <2> QED BY <2>1, <2>2, <2>3
  <1>11. CASE LoseCheckpoint
    <2>1. VisitTypeOK' /\ TimeInv' /\ StoredInv'
      BY <1>11 DEF VisitTypeOK, TimeInv, StoredInv, LoseCheckpoint
    <2>2. WatermarkInv'
      BY <1>11 DEF VisitTypeOK, TimeInv, StoredInv, WatermarkInv, PageInv, StampedBy, Accounted, Straddles, LoseCheckpoint
    <2>3. PageInv'
      BY <1>11 DEF VisitTypeOK, TimeInv, StoredInv, PageInv, EffectiveAfter, FirstVisit, LookbackClamped,
         StampedBy, Straddles, LoseCheckpoint
    <2> QED BY <2>1, <2>2, <2>3
  <1>12. CASE UNCHANGED visitVars
    <2>1. VisitTypeOK' /\ TimeInv' /\ StoredInv'
      BY <1>12 DEF VisitTypeOK, TimeInv, StoredInv, visitVars
    <2>2. WatermarkInv'
      BY <1>12 DEF VisitTypeOK, TimeInv, StoredInv, WatermarkInv, PageInv, StampedBy, Accounted, Straddles, visitVars
    <2>3. PageInv'
      BY <1>12 DEF VisitTypeOK, TimeInv, StoredInv, PageInv, EffectiveAfter, FirstVisit, LookbackClamped,
         StampedBy, Straddles, visitVars
    <2> QED BY <2>1, <2>2, <2>3
  <1> QED
    BY <1>1, <1>2, <1>3, <1>4, <1>5, <1>6, <1>7, <1>8, <1>9, <1>10, <1>11, <1>12 DEF VisitNext

---------------------------------------------------------------------------
(* The theorems *)

\* The visits do what SinceLastVisit says, and every other part what Services
\* says, so that the theorems about either hold of the two side by side.
LEMMA SideBySide == DeploymentSpec => VisitSpec /\ Spec
<1>1. DeploymentInit => VisitInit /\ Init
  BY DEF DeploymentInit
<1>2. [DeploymentNext]_deploymentVars => [VisitNext]_visitVars
  BY DEF DeploymentNext, deploymentVars
<1>3. [DeploymentNext]_deploymentVars => [Next]_vars
  BY DEF DeploymentNext, deploymentVars
<1> QED  BY <1>1, <1>2, <1>3, PTL DEF DeploymentSpec, VisitSpec, Spec

\* The inductive invariant always holds.
THEOREM Inductive == VisitSpec => []IInv
  BY InitIInv, NextIInv, PTL DEF VisitSpec

\* Every variable keeps its type, for any runs, tabs and lookback.
THEOREM TypeCorrect == DeploymentSpec => []VisitTypeOK
  BY SideBySide, Inductive, PTL DEF IInv

\* A check run is never lost to the reader except when a stored watermark
\* fell between its completed_at and its commit.
THEOREM LossIsStraddling == DeploymentSpec => []LostOnlyIfStraddled
  <1>1. IInv => LostOnlyIfStraddled
    BY DEF IInv, StoredInv, WatermarkInv, StampedBy, Accounted, Straddles, LostOnlyIfStraddled, Lost
  <1> QED BY <1>1, SideBySide, Inductive, PTL
=============================================================================
