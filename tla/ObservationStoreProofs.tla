----------------------- MODULE ObservationStoreProofs -----------------------
(***************************************************************************)
(* The inductive invariant of ObservationStore and the theorems that       *)
(* follow from it, for any set of observations, values and writers.        *)
(***************************************************************************)
EXTENDS ObservationStore, TLAPS

(* The committed history *)

\* An observation has one version per starting instant.
Keyed ==
    \A u, v \in versions :
        (u.obs = v.obs /\ u.recorded_from = v.recorded_from) => u = v

\* A version is closed no later than the next one starts.
Ordered ==
    \A u, v \in versions :
        (u.obs = v.obs /\ u.recorded_from < v.recorded_from)
            => u.recorded_to \in Nat /\ u.recorded_to <= v.recorded_from

\* A closed interval is a forward one.
Forward == \A v \in versions : v.recorded_to # Null => v.recorded_from < v.recorded_to

\* An observation with a history has an open version, and the row holds its value.
Continued ==
    \A v \in versions :
        \E u \in versions : /\ u.obs = v.obs
                            /\ u.recorded_to = Null
                            /\ observations[v.obs] = u.value

\* Some version is live at every instant from the first version on.
Covered ==
    \A o \in Obs : \A t \in Nat :
        (\E v \in versions : v.obs = o /\ v.recorded_from <= t) => AsOf(o, t) # {}

HistoryInv == Keyed /\ Ordered /\ Forward /\ Continued /\ Covered /\ OnlyFirstVersionIsImported

(* The sessions *)

\* A session has one value to apply per observation, and none for an
\* observation it has flushed; outside apply() it has flushed nothing.
OneWriteEach ==
    \A w \in Writers :
        /\ \A i, j \in todo[w] : i.obs = j.obs => i = j
        /\ \A i \in todo[w] : \A p \in pending[w] : i.obs # p.obs
        /\ pc[w] \in {"idle", "detecting"} => pending[w] = {}
        /\ pc[w] \in {"revising", "flushing"} => item[w] \in todo[w]

\* What a session knows when it revises a row and when it is about to flush.
ReadyToFlush ==
    \A w \in Writers :
        /\ pc[w] = "revising" => existing[w] # Null
        /\ pc[w] = "flushing" /\ existing[w] = Null => openVersion[w] = Null
        /\ pc[w] = "flushing" /\ openVersion[w] # Null =>
              /\ openVersion[w] < item[w].at
              /\ \E v \in versions : v.obs = item[w].obs

\* A row is locked by the one session that has flushed it.
RowsLocked ==
    \A u, w \in Writers : \A p \in pending[u] : \A q \in pending[w] :
        p.obs = q.obs => u = w /\ p = q

NoHistory(o) == \A v \in versions : v.obs # o

\* A flushed write extends the history it will be committed into.
PendingExtends ==
    \A w \in Writers : \A p \in pending[w] :
        /\ p.closes = Null => NoHistory(p.obs)
        /\ p.closes # Null =>
              /\ p.closes < p.at
              /\ \E v \in versions : /\ v.obs = p.obs
                                     /\ v.recorded_to = Null
                                     /\ v.recorded_from = p.closes
        /\ p.is_backfilled \/ p.change_type # "REVISED" => NoHistory(p.obs)

SessionInv == OneWriteEach /\ ReadyToFlush /\ RowsLocked /\ PendingExtends

IInv == TypeOK /\ HistoryInv /\ SessionInv

---------------------------------------------------------------------------
(* Types *)

LEMMA InitTypeOK == Init => TypeOK
<1> SUFFICES ASSUME Init PROVE TypeOK
  OBVIOUS
<1>1. PICK S \in SUBSET {o \in Obs : observations[o] # Null} :
          versions = {Backfill(o, observations[o]) : o \in S}
  BY DEF Init
<1>2. ASSUME NEW o \in S PROVE Backfill(o, observations[o]) \in Version
  <2>1. o \in Obs /\ observations[o] \in Values
    BY DEF Init
  <2> QED BY <2>1 DEF Backfill, Version
<1>3. versions \in SUBSET Version
  BY <1>1, <1>2
<1> QED BY <1>3 DEF Init, TypeOK, Phases

\* Abandoning a transaction leaves every variable in its type.
LEMMA AbandonTypeOK ==
  ASSUME TypeOK, NEW w \in Writers, Abandon(w) PROVE TypeOK'
BY DEF TypeOK, Abandon, store, Phases

LEMMA StampedType ==
  ASSUME TypeOK, NEW answer \in Answers, NEW imported
  PROVE  /\ Stamped(answer, imported) \in SUBSET Write
         /\ \A i \in Stamped(answer, imported) : i.obs \in DOMAIN answer
         /\ \A i, j \in Stamped(answer, imported) : i.obs = j.obs => i = j
<1>1. PICK S \in SUBSET Obs : answer \in [S -> Values]
  BY DEF Answers
<1>2. clock \in Nat
  BY DEF TypeOK
<1>3. ASSUME NEW o \in DOMAIN answer
      PROVE  [obs |-> o, value |-> answer[o], at |-> clock, baseline |-> o \in imported]
                \in Write
  <2>1. (o \in imported) \in BOOLEAN
    OBVIOUS
  <2>2. o \in Obs /\ answer[o] \in Values
    BY <1>1
  <2> QED BY <1>2, <2>1, <2>2, Zenon DEF Write
<1>4. Stamped(answer, imported) \in SUBSET Write
  BY <1>3, Zenon DEF Stamped
<1>5. \A i \in Stamped(answer, imported) :
         \E o \in DOMAIN answer :
            i = [obs |-> o, value |-> answer[o], at |-> clock, baseline |-> o \in imported]
  BY Zenon DEF Stamped
<1>6. \A i \in Stamped(answer, imported) :
         /\ i.obs \in DOMAIN answer
         /\ i = [obs |-> i.obs, value |-> answer[i.obs], at |-> clock,
                 baseline |-> i.obs \in imported]
  <2>1. TAKE i \in Stamped(answer, imported)
  <2>2. PICK o \in DOMAIN answer :
           i = [obs |-> o, value |-> answer[o], at |-> clock, baseline |-> o \in imported]
    BY <1>5
  <2>3. i.obs = o
    BY <2>2
  <2> QED BY <2>2, <2>3, Zenon
<1> QED BY <1>4, <1>6, Zenon

\* Committing publishes rows and versions of the right shape.
LEMMA CommitTypeOK ==
  ASSUME TypeOK, NEW w \in Writers, Commit(w) PROVE TypeOK'
<1>1. pending[w] \in SUBSET Flushed
  BY DEF TypeOK
<1>2. ASSUME NEW v \in versions PROVE Closed(w, v) \in Version
  <2>1. v \in Version
    BY DEF TypeOK
  <2>2. CASE \E p \in pending[w] : p.obs = v.obs /\ p.closes = v.recorded_from
    <3> DEFINE p == CHOOSE q \in pending[w] : q.obs = v.obs /\ q.closes = v.recorded_from
    <3>1. p \in pending[w]
      BY <2>2
    <3>2. p.at \in Nat
      BY <3>1, <1>1 DEF Flushed
    <3>3. Closed(w, v) = [v EXCEPT !.recorded_to = p.at]
      BY <2>2 DEF Closed
    <3> QED BY <2>1, <3>2, <3>3 DEF Version
  <2>3. CASE ~ \E p \in pending[w] : p.obs = v.obs /\ p.closes = v.recorded_from
    BY <2>1, <2>3 DEF Closed
  <2> QED BY <2>2, <2>3
<1>3. ASSUME NEW p \in pending[w] PROVE Opened(p) \in Version
  <2>1. p \in Flushed
    BY <1>1
  <2> QED BY <2>1 DEF Opened, Flushed, Version
<1>4. versions' \in SUBSET Version
  BY <1>2, <1>3 DEF Commit
<1>5. ASSUME NEW o \in Obs PROVE RowAfter(w, o) \in Values \cup {Null}
  <2>1. CASE \E p \in pending[w] : p.obs = o
    <3> DEFINE p == CHOOSE q \in pending[w] : q.obs = o
    <3>1. p \in pending[w]
      BY <2>1
    <3> QED BY <2>1, <3>1, <1>1 DEF RowAfter, Flushed
  <2>2. CASE ~ \E p \in pending[w] : p.obs = o
    BY <2>2 DEF RowAfter, TypeOK
  <2> QED BY <2>1, <2>2
<1>6. observations' \in [Obs -> Values \cup {Null}]
  BY <1>5 DEF Commit
<1> QED BY <1>4, <1>6 DEF Commit, TypeOK, Phases

LEMMA WriterTypeOK ==
  ASSUME TypeOK, NEW w \in Writers, WriterNext(w) PROVE TypeOK'
<1> USE DEF Phases, store, locals
<1>1. ASSUME NEW answer \in Answers, NEW imported \in SUBSET DOMAIN answer,
             Detect(w, answer, imported)
      PROVE TypeOK'
  BY <1>1, StampedType DEF TypeOK, Detect
<1>2. ASSUME NEW answer \in Answers, DetectAnotherSeries(w, answer) PROVE TypeOK'
  BY <1>2, StampedType DEF TypeOK, DetectAnotherSeries
<1>3. CASE StartApplying(w)
  BY <1>3 DEF TypeOK, StartApplying
<1>4. ASSUME NEW i \in todo[w], ConfirmUnchanged(w, i) PROVE TypeOK'
  BY <1>4 DEF TypeOK, ConfirmUnchanged
<1>5. ASSUME NEW i \in todo[w], FindNoRow(w, i) PROVE TypeOK'
  BY <1>5, NullAssumption DEF TypeOK, FindNoRow
<1>6. ASSUME NEW i \in todo[w], FindOtherValue(w, i) PROVE TypeOK'
  <2>1. i \in Write
    BY DEF TypeOK
  <2>2. observations[i.obs] \in Values \cup {Null}
    BY <2>1 DEF TypeOK, Write
  <2> QED BY <1>6, <2>1, <2>2, NullAssumption DEF TypeOK, FindOtherValue
<1>7. CASE FindOpenVersion(w)
  <2>1. openVersion' \in [Writers -> Nat \cup {Null}]
    BY <1>7 DEF TypeOK, FindOpenVersion, OpenVersions, Version
  <2> QED BY <1>7, <2>1 DEF TypeOK, FindOpenVersion
<1>8. CASE RefuseBackdated(w)
  BY <1>8, AbandonTypeOK DEF RefuseBackdated
<1>9. CASE Flush(w)
  <2> DEFINE f == [obs |-> item[w].obs, value |-> item[w].value, at |-> item[w].at,
                   closes |-> openVersion[w],
                   change_type |-> IF existing[w] = Null THEN "NEW" ELSE "REVISED",
                   is_backfilled |-> item[w].baseline /\ existing[w] = Null]
  <2>1. item[w] \in Write
    BY <1>9 DEF TypeOK, Flush
  <2>2. TypeOK'
    <3>1. (item[w].baseline /\ existing[w] = Null) \in BOOLEAN
      BY DEF TypeOK
    <3>2. f \in Flushed
      BY <2>1, <3>1 DEF TypeOK, Flushed, Write
    <3>3. pending' = [pending EXCEPT ![w] = @ \cup {f}]
      BY <1>9 DEF Flush
    <3> HIDE DEF f
    <3> QED BY <1>9, <3>2, <3>3 DEF TypeOK, Flush
  <2> QED BY <2>2
<1>10. CASE FlushConflict(w)
  BY <1>10, AbandonTypeOK DEF FlushConflict
<1>11. CASE Commit(w)
  BY <1>11, CommitTypeOK
<1>12. CASE Rollback(w)
  BY <1>12, AbandonTypeOK DEF Rollback
<1> QED BY <1>1, <1>2, <1>3, <1>4, <1>5, <1>6, <1>7, <1>8, <1>9, <1>10, <1>11, <1>12
        DEF WriterNext

\* Every variable keeps its type, whatever the sessions do.
THEOREM TypeCorrect == Spec => []TypeOK
<1>1. TypeOK /\ [Next]_vars => TypeOK'
  <2> SUFFICES ASSUME TypeOK, [Next]_vars PROVE TypeOK'
    OBVIOUS
  <2>1. CASE Tick
    BY <2>1 DEF TypeOK, Tick, locals
  <2>2. ASSUME NEW w \in Writers, WriterNext(w) PROVE TypeOK'
    BY <2>2, WriterTypeOK
  <2>3. CASE UNCHANGED vars
    BY <2>3 DEF TypeOK, vars
  <2> QED BY <2>1, <2>2, <2>3 DEF Next
<1> QED BY InitTypeOK, <1>1, PTL DEF Spec

---------------------------------------------------------------------------
(* The initial states *)

LEMMA InitIInv == Init => IInv
<1> SUFFICES ASSUME Init PROVE HistoryInv /\ SessionInv
  BY InitTypeOK DEF IInv
<1>1. PICK S \in SUBSET {o \in Obs : observations[o] # Null} :
          versions = {Backfill(o, observations[o]) : o \in S}
  BY DEF Init
<1>2. \A v \in versions : /\ v = Backfill(v.obs, observations[v.obs])
                          /\ v.recorded_from = 0
                          /\ v.recorded_to = Null
                          /\ v.value = observations[v.obs]
  BY <1>1 DEF Backfill
<1>3. Keyed /\ Ordered /\ Forward /\ Continued /\ OnlyFirstVersionIsImported
  BY <1>2 DEF Keyed, Ordered, Forward, Continued, OnlyFirstVersionIsImported
<1>4. Covered
  BY <1>2 DEF Covered, AsOf
<1>5. SessionInv
  BY DEF Init, SessionInv, OneWriteEach, ReadyToFlush, RowsLocked, PendingExtends
<1> QED BY <1>3, <1>4, <1>5 DEF HistoryInv

---------------------------------------------------------------------------
(* Steps that leave the committed rows alone *)

LEMMA SameStore ==
  ASSUME HistoryInv, UNCHANGED store PROVE HistoryInv'
BY DEF HistoryInv, store, Keyed, Ordered, Forward, Continued, Covered, AsOf,
       OnlyFirstVersionIsImported

LEMMA AbandonSession ==
  ASSUME IInv, NEW w \in Writers, Abandon(w) PROVE SessionInv'
<1> USE DEF IInv, SessionInv, TypeOK, Abandon, store
<1>1. OneWriteEach'
  BY DEF OneWriteEach
<1>2. ReadyToFlush'
  BY DEF ReadyToFlush
<1>3. RowsLocked'
  BY DEF RowsLocked
<1>4. PendingExtends'
  BY DEF PendingExtends, NoHistory
<1> QED BY <1>1, <1>2, <1>3, <1>4

\* Before apply() flushes anything, a session only fetches and reads.
LEMMA DetectSession ==
  ASSUME IInv, NEW w \in Writers, NEW answer \in Answers,
         \/ \E imported \in SUBSET DOMAIN answer : Detect(w, answer, imported)
         \/ DetectAnotherSeries(w, answer)
  PROVE  SessionInv'
<1> USE DEF IInv, SessionInv, TypeOK, store, locals
<1>1. UNCHANGED <<versions, item, existing, openVersion, pending>>
  BY DEF Detect, DetectAnotherSeries
<1>2. pc' \in [Writers -> Phases] /\ \A u \in Writers \ {w} : pc'[u] = pc[u]
  BY DEF Detect, DetectAnotherSeries, Phases
<1>3. \A u \in Writers \ {w} : todo'[u] = todo[u]
  BY DEF Detect, DetectAnotherSeries
<1>4. pending[w] = {} /\ pc'[w] \in {"detecting", "applying"}
  BY DEF Detect, DetectAnotherSeries, OneWriteEach
<1>5. \A i, j \in todo'[w] : i.obs = j.obs => i = j
  <2>1. CASE \E imported \in SUBSET DOMAIN answer : Detect(w, answer, imported)
    BY <2>1, StampedType DEF Detect
  <2>2. CASE DetectAnotherSeries(w, answer)
    BY <2>2, StampedType DEF DetectAnotherSeries, OneWriteEach
  <2> QED BY <2>1, <2>2
<1>6. OneWriteEach'
  BY <1>1, <1>2, <1>3, <1>4, <1>5 DEF OneWriteEach
<1>7. ReadyToFlush'
  BY <1>1, <1>2, <1>4 DEF ReadyToFlush
<1>8. RowsLocked'
  BY <1>1 DEF RowsLocked
<1>9. PendingExtends'
  BY <1>1 DEF PendingExtends, NoHistory
<1> QED BY <1>6, <1>7, <1>8, <1>9

\* The SELECTs of apply() change only what their own session knows.
LEMMA SelectSession ==
  ASSUME IInv, NEW w \in Writers,
         \/ \E i \in todo[w] : \/ ConfirmUnchanged(w, i)
                               \/ FindNoRow(w, i)
                               \/ FindOtherValue(w, i)
         \/ FindOpenVersion(w)
  PROVE  SessionInv'
<1> USE DEF IInv, SessionInv, TypeOK, store
<1>1. UNCHANGED <<versions, pending>>
  BY DEF ConfirmUnchanged, FindNoRow, FindOtherValue, FindOpenVersion
<1>2. RowsLocked'
  BY <1>1 DEF RowsLocked
<1>3. PendingExtends'
  BY <1>1 DEF PendingExtends, NoHistory
<1>4. OneWriteEach'
  BY <1>1 DEF OneWriteEach, ConfirmUnchanged, FindNoRow, FindOtherValue, FindOpenVersion
<1>5. ReadyToFlush'
  <2>1. ASSUME NEW i \in todo[w], ConfirmUnchanged(w, i) PROVE ReadyToFlush'
    BY <2>1 DEF ConfirmUnchanged, ReadyToFlush
  <2>2. ASSUME NEW i \in todo[w], FindNoRow(w, i) PROVE ReadyToFlush'
    BY <2>2 DEF FindNoRow, ReadyToFlush
  <2>3. ASSUME NEW i \in todo[w], FindOtherValue(w, i) PROVE ReadyToFlush'
    BY <2>3 DEF FindOtherValue, ReadyToFlush
  <2>4. CASE FindOpenVersion(w)
    <3>1. UNCHANGED <<item, existing, versions>>
      BY <2>4 DEF FindOpenVersion
    <3>2. /\ \A u \in Writers \ {w} : pc'[u] = pc[u] /\ openVersion'[u] = openVersion[u]
          /\ existing[w] # Null
      BY <2>4 DEF FindOpenVersion, ReadyToFlush
    <3>3. openVersion'[w] # Null =>
             \E v \in versions : /\ v.obs = item[w].obs
                                /\ v.recorded_from = openVersion'[w]
                                /\ v.recorded_from < item[w].at
      BY <2>4 DEF FindOpenVersion, OpenVersions, Closable
    <3> QED BY <3>1, <3>2, <3>3 DEF ReadyToFlush
  <2> QED BY <2>1, <2>2, <2>3, <2>4
<1> QED BY <1>2, <1>3, <1>4, <1>5

\* A flush locks a free row, and what it flushed extends that row's history:
\* the unique indexes have refused everything else.
LEMMA FlushSession ==
  ASSUME IInv, NEW w \in Writers, Flush(w) PROVE SessionInv'
<1> USE DEF IInv, SessionInv
<1> DEFINE f == [obs |-> item[w].obs, value |-> item[w].value, at |-> item[w].at,
                 closes |-> openVersion[w],
                 change_type |-> IF existing[w] = Null THEN "NEW" ELSE "REVISED",
                 is_backfilled |-> item[w].baseline /\ existing[w] = Null]
<1>1. pending' = [pending EXCEPT ![w] = @ \cup {f}]
  BY DEF Flush
<1>2. /\ f.obs = item[w].obs /\ f.at = item[w].at /\ f.closes = openVersion[w]
      /\ f.change_type # "REVISED" => existing[w] = Null
      /\ f.is_backfilled => existing[w] = Null
  OBVIOUS
<1> HIDE DEF f
<1>3. /\ item[w] \in todo[w] /\ item[w] \in Write
      /\ todo' = [todo EXCEPT ![w] = @ \ {item[w]}]
      /\ pc' = [pc EXCEPT ![w] = "applying"]
      /\ UNCHANGED <<observations, versions>>
      /\ \A u \in Writers \ {w} :
            item'[u] = item[u] /\ existing'[u] = existing[u] /\ openVersion'[u] = openVersion[u]
  BY DEF Flush, OneWriteEach, TypeOK, store
<1>4. \A u \in Writers : \A p \in pending[u] : p.obs # f.obs
  BY <1>2, <1>3 DEF Flush, RowFree, OneWriteEach
<1>5. existing[w] = Null => NoHistory(f.obs)
  <2>1. existing[w] = Null => observations[f.obs] = Null
    BY <1>2 DEF Flush, RowIndexAdmits
  <2>2. \A v \in versions : observations[v.obs] # Null
    BY NullAssumption DEF HistoryInv, Continued, TypeOK, Version
  <2> QED BY <2>1, <2>2 DEF NoHistory
<1>6. f.closes = Null => NoHistory(f.obs)
  <2>1. ASSUME f.closes = Null, NEW v \in versions, v.obs = f.obs PROVE FALSE
    <3>1. PICK u \in versions : u.obs = f.obs /\ u.recorded_to = Null
      BY <2>1 DEF HistoryInv, Continued
    <3>2. u.recorded_from = openVersion[w]
      BY <1>2, <3>1 DEF Flush, VersionIndexAdmits, OpenVersions
    <3> QED BY <1>2, <2>1, <3>1, <3>2, NullAssumption DEF TypeOK, Version
  <2> QED BY <2>1 DEF NoHistory
<1>7. f.closes # Null => /\ f.closes < f.at
                         /\ \E v \in versions : /\ v.obs = f.obs
                                                /\ v.recorded_to = Null
                                                /\ v.recorded_from = f.closes
  <2> SUFFICES ASSUME f.closes # Null
               PROVE  /\ f.closes < f.at
                      /\ \E v \in versions : /\ v.obs = f.obs
                                             /\ v.recorded_to = Null
                                             /\ v.recorded_from = f.closes
    OBVIOUS
  <2>1. f.closes < f.at /\ \E v \in versions : v.obs = f.obs
    BY <1>2 DEF Flush, ReadyToFlush
  <2>2. PICK u \in versions : u.obs = f.obs /\ u.recorded_to = Null
    BY <2>1 DEF HistoryInv, Continued
  <2>3. u.recorded_from = f.closes
    BY <1>2, <2>2 DEF Flush, VersionIndexAdmits, OpenVersions
  <2> QED BY <2>1, <2>2, <2>3
<1>8. OneWriteEach'
  BY <1>1, <1>2, <1>3, <1>4 DEF OneWriteEach, TypeOK
<1>9. ReadyToFlush'
  BY <1>3 DEF ReadyToFlush, TypeOK
<1>10. RowsLocked'
  BY <1>1, <1>4 DEF RowsLocked, TypeOK
<1>11. PendingExtends'
  <2> SUFFICES ASSUME NEW u \in Writers, NEW p \in pending'[u]
               PROVE  /\ p.closes = Null => NoHistory(p.obs)
                      /\ p.closes # Null =>
                            /\ p.closes < p.at
                            /\ \E v \in versions : /\ v.obs = p.obs
                                                   /\ v.recorded_to = Null
                                                   /\ v.recorded_from = p.closes
                      /\ p.is_backfilled \/ p.change_type # "REVISED" => NoHistory(p.obs)
    BY <1>3 DEF PendingExtends, NoHistory
  <2>1. CASE p \in pending[u]
    BY <2>1 DEF PendingExtends
  <2>2. CASE p = f
    BY <2>2, <1>2, <1>5, <1>6, <1>7
  <2> QED BY <1>1, <2>1, <2>2 DEF TypeOK
<1> QED BY <1>8, <1>9, <1>10, <1>11

---------------------------------------------------------------------------
(* Commit *)

\* What committing does to a version: nothing, or the open version of an
\* observation is closed at the instant of the write that revises it.
LEMMA ClosedFacts ==
  ASSUME IInv, NEW w \in Writers, NEW v \in versions
  PROVE  /\ Closed(w, v).obs = v.obs
         /\ Closed(w, v).recorded_from = v.recorded_from
         /\ Closed(w, v).value = v.value
         /\ Closed(w, v).change_type = v.change_type
         /\ Closed(w, v).is_backfilled = v.is_backfilled
         /\ \/ Closed(w, v) = v /\ v.recorded_to # Null
            \/ /\ Closed(w, v) = v
               /\ \A p \in pending[w] : p.obs # v.obs
            \/ /\ v.recorded_to = Null
               /\ v.recorded_from < Closed(w, v).recorded_to
               /\ Closed(w, v) = [v EXCEPT !.recorded_to = Closed(w, v).recorded_to]
               /\ \E p \in pending[w] : /\ p.obs = v.obs
                                        /\ Closed(w, v).recorded_to = p.at
                                        /\ p.closes = v.recorded_from
<1> USE DEF IInv, SessionInv, HistoryInv
<1>0. /\ v \in Version
      /\ \A p \in pending[w] : p \in Flushed
  BY DEF TypeOK
<1>1. CASE \E p \in pending[w] : p.obs = v.obs /\ p.closes = v.recorded_from
  <2> DEFINE p == CHOOSE q \in pending[w] : q.obs = v.obs /\ q.closes = v.recorded_from
  <2>1. p \in pending[w] /\ p.obs = v.obs /\ p.closes = v.recorded_from
    BY <1>1
  <2>2. Closed(w, v) = [v EXCEPT !.recorded_to = p.at]
    BY <1>1 DEF Closed
  <2> HIDE DEF p
  <2>3. p.closes # Null
    BY <1>0, <2>1, NullAssumption DEF Version
  <2>4. /\ p.closes < p.at
        /\ \E u \in versions : /\ u.obs = p.obs
                               /\ u.recorded_to = Null
                               /\ u.recorded_from = p.closes
    BY <2>1, <2>3 DEF PendingExtends
  <2>5. v.recorded_to = Null
    BY <2>1, <2>4 DEF Keyed
  <2>6. /\ Closed(w, v).recorded_to = p.at
        /\ Closed(w, v).obs = v.obs
        /\ Closed(w, v).recorded_from = v.recorded_from
        /\ Closed(w, v).value = v.value
        /\ Closed(w, v).change_type = v.change_type
        /\ Closed(w, v).is_backfilled = v.is_backfilled
    BY <1>0, <2>2 DEF Version
  <2> QED BY <2>1, <2>2, <2>4, <2>5, <2>6
<1>2. CASE ~ \E p \in pending[w] : p.obs = v.obs /\ p.closes = v.recorded_from
  <2>1. Closed(w, v) = v
    BY <1>2 DEF Closed
  <2>2. ASSUME v.recorded_to = Null, NEW p \in pending[w], p.obs = v.obs PROVE FALSE
    <3>1. PICK u \in versions : /\ u.obs = p.obs
                                /\ u.recorded_to = Null
                                /\ u.recorded_from = p.closes
      BY <2>2 DEF PendingExtends, NoHistory
    <3>2. u.recorded_from # v.recorded_from
      BY <1>2, <2>2, <3>1
    <3>3. u \in Version
      BY DEF TypeOK
    <3> QED BY <1>0, <2>2, <3>1, <3>2, <3>3, NullAssumption DEF Ordered, Version
  <2> QED BY <2>1, <2>2
<1> QED BY <1>1, <1>2

\* A version that a commit opens starts after everything recorded of its
\* observation, and is the only one the commit opens of it.
LEMMA OpenedFacts ==
  ASSUME IInv, NEW w \in Writers, NEW p \in pending[w]
  PROVE  /\ Opened(p).obs = p.obs
         /\ Opened(p).recorded_from = p.at
         /\ Opened(p).recorded_to = Null
         /\ Opened(p).value = p.value
         /\ Opened(p).change_type = p.change_type
         /\ Opened(p).is_backfilled = p.is_backfilled
         /\ p.at \in Nat
         /\ \A q \in pending[w] : q.obs = p.obs => q = p
         /\ \A v \in versions : v.obs = p.obs =>
               /\ v.recorded_from < p.at
               /\ Closed(w, v).recorded_to \in Nat
               /\ Closed(w, v).recorded_to <= p.at
<1> USE DEF IInv, SessionInv, HistoryInv
<1>1. p \in Flushed
  BY DEF TypeOK
<1>2. \A q \in pending[w] : q.obs = p.obs => q = p
  BY DEF RowsLocked
<1>3. ASSUME NEW v \in versions, v.obs = p.obs
      PROVE  /\ v.recorded_from < p.at
             /\ Closed(w, v).recorded_to \in Nat
             /\ Closed(w, v).recorded_to <= p.at
  <2>1. p.closes # Null /\ p.closes < p.at
    BY <1>3 DEF PendingExtends, NoHistory
  <2>2. PICK u \in versions : /\ u.obs = p.obs
                              /\ u.recorded_to = Null
                              /\ u.recorded_from = p.closes
    BY <2>1 DEF PendingExtends
  <2>3. u \in Version /\ v \in Version
    BY DEF TypeOK
  <2>4. CASE v = u
    <3>1. \E q \in pending[w] : q.obs = v.obs /\ Closed(w, v).recorded_to = q.at
      BY <1>3, <2>2, <2>4, ClosedFacts
    <3> QED BY <1>1, <1>2, <1>3, <2>1, <2>2, <2>4, <3>1 DEF Flushed
  <2>5. CASE v # u
    <3>1. v.recorded_from < u.recorded_from
      BY <1>3, <2>2, <2>3, <2>5, NullAssumption DEF Keyed, Ordered, Version
    <3>2. v.recorded_to \in Nat /\ v.recorded_to <= u.recorded_from
      BY <1>3, <2>2, <3>1 DEF Ordered
    <3>3. Closed(w, v) = v
      BY <3>2, ClosedFacts, NullAssumption
    <3> QED BY <1>1, <2>1, <2>2, <2>3, <3>1, <3>2, <3>3 DEF Flushed, Version
  <2> QED BY <2>4, <2>5
<1> QED BY <1>1, <1>2, <1>3 DEF Opened, Flushed

LEMMA CommitHistory ==
  ASSUME IInv, NEW w \in Writers, Commit(w) PROVE HistoryInv'
<1> USE DEF IInv, HistoryInv
<1>1. /\ versions' = {Closed(w, v) : v \in versions} \cup {Opened(p) : p \in pending[w]}
      /\ observations' = [o \in Obs |-> RowAfter(w, o)]
  BY DEF Commit
<1>2. \A v \in versions : v \in Version
  BY DEF TypeOK
<1>3. Keyed'
  <2> SUFFICES ASSUME NEW a \in versions', NEW b \in versions',
                      a.obs = b.obs, a.recorded_from = b.recorded_from
               PROVE  a = b
    BY DEF Keyed
  <2>1. ASSUME NEW u \in versions, NEW v \in versions, a = Closed(w, u), b = Closed(w, v)
        PROVE  a = b
    BY <2>1, ClosedFacts DEF Keyed
  <2>2. ASSUME NEW v \in versions, NEW p \in pending[w],
               \/ a = Closed(w, v) /\ b = Opened(p)
               \/ b = Closed(w, v) /\ a = Opened(p)
        PROVE  FALSE
    <3>1. v.obs = p.obs /\ v.recorded_from = p.at
      BY <2>2, ClosedFacts, OpenedFacts
    <3> QED BY <1>2, <3>1, OpenedFacts DEF Version
  <2>3. ASSUME NEW p \in pending[w], NEW q \in pending[w], a = Opened(p), b = Opened(q)
        PROVE  a = b
    BY <2>3, OpenedFacts
  <2> QED BY <1>1, <2>1, <2>2, <2>3
<1>4. Ordered'
  <2> SUFFICES ASSUME NEW a \in versions', NEW b \in versions',
                      a.obs = b.obs, a.recorded_from < b.recorded_from
               PROVE  a.recorded_to \in Nat /\ a.recorded_to <= b.recorded_from
    BY DEF Ordered
  <2>1. ASSUME NEW u \in versions, NEW v \in versions, a = Closed(w, u), b = Closed(w, v)
        PROVE  a.recorded_to \in Nat /\ a.recorded_to <= b.recorded_from
    <3>1. /\ u.obs = v.obs /\ u.recorded_from < v.recorded_from
          /\ b.recorded_from = v.recorded_from
      BY <2>1, ClosedFacts
    <3>2. u.recorded_to \in Nat /\ u.recorded_to <= v.recorded_from
      BY <3>1 DEF Ordered
    <3>3. a = u
      BY <2>1, <3>2, ClosedFacts, NullAssumption
    <3> QED BY <3>1, <3>2, <3>3
  <2>2. ASSUME NEW u \in versions, NEW p \in pending[w], a = Closed(w, u), b = Opened(p)
        PROVE  a.recorded_to \in Nat /\ a.recorded_to <= b.recorded_from
    BY <2>2, ClosedFacts, OpenedFacts
  <2>3. ASSUME NEW v \in versions, NEW p \in pending[w], b = Closed(w, v), a = Opened(p)
        PROVE  FALSE
    <3>1. v.obs = p.obs /\ p.at < v.recorded_from
      BY <2>3, ClosedFacts, OpenedFacts
    <3> QED BY <1>2, <3>1, OpenedFacts DEF Version
  <2>4. ASSUME NEW p \in pending[w], NEW q \in pending[w], a = Opened(p), b = Opened(q)
        PROVE  FALSE
    <3>1. p = q /\ a.recorded_from = p.at /\ b.recorded_from = p.at /\ p.at \in Nat
      BY <2>4, OpenedFacts
    <3> QED BY <3>1
  <2> QED BY <1>1, <2>1, <2>2, <2>3, <2>4
<1>5. Forward'
  <2>1. ASSUME NEW v \in versions, Closed(w, v).recorded_to # Null
        PROVE  Closed(w, v).recorded_from < Closed(w, v).recorded_to
    BY <2>1, ClosedFacts DEF Forward
  <2>2. ASSUME NEW p \in pending[w] PROVE Opened(p).recorded_to = Null
    BY OpenedFacts
  <2> QED BY <1>1, <2>1, <2>2 DEF Forward
<1>6. Continued'
  <2> SUFFICES ASSUME NEW a \in versions'
               PROVE  \E b \in versions' : /\ b.obs = a.obs
                                           /\ b.recorded_to = Null
                                           /\ observations'[a.obs] = b.value
    BY DEF Continued
  <2>0. a.obs \in Obs
    BY CommitTypeOK DEF TypeOK, Version
  <2>1. ASSUME NEW p \in pending[w], p.obs = a.obs
        PROVE  \E b \in versions' : /\ b.obs = a.obs
                                    /\ b.recorded_to = Null
                                    /\ observations'[a.obs] = b.value
    <3>1. RowAfter(w, a.obs) = p.value
      BY <2>1, OpenedFacts DEF RowAfter
    <3> QED BY <1>1, <2>0, <2>1, <3>1, OpenedFacts
  <2>2. ASSUME \A p \in pending[w] : p.obs # a.obs
        PROVE  \E b \in versions' : /\ b.obs = a.obs
                                    /\ b.recorded_to = Null
                                    /\ observations'[a.obs] = b.value
    <3>1. PICK v \in versions : a = Closed(w, v)
      BY <1>1, <2>2, OpenedFacts
    <3>2. v.obs = a.obs
      BY <3>1, ClosedFacts
    <3>3. PICK u \in versions : /\ u.obs = a.obs
                                /\ u.recorded_to = Null
                                /\ observations[a.obs] = u.value
      BY <3>2 DEF Continued
    <3>4. Closed(w, u) = u
      BY <2>2, <3>3, ClosedFacts
    <3>5. u \in versions'
      BY <1>1, <3>4
    <3>6. observations'[a.obs] = observations[a.obs]
      BY <1>1, <2>0, <2>2 DEF RowAfter
    <3> QED BY <3>3, <3>5, <3>6
  <2> QED BY <2>1, <2>2
<1>7. Covered'
  <2> SUFFICES ASSUME NEW o \in Obs, NEW t \in Nat, NEW a \in versions',
                      a.obs = o, a.recorded_from <= t
               PROVE  \E b \in versions' : /\ b.obs = o
                                           /\ b.recorded_from <= t
                                           /\ b.recorded_to = Null \/ b.recorded_to > t
    BY DEF Covered, AsOf
  <2>1. ASSUME NEW p \in pending[w], p.obs = o, p.at <= t
        PROVE  \E b \in versions' : /\ b.obs = o
                                    /\ b.recorded_from <= t
                                    /\ b.recorded_to = Null \/ b.recorded_to > t
    BY <1>1, <2>1, OpenedFacts
  <2>2. ASSUME \A p \in pending[w] : p.obs = o => t < p.at
        PROVE  \E b \in versions' : /\ b.obs = o
                                    /\ b.recorded_from <= t
                                    /\ b.recorded_to = Null \/ b.recorded_to > t
    <3>1. PICK v \in versions : a = Closed(w, v)
      <4>1. ASSUME NEW p \in pending[w], a = Opened(p) PROVE FALSE
        <5>1. p.obs = o /\ p.at <= t /\ p.at \in Nat
          BY <4>1, OpenedFacts
        <5> QED BY <2>2, <5>1
      <4> QED BY <1>1, <4>1
    <3>2. v.obs = o /\ v.recorded_from <= t
      BY <3>1, ClosedFacts
    <3>3. PICK u \in versions : /\ u.obs = o
                                /\ u.recorded_from <= t
                                /\ u.recorded_to = Null \/ u.recorded_to > t
      BY <3>2 DEF Covered, AsOf
    <3>4. Closed(w, u).recorded_to = Null \/ Closed(w, u).recorded_to > t
      BY <2>2, <3>3, ClosedFacts
    <3>5. Closed(w, u).obs = o /\ Closed(w, u).recorded_from <= t
      BY <3>3, ClosedFacts
    <3> QED BY <1>1, <3>4, <3>5
  <2>3. \A p \in pending[w] : p.at \in Nat
    BY OpenedFacts
  <2>4. CASE \E p \in pending[w] : p.obs = o /\ p.at <= t
    BY <2>1, <2>4
  <2>5. CASE ~ \E p \in pending[w] : p.obs = o /\ p.at <= t
    BY <2>2, <2>3, <2>5
  <2> QED BY <2>4, <2>5
<1>8. OnlyFirstVersionIsImported'
  <2> SUFFICES ASSUME NEW a \in versions', NEW b \in versions', b.obs = a.obs,
                      a.is_backfilled \/ a.change_type # "REVISED"
               PROVE  a.recorded_from <= b.recorded_from
    BY DEF OnlyFirstVersionIsImported
  <2>1. ASSUME NEW u \in versions, NEW v \in versions, a = Closed(w, u), b = Closed(w, v)
        PROVE  a.recorded_from <= b.recorded_from
    <3>1. /\ v.obs = u.obs
          /\ u.is_backfilled \/ u.change_type # "REVISED"
          /\ a.recorded_from = u.recorded_from /\ b.recorded_from = v.recorded_from
      BY <2>1, ClosedFacts
    <3> QED BY <3>1 DEF OnlyFirstVersionIsImported
  <2>2. ASSUME NEW u \in versions, NEW p \in pending[w], a = Closed(w, u), b = Opened(p)
        PROVE  a.recorded_from <= b.recorded_from
    <3>1. /\ u.obs = p.obs
          /\ a.recorded_from = u.recorded_from /\ b.recorded_from = p.at
      BY <2>2, ClosedFacts, OpenedFacts
    <3> QED BY <1>2, <3>1, OpenedFacts DEF Version
  <2>3. ASSUME NEW v \in versions, NEW p \in pending[w], b = Closed(w, v), a = Opened(p)
        PROVE  FALSE
    <3>1. v.obs = p.obs /\ (p.is_backfilled \/ p.change_type # "REVISED")
      BY <2>3, ClosedFacts, OpenedFacts
    <3> QED BY <3>1 DEF SessionInv, PendingExtends, NoHistory
  <2>4. ASSUME NEW p \in pending[w], NEW q \in pending[w], a = Opened(p), b = Opened(q)
        PROVE  a.recorded_from <= b.recorded_from
    <3>1. a.recorded_from = p.at /\ b.recorded_from = p.at /\ p.at \in Nat
      BY <2>4, OpenedFacts
    <3> QED BY <3>1
  <2> QED BY <1>1, <2>1, <2>2, <2>3, <2>4
<1> QED BY <1>3, <1>4, <1>5, <1>6, <1>7, <1>8

\* The sessions that did not commit keep their locks and what they know.
LEMMA CommitSession ==
  ASSUME IInv, NEW w \in Writers, Commit(w) PROVE SessionInv'
<1> USE DEF IInv, SessionInv
<1>1. /\ versions' = {Closed(w, v) : v \in versions} \cup {Opened(p) : p \in pending[w]}
      /\ pc' = [pc EXCEPT ![w] = "idle"]
      /\ pending' = [pending EXCEPT ![w] = {}]
      /\ UNCHANGED <<todo, item, existing, openVersion>>
  BY DEF Commit
<1>2. \A u \in Writers : pending'[u] \subseteq pending[u] /\ (u # w => pending'[u] = pending[u])
  BY <1>1 DEF TypeOK
<1>3. pending'[w] = {}
  BY <1>1 DEF TypeOK
<1>4. OneWriteEach'
  BY <1>1, <1>2, <1>3 DEF OneWriteEach, TypeOK
<1>5. ReadyToFlush'
  <2>1. ASSUME NEW o, \E v \in versions : v.obs = o PROVE \E v \in versions' : v.obs = o
    BY <1>1, <2>1, ClosedFacts
  <2> QED BY <1>1, <2>1 DEF ReadyToFlush, TypeOK
<1>6. RowsLocked'
  BY <1>2 DEF RowsLocked
<1>7. PendingExtends'
  <2> SUFFICES ASSUME NEW u \in Writers, NEW p \in pending'[u]
               PROVE  /\ p.closes = Null => NoHistory(p.obs)'
                      /\ p.closes # Null =>
                            /\ p.closes < p.at
                            /\ \E v \in versions' : /\ v.obs = p.obs
                                                    /\ v.recorded_to = Null
                                                    /\ v.recorded_from = p.closes
                      /\ p.is_backfilled \/ p.change_type # "REVISED" => NoHistory(p.obs)'
    BY DEF PendingExtends
  <2>1. u # w /\ p \in pending[u] /\ \A q \in pending[w] : q.obs # p.obs
    BY <1>2, <1>3 DEF RowsLocked
  <2>2. NoHistory(p.obs) => NoHistory(p.obs)'
    <3>1. ASSUME NoHistory(p.obs), NEW a \in versions', a.obs = p.obs PROVE FALSE
      <4>1. CASE \E v \in versions : a = Closed(w, v)
        BY <3>1, <4>1, ClosedFacts DEF NoHistory
      <4>2. CASE \E q \in pending[w] : a = Opened(q)
        BY <2>1, <3>1, <4>2, OpenedFacts
      <4> QED BY <1>1, <4>1, <4>2
    <3> QED BY <3>1 DEF NoHistory
  <2>3. ASSUME NEW v \in versions, v.obs = p.obs PROVE v \in versions'
    <3>1. Closed(w, v) = v
      BY <2>1, <2>3, ClosedFacts
    <3> QED BY <1>1, <3>1
  <2> QED BY <2>1, <2>2, <2>3 DEF PendingExtends
<1> QED BY <1>4, <1>5, <1>6, <1>7

---------------------------------------------------------------------------
(* The inductive invariant *)

LEMMA WriterIInv ==
  ASSUME IInv, NEW w \in Writers, WriterNext(w) PROVE IInv'
<1>0. TypeOK'
  BY WriterTypeOK DEF IInv
<1>1. ASSUME Abandon(w) PROVE HistoryInv' /\ SessionInv'
  BY <1>1, AbandonSession, SameStore DEF Abandon, IInv
<1>2. ASSUME NEW answer \in Answers,
             \/ \E imported \in SUBSET DOMAIN answer : Detect(w, answer, imported)
             \/ DetectAnotherSeries(w, answer)
      PROVE  HistoryInv' /\ SessionInv'
  <2>1. UNCHANGED store
    BY <1>2 DEF Detect, DetectAnotherSeries
  <2> QED BY <1>2, <2>1, DetectSession, SameStore DEF IInv
<1>3. CASE StartApplying(w)
  <2>1. UNCHANGED store
    BY <1>3 DEF StartApplying
  <2>2. SessionInv'
    BY <1>3 DEF IInv, SessionInv, StartApplying, TypeOK, store, locals, OneWriteEach,
                ReadyToFlush, RowsLocked, PendingExtends, NoHistory
  <2> QED BY <1>0, <2>1, <2>2, SameStore DEF IInv
<1>4. ASSUME \/ \E i \in todo[w] : \/ ConfirmUnchanged(w, i)
                                   \/ FindNoRow(w, i)
                                   \/ FindOtherValue(w, i)
             \/ FindOpenVersion(w)
      PROVE  HistoryInv' /\ SessionInv'
  <2>1. UNCHANGED store
    BY <1>4 DEF ConfirmUnchanged, FindNoRow, FindOtherValue, FindOpenVersion
  <2> QED BY <1>4, <2>1, SelectSession, SameStore DEF IInv
<1>5. CASE Flush(w)
  <2>1. UNCHANGED store
    BY <1>5 DEF Flush
  <2> QED BY <1>0, <1>5, <2>1, FlushSession, SameStore DEF IInv
<1>6. CASE Commit(w)
  BY <1>0, <1>6, CommitHistory, CommitSession DEF IInv
<1> QED BY <1>0, <1>1, <1>2, <1>3, <1>4, <1>5, <1>6
        DEF WriterNext, RefuseBackdated, FlushConflict, Rollback, IInv

LEMMA StepIInv == IInv /\ [Next]_vars => IInv'
<1> SUFFICES ASSUME IInv, [Next]_vars PROVE IInv'
  OBVIOUS
<1>1. CASE Tick \/ UNCHANGED vars
  <2>1. UNCHANGED <<store, pc, locals>> /\ clock' \in Nat
    BY <1>1 DEF Tick, vars, store, locals, IInv, TypeOK
  <2>2. TypeOK' /\ SessionInv'
    BY <2>1 DEF IInv, TypeOK, SessionInv, store, locals, OneWriteEach, ReadyToFlush,
                RowsLocked, PendingExtends, NoHistory
  <2> QED BY <2>1, <2>2, SameStore DEF IInv
<1>2. ASSUME NEW w \in Writers, WriterNext(w) PROVE IInv'
  BY <1>2, WriterIInv
<1> QED BY <1>1, <1>2 DEF Next

\* IInv holds in every reachable state.
THEOREM Inductive == Spec => []IInv
BY InitIInv, StepIInv, PTL DEF Spec

---------------------------------------------------------------------------
(* What follows from it *)

\* Two versions live at one instant are the same version.
LEMMA OneLiveVersion ==
  ASSUME IInv, NEW o \in Obs, NEW t \in Nat, NEW u \in AsOf(o, t), NEW v \in AsOf(o, t)
  PROVE  u = v
<1>1. u \in Version /\ v \in Version
  BY DEF AsOf, IInv, TypeOK
<1>2. ~(u.recorded_from < v.recorded_from) /\ ~(v.recorded_from < u.recorded_from)
  BY <1>1, NullAssumption DEF AsOf, IInv, HistoryInv, Ordered, Version
<1> QED BY <1>1, <1>2 DEF AsOf, IInv, HistoryInv, Keyed, Version

\* From its first version on, exactly one version of an observation is live
\* at every instant: no gap, no overlap, whatever sessions raced.
THEOREM VersionsTile == Spec => []VersionsTileTime
<1>1. IInv => VersionsTileTime
  <2> SUFFICES ASSUME IInv, NEW o \in Obs, NEW t \in 0..MaxTime,
                      \E v \in versions : v.obs = o /\ v.recorded_from <= t
               PROVE  \E v \in versions : AsOf(o, t) = {v}
    BY DEF VersionsTileTime
  <2>1. t \in Nat
    BY BoundAssumption
  <2>2. PICK v : v \in AsOf(o, t)
    BY <2>1 DEF IInv, HistoryInv, Covered
  <2>3. AsOf(o, t) = {v}
    BY <2>1, <2>2, OneLiveVersion
  <2> QED BY <2>2, <2>3 DEF AsOf
<1> QED BY <1>1, Inductive, PTL

\* The current-state row and the one open version always agree.
THEOREM CacheCorrect == Spec => []CacheMatchesHistory
<1>1. IInv => CacheMatchesHistory
  <2> SUFFICES ASSUME IInv, NEW v \in versions
               PROVE  \E u \in versions : /\ OpenVersions(v.obs) = {u}
                                          /\ observations[v.obs] = u.value
    BY DEF CacheMatchesHistory
  <2>1. PICK u \in versions : /\ u.obs = v.obs
                              /\ u.recorded_to = Null
                              /\ observations[v.obs] = u.value
    BY DEF IInv, HistoryInv, Continued
  <2>2. ASSUME NEW x \in versions, x.obs = u.obs, x.recorded_to = Null PROVE x = u
    <3>1. x \in Version /\ u \in Version
      BY DEF IInv, TypeOK
    <3> QED BY <2>1, <2>2, <3>1, NullAssumption
            DEF IInv, HistoryInv, Ordered, Keyed, Version
  <2> QED BY <2>1, <2>2 DEF OpenVersions
<1> QED BY <1>1, Inductive, PTL

\* A revision is never an import: only the first version of an observation
\* is a backfill, a baseline or a NEW one.
THEOREM ImportsAreFirst == Spec => []OnlyFirstVersionIsImported
<1>1. IInv => OnlyFirstVersionIsImported
  BY DEF IInv, HistoryInv
<1> QED BY <1>1, Inductive, PTL

\* A step either leaves the versions alone or commits one writer's.
LEMMA StoreStep ==
  [Next]_vars => UNCHANGED store \/ \E w \in Writers : Commit(w)
BY DEF Next, WriterNext, vars, store, Tick, Detect, DetectAnotherSeries, StartApplying,
       ConfirmUnchanged, FindNoRow, FindOtherValue, FindOpenVersion, RefuseBackdated,
       Flush, FlushConflict, Rollback, Abandon

\* Whoever commits, recorded versions survive: at most the open one is closed.
THEOREM AppendOnly == Spec => HistoryIsAppendOnly
<1>1. IInv /\ [Next]_vars => [\A v \in versions : Survives(v, versions')]_vars
  <2> SUFFICES ASSUME IInv, [Next]_vars, NEW v \in versions PROVE Survives(v, versions')
    OBVIOUS
  <2>1. CASE UNCHANGED store
    BY <2>1 DEF store, Survives
  <2>2. ASSUME NEW w \in Writers, Commit(w) PROVE Survives(v, versions')
    <3>1. Closed(w, v) \in versions'
      BY <2>2 DEF Commit
    <3>2. \A p \in pending[w] : p.at \in Nat
      BY OpenedFacts
    <3> QED BY <3>1, <3>2, ClosedFacts DEF Survives
  <2> QED BY <2>1, <2>2, StoreStep
<1> QED BY <1>1, Inductive, PTL DEF Spec, HistoryIsAppendOnly

\* The interval query of get_observations_as_of answers with the last value
\* recorded by the instant asked about.
THEOREM AsOfCorrect == Spec => []AsOfIsInForce
<1>1. IInv => AsOfIsInForce
  <2> SUFFICES ASSUME IInv, NEW o \in Obs, NEW t \in 0..MaxTime
               PROVE  {[at |-> v.recorded_from, value |-> v.value] : v \in AsOf(o, t)}
                         = Account!InForce(o, t)
    BY DEF AsOfIsInForce
  <2> DEFINE Entry(v) == [at |-> v.recorded_from, value |-> v.value]
  <2>0. t \in Nat /\ \A v \in versions : v \in Version
    BY BoundAssumption DEF IInv, TypeOK
  <2>1. entries[o] = {Entry(v) : v \in {u \in versions : u.obs = o}}
    BY DEF entries
  <2>2. ASSUME NEW v \in AsOf(o, t) PROVE Entry(v) \in Account!InForce(o, t)
    <3>1. v \in versions /\ v.obs = o /\ v.recorded_from <= t
      BY DEF AsOf
    <3>2. ASSUME NEW u \in versions, u.obs = o, u.recorded_from <= t
          PROVE  u.recorded_from <= v.recorded_from
      <4>1. ~(v.recorded_from < u.recorded_from)
        BY <2>0, <3>1, <3>2, NullAssumption
           DEF AsOf, IInv, HistoryInv, Ordered, Version
      <4> QED BY <2>0, <3>1, <4>1 DEF Version
    <3> QED BY <2>1, <3>1, <3>2 DEF Account!InForce
  <2>3. ASSUME NEW e \in Account!InForce(o, t)
        PROVE  \E v \in AsOf(o, t) : e = Entry(v)
    <3>1. PICK u \in versions : u.obs = o /\ e = Entry(u) /\ u.recorded_from <= t
      BY <2>1 DEF Account!InForce
    <3>2. PICK v : v \in AsOf(o, t)
      BY <2>0, <3>1 DEF IInv, HistoryInv, Covered
    <3>3. Entry(v) \in Account!InForce(o, t)
      BY <2>2, <3>2
    <3>4. v \in versions /\ v.obs = o
      BY <3>2 DEF AsOf
    <3>5. u.recorded_from = v.recorded_from
      <4>1. u.recorded_from <= v.recorded_from /\ v.recorded_from <= u.recorded_from
        BY <2>1, <3>1, <3>3, <3>4 DEF Account!InForce
      <4> QED BY <2>0, <3>4, <4>1 DEF Version
    <3>6. u = v
      BY <3>1, <3>4, <3>5 DEF IInv, HistoryInv, Keyed
    <3> QED BY <3>1, <3>2, <3>6
  <2> QED BY <2>2, <2>3
<1> QED BY <1>1, Inductive, PTL

LEMMA InitRefines == Init => Account!Init
<1> SUFFICES ASSUME Init, NEW o \in Obs
             PROVE  entries[o] \in {{}} \cup {{[at |-> 0, value |-> v]} : v \in Values}
  BY DEF Account!Init, entries
<1>1. PICK S \in SUBSET {p \in Obs : observations[p] # Null} :
          versions = {Backfill(p, observations[p]) : p \in S}
  BY DEF Init
<1>2. CASE o \in S
  <2>1. {u \in versions : u.obs = o} = {Backfill(o, observations[o])}
    BY <1>1, <1>2 DEF Backfill
  <2>2. entries[o] = {[at |-> 0, value |-> observations[o]]}
    <3> DEFINE b == Backfill(o, observations[o])
    <3>1. entries[o] = {[at |-> v.recorded_from, value |-> v.value] : v \in {b}}
      BY <2>1 DEF entries
    <3>2. b.recorded_from = 0 /\ b.value = observations[o]
      BY DEF Backfill
    <3> HIDE DEF b
    <3> QED BY <3>1, <3>2
  <2>3. observations[o] \in Values
    BY <1>2 DEF Init
  <2> QED BY <2>2, <2>3
<1>3. CASE o \notin S
  <2>1. {u \in versions : u.obs = o} = {}
    BY <1>1, <1>3 DEF Backfill
  <2> QED BY <2>1 DEF entries
<1> QED BY <1>2, <1>3

\* A commit adds to the account of each observation at most one entry, later
\* than all it had, and drops none.
LEMMA CommitRefines ==
  ASSUME IInv, NEW w \in Writers, Commit(w) PROVE Account!Record
<1> DEFINE Entry(v) == [at |-> v.recorded_from, value |-> v.value]
<1>1. versions' = {Closed(w, v) : v \in versions} \cup {Opened(p) : p \in pending[w]}
  BY DEF Commit
<1>2. versions' \in SUBSET Version /\ versions \in SUBSET Version
  BY CommitTypeOK DEF IInv, TypeOK
<1>3. entries' \in [Obs -> SUBSET Account!Entry]
  BY <1>2 DEF entries, Account!Entry, Version
<1>4. ASSUME NEW o \in Obs, NEW e \in entries[o] PROVE e \in entries'[o]
  <2>1. PICK v \in versions : v.obs = o /\ e = Entry(v)
    BY DEF entries
  <2>2. Entry(Closed(w, v)) = Entry(v) /\ Closed(w, v).obs = o
    BY <2>1, ClosedFacts
  <2> QED BY <1>1, <2>1, <2>2 DEF entries
<1>5. ASSUME NEW o \in Obs, NEW n \in entries'[o] \ entries[o]
      PROVE  \A e \in entries'[o] \ {n} : e.at < n.at
  <2>1. PICK a \in versions' : a.obs = o /\ n = Entry(a)
    BY DEF entries
  <2>2. PICK p \in pending[w] : a = Opened(p)
    <3>1. ASSUME NEW v \in versions, a = Closed(w, v) PROVE FALSE
      <4>1. Entry(v) = n /\ v.obs = o
        BY <2>1, <3>1, ClosedFacts
      <4> QED BY <4>1 DEF entries
    <3> QED BY <1>1, <3>1
  <2>3. p.obs = o /\ n.at = p.at
    BY <2>1, <2>2, OpenedFacts
  <2>4. ASSUME NEW e \in entries'[o], e # n PROVE e.at < n.at
    <3>1. PICK b \in versions' : b.obs = o /\ e = Entry(b)
      BY DEF entries
    <3>2. CASE \E v \in versions : b = Closed(w, v)
      <4>1. PICK v \in versions : b = Closed(w, v)
        BY <3>2
      <4>2. v.obs = p.obs /\ e.at = v.recorded_from
        BY <2>3, <3>1, <4>1, ClosedFacts
      <4> QED BY <2>3, <4>2, OpenedFacts
    <3>3. CASE \E q \in pending[w] : b = Opened(q)
      <4>1. PICK q \in pending[w] : b = Opened(q)
        BY <3>3
      <4>2. q = p
        BY <2>3, <3>1, <4>1, OpenedFacts
      <4> QED BY <2>1, <2>2, <2>4, <3>1, <4>1, <4>2
    <3> QED BY <1>1, <3>2, <3>3
  <2> QED BY <2>4
<1> QED BY <1>3, <1>4, <1>5 DEF Account!Record

\* The store implements the append-only account of SystemTimeHistory.
THEOREM Implements == Spec => ImplementsHistory
<1>1. IInv /\ [Next]_vars => [Account!Record]_entries
  <2> SUFFICES ASSUME IInv, [Next]_vars PROVE Account!Record \/ UNCHANGED entries
    OBVIOUS
  <2>1. CASE UNCHANGED store
    BY <2>1 DEF store, entries
  <2>2. ASSUME NEW w \in Writers, Commit(w) PROVE Account!Record
    BY <2>2, CommitRefines
  <2> QED BY <2>1, <2>2, StoreStep
<1> QED BY <1>1, InitRefines, Inductive, PTL DEF Spec, ImplementsHistory, Account!Spec
=============================================================================
