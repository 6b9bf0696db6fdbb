-------------------------- MODULE IngestionProofs --------------------------
(***************************************************************************)
(* Theorems about ingestion, for any answers of the providers: what is stored, *)
(* how its versions follow one another, what the provenance rows and the      *)
(* recorded runs say of them, what the housing news tells, and how the figures  *)
(* of the rates and housing pages agree.                                     *)
(*                                                                          *)
(* The invariant IngestInv says how rows, versions, provenance and runs hang  *)
(* together between two commands; TxOK says the same of a transaction under   *)
(* way, so that each fold of a command can be shown to keep it.              *)
(***************************************************************************)
EXTENDS StoredDataProofs

SameKey(u, v) == u.series = v.series /\ u.period = v.period

IsVersion(v) ==
    /\ DOMAIN v = {"series", "period", "value", "type", "backfilled", "at", "to", "origin"}
    /\ v = [f \in DOMAIN v |-> v[f]]
    /\ v.at \in Nat /\ v.to \in Nat \cup {Null} /\ v.type \in {"NEW", "REVISED"}

\* The versions of an observation follow one another without a gap: the first is
\* new, each of the others revises the one it closes.
VersionsOK(versions, now) ==
    /\ IsFiniteSet(versions)
    /\ \A v \in versions : /\ IsVersion(v) /\ v.at =< now
                           /\ v.to # Null => v.at < v.to
    /\ \A u, v \in versions : SameKey(u, v) => /\ u.at = v.at => u = v
                                               /\ u.at < v.at => u.to # Null /\ u.to =< v.at
                                               /\ v.type = "NEW" => v.at =< u.at
    /\ \A v \in versions : v.type = "REVISED" =>
         ~v.backfilled /\ \E u \in versions : SameKey(u, v) /\ u.to = v.at

BySeries(rows) == rows = [s \in StoredSeries |-> rows[s]]

\* Every row has an open version that holds its value, every version a row.
RowsOK(rows, versions) ==
    /\ BySeries(rows)
    /\ \A s \in StoredSeries : History(rows[s])
    /\ \A v \in versions : v.series \in StoredSeries /\ v.period \in DOMAIN rows[v.series]
    /\ \A s \in StoredSeries : \A m \in DOMAIN rows[s] :
         \E v \in versions : v.series = s /\ v.period = m /\ v.to = Null /\ v.value = rows[s][m]

\* What an observation writes.
IsStore(st) ==
    /\ DOMAIN st = {"rows", "versions", "provenance", "raised", "inserted", "revised"}
    /\ st = [f \in DOMAIN st |-> st[f]]

\* What is missing is no value.
LEMMA NullIsNoNumber == Null \notin Int /\ Null \notin Nat
BY SeriesAssumption

\* One version of each observation is open.
LEMMA OneOpenVersion ==
    ASSUME NEW versions, NEW now, VersionsOK(versions, now)
    PROVE  \A u, v \in versions : SameKey(u, v) /\ u.to = Null /\ v.to = Null => u = v
<1> SUFFICES ASSUME NEW u \in versions, NEW v \in versions, SameKey(u, v), u.to = Null, v.to = Null
             PROVE  u = v
  OBVIOUS
<1>1. u.at \in Nat /\ v.at \in Nat /\ SameKey(v, u)
  BY DEF VersionsOK, IsVersion, SameKey
<1>2. u.at < v.at \/ v.at < u.at \/ u.at = v.at
  BY <1>1
<1> QED  BY <1>1, <1>2 DEF VersionsOK

\* Rows after a write.
RowWritten(rows, series, o) ==
    [rows EXCEPT ![series] = [m \in DOMAIN @ \cup {o.period} |->
                                IF m = o.period THEN o.value ELSE @[m]]]

\* A row written leaves the others.
LEMMA RowWrittenOK ==
    ASSUME NEW rows, BySeries(rows), \A s \in StoredSeries : History(rows[s]),
           NEW series \in StoredSeries, NEW o, o.period \in Int
    PROVE  /\ BySeries(RowWritten(rows, series, o))
           /\ \A s \in StoredSeries : History(RowWritten(rows, series, o)[s])
           /\ \A s \in StoredSeries : s # series => RowWritten(rows, series, o)[s] = rows[s]
           /\ DOMAIN RowWritten(rows, series, o)[series] = DOMAIN rows[series] \cup {o.period}
           /\ RowWritten(rows, series, o)[series][o.period] = o.value
           /\ \A m \in DOMAIN rows[series] : m # o.period =>
                RowWritten(rows, series, o)[series][m] = rows[series][m]
<1> DEFINE D == DOMAIN rows[series]
           grown == [m \in D \cup {o.period} |-> IF m = o.period THEN o.value ELSE rows[series][m]]
           w == RowWritten(rows, series, o)
<1>1. w = [s \in StoredSeries |-> IF s = series THEN grown ELSE rows[s]]
  BY DEF RowWritten, BySeries
<1>2. History(grown)
  <2>1. IsFiniteSet(D) /\ D \subseteq Int
    BY DEF History
  <2> HIDE DEF D
  <2>2. IsFiniteSet(D \cup {o.period})
    BY <2>1, FS_AddElement
  <2>3. DOMAIN grown = D \cup {o.period}
    OBVIOUS
  <2> QED  BY <2>1, <2>2, <2>3 DEF History
<1>3. w[series] = grown /\ \A s \in StoredSeries : s # series => w[s] = rows[s]
  BY <1>1
<1>4. /\ DOMAIN grown = D \cup {o.period} /\ grown[o.period] = o.value
      /\ \A m \in D : m # o.period => grown[m] = rows[series][m]
  OBVIOUS
<1>5. \A s \in StoredSeries : History(w[s])
  BY <1>2, <1>3
<1>6. BySeries(w)
  BY <1>1 DEF BySeries
<1> HIDE DEF w, grown
<1>7. /\ DOMAIN w[series] = D \cup {o.period} /\ w[series][o.period] = o.value
      /\ \A m \in D : m # o.period => w[series][m] = rows[series][m]
  BY <1>3, <1>4
<1> QED  BY <1>3, <1>5, <1>6, <1>7 DEF w

\* A first version.
LEMMA InsertedOK ==
    ASSUME NEW rows, NEW versions, NEW now \in Nat, VersionsOK(versions, now), RowsOK(rows, versions),
           NEW series \in StoredSeries, NEW o, o.period \in Int, o.period \notin DOMAIN rows[series],
           NEW baseline, NEW origin
    PROVE  LET new == OpenedVersion(series, o, "NEW", baseline, now, origin)
           IN  /\ VersionsOK(versions \cup {new}, now)
               /\ RowsOK(RowWritten(rows, series, o), versions \cup {new})
               /\ \A v \in versions : ~SameKey(v, new)
<1> DEFINE new == OpenedVersion(series, o, "NEW", baseline, now, origin)
           later == versions \cup {new}
           w == RowWritten(rows, series, o)
<1>1. /\ IsVersion(new) /\ new.series = series /\ new.period = o.period /\ new.at = now /\ new.to = Null
      /\ new.type = "NEW" /\ new.value = o.value
  BY DEF IsVersion, OpenedVersion
<1> HIDE DEF new
<1>2. \A v \in versions : ~SameKey(v, new)
  BY <1>1 DEF RowsOK, SameKey
<1>3. VersionsOK(later, now)
  <2>1. IsFiniteSet(later)
    BY FS_AddElement DEF VersionsOK
  <2>2. \A v \in versions : ~SameKey(new, v)
    BY <1>2 DEF SameKey
  <2>3. \A v \in later : IsVersion(v) /\ v.at =< now /\ (v.to # Null => v.at < v.to)
    BY <1>1 DEF VersionsOK
  <2>4. new.at =< new.at /\ ~(new.at < new.at)
    BY <1>1
  <2>5. \A u, v \in later : SameKey(u, v) => /\ u.at = v.at => u = v
                                             /\ u.at < v.at => u.to # Null /\ u.to =< v.at
                                             /\ v.type = "NEW" => v.at =< u.at
    BY <1>2, <2>2, <2>4 DEF VersionsOK
  <2>6. \A v \in later : v.type = "REVISED" =>
          ~v.backfilled /\ \E u \in later : SameKey(u, v) /\ u.to = v.at
    BY <1>1 DEF VersionsOK
  <2> QED  BY <2>1, <2>3, <2>5, <2>6 DEF VersionsOK
<1>4. /\ BySeries(w)
      /\ \A s \in StoredSeries : History(w[s])
      /\ \A s \in StoredSeries : s # series => w[s] = rows[s]
      /\ DOMAIN w[series] = DOMAIN rows[series] \cup {o.period}
      /\ w[series][o.period] = o.value
      /\ \A m \in DOMAIN rows[series] : m # o.period => w[series][m] = rows[series][m]
  BY RowWrittenOK DEF RowsOK
<1> HIDE DEF w
<1>5. \A v \in later : v.series \in StoredSeries /\ v.period \in DOMAIN w[v.series]
  BY <1>1, <1>4 DEF RowsOK
<1>6. ASSUME NEW s \in StoredSeries, NEW m \in DOMAIN w[s]
      PROVE  \E v \in later : v.series = s /\ v.period = m /\ v.to = Null /\ v.value = w[s][m]
  <2>1. CASE s = series /\ m = o.period
    BY <1>1, <1>4, <2>1
  <2>2. CASE ~(s = series /\ m = o.period)
    <3>1. m \in DOMAIN rows[s] /\ w[s][m] = rows[s][m]
      BY <1>4, <2>2
    <3>2. PICK v \in versions : v.series = s /\ v.period = m /\ v.to = Null /\ v.value = rows[s][m]
      BY <3>1 DEF RowsOK
    <3> QED  BY <3>1, <3>2
  <2> QED  BY <2>1, <2>2
<1>7. RowsOK(w, later)
  BY <1>4, <1>5, <1>6 DEF RowsOK
<1> QED  BY <1>2, <1>3, <1>7 DEF new, w

\* A version after a revision: closed if it was the open one.
ClosedAt(v, open, at) == IF v \in open THEN [v EXCEPT !.to = at] ELSE v

VersionsAfter(versions, open, at, new) ==
    (versions \ open) \cup {[v EXCEPT !.to = at] : v \in open} \cup {new}

\* What closing some versions changes.
OnlyClosed(versions, open, at, new) ==
    /\ \A v \in versions : ClosedAt(v, open, at) \in VersionsAfter(versions, open, at, new)
    /\ new \in VersionsAfter(versions, open, at, new)
    /\ \A w \in VersionsAfter(versions, open, at, new) :
         w = new \/ \E v \in versions : w = ClosedAt(v, open, at)
    /\ \A v \in versions :
         /\ IsVersion(ClosedAt(v, open, at)) /\ SameKey(ClosedAt(v, open, at), v)
         /\ ClosedAt(v, open, at).at = v.at /\ ClosedAt(v, open, at).type = v.type
         /\ ClosedAt(v, open, at).backfilled = v.backfilled
         /\ ClosedAt(v, open, at).origin = v.origin /\ ClosedAt(v, open, at).value = v.value
         /\ ClosedAt(v, open, at).to = IF v \in open THEN at ELSE v.to

\* Closing the open version of an observation leaves the others.
LEMMA ClosedVersions ==
    ASSUME NEW versions, NEW open \in SUBSET versions, NEW at \in Nat, NEW new,
           \A v \in versions : IsVersion(v)
    PROVE  OnlyClosed(versions, open, at, new)
<1>1. ASSUME NEW v \in versions
      PROVE  /\ IsVersion(ClosedAt(v, open, at)) /\ SameKey(ClosedAt(v, open, at), v)
             /\ ClosedAt(v, open, at).at = v.at /\ ClosedAt(v, open, at).type = v.type
             /\ ClosedAt(v, open, at).backfilled = v.backfilled
             /\ ClosedAt(v, open, at).origin = v.origin /\ ClosedAt(v, open, at).value = v.value
             /\ ClosedAt(v, open, at).to = IF v \in open THEN at ELSE v.to
  <2>1. CASE v \notin open
    BY <2>1 DEF ClosedAt, SameKey
  <2>2. CASE v \in open
    <3>1. ClosedAt(v, open, at) = [v EXCEPT !.to = at]
      BY <2>2 DEF ClosedAt
    <3>2. DOMAIN v = {"series", "period", "value", "type", "backfilled", "at", "to", "origin"}
      BY DEF IsVersion
    <3> DEFINE w == [v EXCEPT !.to = at]
    <3>3. /\ DOMAIN w = DOMAIN v /\ w.series = v.series /\ w.period = v.period /\ w.value = v.value
          /\ w.type = v.type /\ w.backfilled = v.backfilled /\ w.at = v.at /\ w.origin = v.origin
          /\ w.to = at
      BY <3>2
    <3>4. w = [f \in DOMAIN w |-> w[f]]
      OBVIOUS
    <3> HIDE DEF w
    <3>5. IsVersion(w)
      BY <3>3, <3>4 DEF IsVersion
    <3> QED  BY <2>2, <3>1, <3>3, <3>5 DEF SameKey, w
  <2> QED  BY <2>1, <2>2
<1>2. \A v \in versions : ClosedAt(v, open, at) \in VersionsAfter(versions, open, at, new)
  BY DEF ClosedAt, VersionsAfter
<1>3. \A w \in VersionsAfter(versions, open, at, new) :
        w = new \/ \E v \in versions : w = ClosedAt(v, open, at)
  BY DEF ClosedAt, VersionsAfter
<1>4. new \in VersionsAfter(versions, open, at, new)
  BY DEF VersionsAfter
<1> QED  BY <1>1, <1>2, <1>3, <1>4 DEF OnlyClosed

\* A later version: the open one, of an earlier instant, is closed by it.
LEMMA RevisedOK ==
    ASSUME NEW rows, NEW versions, NEW now \in Nat, VersionsOK(versions, now), RowsOK(rows, versions),
           NEW series \in StoredSeries, NEW o, o.period \in Int, o.period \in DOMAIN rows[series],
           NEW baseline, NEW origin,
           NEW open, open = {v \in versions : v.series = series /\ v.period = o.period /\ v.to = Null},
           ~(\E v \in open : v.at >= now)
    PROVE  LET new == OpenedVersion(series, o, "REVISED", baseline, now, origin)
           IN  /\ VersionsOK(VersionsAfter(versions, open, now, new), now)
               /\ RowsOK(RowWritten(rows, series, o), VersionsAfter(versions, open, now, new))
               /\ \A v \in versions : SameKey(v, new) => v.at < now
<1> DEFINE new == OpenedVersion(series, o, "REVISED", baseline, now, origin)
           later == VersionsAfter(versions, open, now, new)
           closed(v) == ClosedAt(v, open, now)
           w == RowWritten(rows, series, o)
<1>1. /\ IsVersion(new) /\ new.series = series /\ new.period = o.period /\ new.at = now /\ new.to = Null
      /\ new.type = "REVISED" /\ new.value = o.value /\ new.backfilled = FALSE
  BY DEF IsVersion, OpenedVersion
<1>2. /\ open \in SUBSET versions /\ IsFiniteSet(versions)
      /\ \A v \in versions : IsVersion(v) /\ v.at \in Nat /\ v.at =< now
  BY DEF VersionsOK, IsVersion
<1> HIDE DEF new
<1>3. PICK held \in open : TRUE
  BY DEF RowsOK
<1>4. held \in versions /\ SameKey(held, new) /\ held.to = Null /\ held.at < now
  <2>1. held \in versions /\ SameKey(held, new) /\ held.to = Null
    BY <1>1, <1>3 DEF SameKey
  <2>2. held.at \in Nat /\ ~(held.at >= now)
    BY <1>2, <1>3
  <2> QED  BY <2>1, <2>2
<1>5. \A v \in open : v = held
  BY <1>1, <1>3, OneOpenVersion DEF SameKey
<1>6. ASSUME NEW v \in versions, SameKey(v, new) PROVE v.at < now /\ v.at =< held.at
  <2>1. SameKey(v, held) /\ SameKey(held, v)
    BY <1>4, <1>6 DEF SameKey
  <2>2. ~(held.at < v.at)
    BY <1>4, <2>1 DEF VersionsOK
  <2>3. v.at \in Nat /\ held.at \in Nat
    BY <1>2, <1>4
  <2> QED  BY <1>4, <2>2, <2>3
<1>7. /\ \A v \in versions : closed(v) \in later
      /\ new \in later
      /\ \A x \in later : x = new \/ \E v \in versions : x = closed(v)
      /\ \A v \in versions :
           /\ IsVersion(closed(v)) /\ SameKey(closed(v), v)
           /\ closed(v).at = v.at /\ closed(v).type = v.type /\ closed(v).backfilled = v.backfilled
           /\ closed(v).origin = v.origin /\ closed(v).value = v.value
           /\ closed(v).to = IF v \in open THEN now ELSE v.to
  <2>1. open \in SUBSET versions /\ \A v \in versions : IsVersion(v)
    BY <1>2
  <2>2. now \in Nat
    OBVIOUS
  <2>3. OnlyClosed(versions, open, now, new)
    BY <2>1, <2>2, ClosedVersions
  <2> QED  BY <2>3 DEF OnlyClosed
<1>8. IsFiniteSet(later)
  <2>1. IsFiniteSet(versions \ open)
    BY <1>2, FS_Difference
  <2>2. IsFiniteSet((versions \ open) \cup {[held EXCEPT !.to = now]})
    BY <2>1, FS_AddElement
  <2>3. IsFiniteSet(((versions \ open) \cup {[held EXCEPT !.to = now]}) \cup {new})
    BY <2>2, FS_AddElement
  <2>4. {[v EXCEPT !.to = now] : v \in open} = {[held EXCEPT !.to = now]}
    <3>1. open = {held}
      BY <1>3, <1>5
    <3> QED  BY <3>1
  <2>5. later = ((versions \ open) \cup {[held EXCEPT !.to = now]}) \cup {new}
    BY <2>4 DEF VersionsAfter
  <2> QED  BY <2>3, <2>5
<1> HIDE DEF later, closed
<1>9. now # Null /\ ~(now < now) /\ now =< now
  BY NullIsNoNumber
<1>10. ASSUME NEW v \in versions
       PROVE  /\ closed(v).at =< now /\ (closed(v).to # Null => closed(v).at < closed(v).to)
              /\ v \in open => SameKey(v, new) /\ v.at < now
  <2>1. v \in open => SameKey(v, new) /\ v.at < now
    BY <1>1, <1>6 DEF SameKey
  <2> QED  BY <1>2, <1>7, <2>1 DEF VersionsOK
<1>11. \A x \in later : IsVersion(x) /\ x.at =< now /\ (x.to # Null => x.at < x.to)
  <2>1. new.at =< now /\ new.to = Null
    BY <1>1, <1>9
  <2> QED  BY <1>1, <1>7, <1>10, <2>1
<1>12. ASSUME NEW u \in versions, NEW v \in versions, SameKey(u, v)
       PROVE  /\ closed(u).at = closed(v).at => closed(u) = closed(v)
              /\ closed(u).at < closed(v).at => closed(u).to # Null /\ closed(u).to =< closed(v).at
              /\ closed(v).type = "NEW" => closed(v).at =< closed(u).at
  <2>1. u.at < v.at => u \notin open
    BY <1>12 DEF VersionsOK
  <2> QED  BY <1>7, <1>12, <2>1 DEF VersionsOK
<1>13. ASSUME NEW u \in versions, SameKey(u, new)
       PROVE  closed(u).at < now /\ closed(u).to # Null /\ closed(u).to =< now
  <2>1. u.at < now /\ u.at =< held.at /\ u.at \in Nat /\ held.at \in Nat
    BY <1>2, <1>4, <1>6, <1>13
  <2>2. CASE u = held
    BY <1>3, <1>7, <1>9, <2>1, <2>2
  <2>3. CASE u # held
    <3>1. SameKey(u, held) /\ u \notin open
      BY <1>4, <1>5, <1>13, <2>3 DEF SameKey
    <3>2. u.at # held.at
      BY <1>4, <2>3, <3>1 DEF VersionsOK
    <3>3. u.at < held.at
      BY <2>1, <3>2
    <3>4. u.to # Null /\ u.to =< held.at
      BY <1>4, <3>1, <3>3 DEF VersionsOK
    <3>5. u.to \in Nat /\ held.at < now
      BY <1>2, <1>4, <3>4 DEF IsVersion
    <3>6. u.to =< now
      BY <2>1, <3>4, <3>5
    <3> QED  BY <1>7, <2>1, <3>1, <3>4, <3>6
  <2> QED  BY <2>2, <2>3
<1>14. ASSUME NEW x \in later, NEW y \in later, SameKey(x, y)
       PROVE  /\ x.at = y.at => x = y
              /\ x.at < y.at => x.to # Null /\ x.to =< y.at
              /\ y.type = "NEW" => y.at =< x.at
  <2>1. CASE x = new /\ y = new
    BY <1>1, <1>9, <2>1
  <2>2. ASSUME NEW u \in versions, x = closed(u), y = new
        PROVE  /\ x.at = y.at => x = y
               /\ x.at < y.at => x.to # Null /\ x.to =< y.at
               /\ y.type = "NEW" => y.at =< x.at
    <3>1. SameKey(u, new)
      BY <1>7, <1>14, <2>2 DEF SameKey
    <3>2. closed(u).at \in Nat
      BY <1>2, <1>7
    <3> QED  BY <1>1, <1>13, <2>2, <3>1, <3>2
  <2>3. ASSUME NEW v \in versions, x = new, y = closed(v)
        PROVE  /\ x.at = y.at => x = y
               /\ x.at < y.at => x.to # Null /\ x.to =< y.at
               /\ y.type = "NEW" => y.at =< x.at
    <3>1. SameKey(v, new)
      BY <1>7, <1>14, <2>3 DEF SameKey
    <3>2. closed(v).at \in Nat /\ closed(v).at < now
      BY <1>2, <1>7, <1>13, <3>1
    <3> QED  BY <1>1, <2>3, <3>2
  <2>4. ASSUME NEW u \in versions, NEW v \in versions, x = closed(u), y = closed(v)
        PROVE  /\ x.at = y.at => x = y
               /\ x.at < y.at => x.to # Null /\ x.to =< y.at
               /\ y.type = "NEW" => y.at =< x.at
    <3>1. SameKey(u, v)
      BY <1>7, <1>14, <2>4 DEF SameKey
    <3> QED  BY <1>12, <2>4, <3>1
  <2> QED  BY <1>7, <2>1, <2>2, <2>3, <2>4
<1>15. ASSUME NEW x \in later, x.type = "REVISED"
       PROVE  ~x.backfilled /\ \E u \in later : SameKey(u, x) /\ u.to = x.at
  <2>1. CASE x = new
    <3>1. closed(held) \in later /\ SameKey(closed(held), new) /\ closed(held).to = now
      BY <1>3, <1>4, <1>7 DEF SameKey
    <3> QED  BY <1>1, <2>1, <3>1
  <2>2. ASSUME NEW v \in versions, x = closed(v)
        PROVE  ~x.backfilled /\ \E u \in later : SameKey(u, x) /\ u.to = x.at
    <3>1. v.type = "REVISED" /\ x.at = v.at /\ SameKey(x, v) /\ x.backfilled = v.backfilled
      BY <1>7, <1>15, <2>2
    <3>2. PICK u \in versions : SameKey(u, v) /\ u.to = v.at
      BY <3>1 DEF VersionsOK
    <3>3. u \notin open
      BY <1>2, <3>2, NullIsNoNumber
    <3>4. closed(u) \in later /\ SameKey(closed(u), x) /\ closed(u).to = x.at
      BY <1>7, <3>1, <3>2, <3>3 DEF SameKey
    <3>5. ~v.backfilled
      BY <3>1 DEF VersionsOK
    <3> QED  BY <3>1, <3>4, <3>5
  <2> QED  BY <1>7, <2>1, <2>2
<1>16. VersionsOK(later, now)
  BY <1>8, <1>11, <1>14, <1>15 DEF VersionsOK
<1>17. /\ BySeries(w)
       /\ \A s \in StoredSeries : History(w[s])
       /\ \A s \in StoredSeries : s # series => w[s] = rows[s]
       /\ DOMAIN w[series] = DOMAIN rows[series] \cup {o.period}
       /\ w[series][o.period] = o.value
       /\ \A m \in DOMAIN rows[series] : m # o.period => w[series][m] = rows[series][m]
  BY RowWrittenOK DEF RowsOK
<1> HIDE DEF w
<1>18. \A v \in later : v.series \in StoredSeries /\ v.period \in DOMAIN w[v.series]
  BY <1>1, <1>7, <1>17 DEF RowsOK, SameKey
<1>19. ASSUME NEW s \in StoredSeries, NEW m \in DOMAIN w[s]
       PROVE  \E v \in later : v.series = s /\ v.period = m /\ v.to = Null /\ v.value = w[s][m]
  <2>1. CASE s = series /\ m = o.period
    BY <1>1, <1>7, <1>17, <2>1
  <2>2. CASE ~(s = series /\ m = o.period)
    <3>1. m \in DOMAIN rows[s] /\ w[s][m] = rows[s][m]
      BY <1>17, <2>2
    <3>2. PICK v \in versions : v.series = s /\ v.period = m /\ v.to = Null /\ v.value = rows[s][m]
      BY <3>1 DEF RowsOK
    <3>3. v \notin open
      BY <2>2, <3>2
    <3>4. closed(v) \in later /\ closed(v).series = s /\ closed(v).period = m /\ closed(v).to = Null
          /\ closed(v).value = w[s][m]
      BY <1>7, <3>1, <3>2, <3>3 DEF SameKey
    <3> QED  BY <3>4
  <2> QED  BY <2>1, <2>2
<1>20. RowsOK(w, later)
  BY <1>17, <1>18, <1>19 DEF RowsOK
<1> QED  BY <1>6, <1>16, <1>20 DEF new, w, later

\* What a write does to rows and versions.
Wrote(st, w, series, o, baseline, at, origin) ==
    /\ IsStore(w)
    /\ w.provenance = st.provenance /\ w.inserted = st.inserted /\ w.revised = st.revised
    /\ WriteOutcome(st, series, o) \in {"UNCHANGED", "INSERTED", "REVISED"}
    /\ WriteOutcome(st, series, o) = "UNCHANGED" =>
         /\ o.period \in DOMAIN st.rows[series] /\ SameValue(st.rows[series][o.period], o.value)
         /\ w.rows = st.rows /\ w.versions = st.versions /\ w.raised = st.raised
    /\ WriteOutcome(st, series, o) = "INSERTED" =>
         /\ o.period \notin DOMAIN st.rows[series]
         /\ w.rows = RowWritten(st.rows, series, o) /\ w.raised = st.raised
         /\ w.versions = st.versions \cup {OpenedVersion(series, o, "NEW", baseline, at, origin)}
    /\ WriteOutcome(st, series, o) = "REVISED" =>
         /\ o.period \in DOMAIN st.rows[series] /\ ~SameValue(st.rows[series][o.period], o.value)
         /\ w.rows = RowWritten(st.rows, series, o)
         /\ w.versions = VersionsAfter(st.versions, OpenVersionsOf(st, series, o.period), at,
                                       OpenedVersion(series, o, "REVISED", baseline, at, origin))
         /\ w.raised = (st.raised \/ \E v \in OpenVersionsOf(st, series, o.period) : v.at >= at)

\* save_observation: what a write changes, or why it raises.
LEMMA WriteEffect ==
    ASSUME NEW st, IsStore(st), NEW series, NEW o, NEW baseline, NEW at, NEW origin
    PROVE  Wrote(st, WriteObservation(st, series, o, baseline, at, origin), series, o, baseline, at, origin)
<1> DEFINE outcome == WriteOutcome(st, series, o)
           w == WriteObservation(st, series, o, baseline, at, origin)
           open == OpenVersionsOf(st, series, o.period)
           row == RowWritten(st.rows, series, o)
           opened(type) == OpenedVersion(series, o, type, baseline, at, origin)
<1>1. DOMAIN st = {"rows", "versions", "provenance", "raised", "inserted", "revised"}
  BY DEF IsStore
<1>2. /\ outcome \in {"UNCHANGED", "INSERTED", "REVISED"}
      /\ outcome = "UNCHANGED" => o.period \in DOMAIN st.rows[series] /\ SameValue(st.rows[series][o.period], o.value)
      /\ outcome = "INSERTED" => o.period \notin DOMAIN st.rows[series]
      /\ outcome = "REVISED" => o.period \in DOMAIN st.rows[series] /\ ~SameValue(st.rows[series][o.period], o.value)
  BY DEF WriteOutcome, HasRow
<1>3. /\ outcome = "UNCHANGED" => w = st
      /\ outcome = "INSERTED" => w = [st EXCEPT !.rows = row, !.versions = @ \cup {opened("NEW")}]
      /\ outcome = "REVISED" => w = [st EXCEPT !.rows = row,
                                               !.versions = VersionsAfter(@, open, at, opened("REVISED")),
                                               !.raised = @ \/ \E v \in open : v.at >= at]
  BY <1>2 DEF WriteObservation, RowWritten, VersionsAfter
<1> HIDE DEF outcome, w, open, row, opened
<1>4. CASE outcome = "UNCHANGED"
  BY <1>2, <1>3, <1>4 DEF Wrote, outcome, w, open, row, opened
<1>5. CASE outcome = "INSERTED"
  <2>1. /\ DOMAIN w = DOMAIN st /\ w = [f \in DOMAIN w |-> w[f]]
        /\ w.rows = row /\ w.versions = st.versions \cup {opened("NEW")}
        /\ w.provenance = st.provenance /\ w.inserted = st.inserted /\ w.revised = st.revised
        /\ w.raised = st.raised
    BY <1>1, <1>3, <1>5
  <2>2. IsStore(w)
    BY <1>1, <2>1 DEF IsStore
  <2> QED  BY <1>2, <1>5, <2>1, <2>2 DEF Wrote, outcome, w, open, row, opened
<1>6. CASE outcome = "REVISED"
  <2>1. /\ DOMAIN w = DOMAIN st /\ w = [f \in DOMAIN w |-> w[f]]
        /\ w.rows = row /\ w.versions = VersionsAfter(st.versions, open, at, opened("REVISED"))
        /\ w.provenance = st.provenance /\ w.inserted = st.inserted /\ w.revised = st.revised
        /\ w.raised = (st.raised \/ \E v \in open : v.at >= at)
    BY <1>1, <1>3, <1>6
  <2>2. IsStore(w)
    BY <1>1, <2>1 DEF IsStore
  <2> QED  BY <1>2, <1>6, <2>1, <2>2 DEF Wrote, outcome, w, open, row, opened
<1> QED  BY <1>2, <1>4, <1>5, <1>6

---------------------------------------------------------------------------
(* What a transaction has written so far of what it was answered *)

\* Two values for one observation (a value that is no number is two).
Conflict(done) == \E q, r \in done : SameKey(q, r) /\ ~SameValue(q.value, r.value)

Answered(rows, done) ==
    \A r \in done : /\ r.series \in StoredSeries /\ r.period \in DOMAIN rows[r.series]
                    /\ \E q \in done : SameKey(q, r) /\ rows[r.series][r.period] = q.value

\* Every version of this command comes from an answer.
FromAnswers(versions, since, origin, done) ==
    \A v \in versions : v.at > since =>
        v.origin = origin /\ \E r \in done : SameKey(r, v) /\ r.value = v.value

Untouched(rows, before, done) ==
    \A s \in StoredSeries : (\A r \in done : r.series # s) => rows[s] = before[s]

\* Whether a write of this origin is history, by the rows before the command.
IsHistory(before, origin, series, period) ==
    /\ origin \in {"FIRST_PARTY", "HOUSING"}
    /\ DOMAIN before[series] = {} \/ \E m \in DOMAIN before[series] : m > period

JudgedByBefore(versions, since, before) ==
    \A v \in versions : v.at > since =>
        (v.backfilled <=> v.type = "NEW" /\ IsHistory(before, v.origin, v.series, v.period))

Account(rows, versions, before, since, now, origin, done) ==
    /\ VersionsOK(versions, now) /\ RowsOK(rows, versions)
    /\ Answered(rows, done) /\ FromAnswers(versions, since, origin, done)
    /\ Untouched(rows, before, done) /\ JudgedByBefore(versions, since, before)

Answer(series, o) == [series |-> series, period |-> o.period, value |-> o.value]

\* A later answer keeps what earlier ones stored, unless they disagree.
LEMMA AnswersGrow ==
    ASSUME NEW rows, NEW later, NEW versions, NEW before, NEW since, NEW origin, NEW done,
           NEW series \in StoredSeries, NEW o,
           Answered(rows, done), Untouched(rows, before, done),
           \A s \in StoredSeries : s # series => later[s] = rows[s],
           DOMAIN rows[series] \subseteq DOMAIN later[series],
           o.period \in DOMAIN later[series], later[series][o.period] = o.value,
           \A m \in DOMAIN rows[series] : m # o.period => later[series][m] = rows[series][m]
    PROVE  /\ Answered(later, done \cup {Answer(series, o)})
           /\ Untouched(later, before, done \cup {Answer(series, o)})
<1> DEFINE a == Answer(series, o)
           more == done \cup {a}
<1>1. a.series = series /\ a.period = o.period /\ a.value = o.value
  BY DEF Answer
<1> HIDE DEF a
<1>2. ASSUME NEW r \in more
      PROVE  /\ r.series \in StoredSeries /\ r.period \in DOMAIN later[r.series]
             /\ \E q \in more : SameKey(q, r) /\ later[r.series][r.period] = q.value
  <2>1. CASE r.series = series /\ r.period = o.period
    BY <1>1, <2>1 DEF SameKey
  <2>2. CASE ~(r.series = series /\ r.period = o.period)
    <3>1. r \in done
      BY <1>1, <2>2
    <3>2. /\ r.series \in StoredSeries /\ r.period \in DOMAIN rows[r.series]
          /\ \E q \in done : SameKey(q, r) /\ rows[r.series][r.period] = q.value
      BY <3>1 DEF Answered
    <3>3. r.period \in DOMAIN later[r.series] /\ later[r.series][r.period] = rows[r.series][r.period]
      BY <2>2, <3>2
    <3> QED  BY <3>2, <3>3
  <2> QED  BY <2>1, <2>2
<1>3. ASSUME NEW s \in StoredSeries, \A r \in more : r.series # s PROVE later[s] = before[s]
  BY <1>1, <1>3 DEF Untouched
<1> QED  BY <1>2, <1>3 DEF Answered, Untouched, a

\* A version that joins others, of which some are closed.
Joins(new, versions, later) ==
    \A w \in later : w = new \/ \E v \in versions :
       /\ SameKey(w, v) /\ w.at = v.at /\ w.type = v.type /\ w.backfilled = v.backfilled
       /\ w.origin = v.origin /\ w.value = v.value

RightlyJudged(v, before) ==
    v.backfilled <=> v.type = "NEW" /\ IsHistory(before, v.origin, v.series, v.period)

\* The version a write opens is stamped with the moment of its command.
LEMMA VersionJoins ==
    ASSUME NEW versions, NEW later, NEW before, NEW since, NEW origin, NEW done, NEW new, NEW x,
           FromAnswers(versions, since, origin, done), JudgedByBefore(versions, since, before),
           Joins(new, versions, later), RightlyJudged(new, before),
           new.origin = origin, SameKey(x, new), x.value = new.value
    PROVE  /\ FromAnswers(later, since, origin, done \cup {x})
           /\ JudgedByBefore(later, since, before)
<1>1. ASSUME NEW w \in later, w.at > since
      PROVE  /\ w.origin = origin /\ \E r \in done \cup {x} : SameKey(r, w) /\ r.value = w.value
             /\ w.backfilled <=> w.type = "NEW" /\ IsHistory(before, w.origin, w.series, w.period)
  <2>1. CASE w = new
    BY <2>1 DEF RightlyJudged
  <2>2. CASE w # new
    <3>1. PICK v \in versions : /\ SameKey(w, v) /\ w.at = v.at /\ w.type = v.type
                                /\ w.backfilled = v.backfilled
                                /\ w.origin = v.origin /\ w.value = v.value
      BY <2>2 DEF Joins
    <3>2. v.at > since
      BY <1>1, <3>1
    <3>3. v.origin = origin /\ \E r \in done : SameKey(r, v) /\ r.value = v.value
      BY <3>2 DEF FromAnswers
    <3>4. v.backfilled <=> v.type = "NEW" /\ IsHistory(before, v.origin, v.series, v.period)
      BY <3>2 DEF JudgedByBefore
    <3> QED  BY <3>1, <3>3, <3>4 DEF SameKey
  <2> QED  BY <2>1, <2>2
<1> QED  BY <1>1 DEF FromAnswers, JudgedByBefore

\* A write tells what it inserted and revised.
LEMMA WriteKeepsAccount ==
    ASSUME NEW st, NEW w, NEW series \in StoredSeries, NEW o, o.period \in Int, NEW baseline,
           NEW at \in Nat, NEW origin, NEW before, NEW since \in Nat, NEW done,
           Wrote(st, w, series, o, baseline, at, origin), ~w.raised,
           Account(st.rows, st.versions, before, since, at, origin, done),
           baseline <=> IsHistory(before, origin, series, o.period)
    PROVE  Account(w.rows, w.versions, before, since, at, origin, done \cup {Answer(series, o)})
<1> DEFINE x == Answer(series, o)
           row == RowWritten(st.rows, series, o)
<1>1. x.series = series /\ x.period = o.period /\ x.value = o.value
  BY DEF Answer
<1>2. /\ VersionsOK(st.versions, at) /\ RowsOK(st.rows, st.versions)
      /\ Answered(st.rows, done) /\ FromAnswers(st.versions, since, origin, done)
      /\ Untouched(st.rows, before, done) /\ JudgedByBefore(st.versions, since, before)
  BY DEF Account
<1>3. /\ \A s \in StoredSeries : s # series => row[s] = st.rows[s]
      /\ DOMAIN row[series] = DOMAIN st.rows[series] \cup {o.period}
      /\ row[series][o.period] = o.value
      /\ \A m \in DOMAIN st.rows[series] : m # o.period => row[series][m] = st.rows[series][m]
  BY <1>2, RowWrittenOK DEF RowsOK
<1> HIDE DEF x, row
<1>4. Answered(row, done \cup {x}) /\ Untouched(row, before, done \cup {x})
  BY <1>2, <1>3, AnswersGrow DEF x
<1>5. CASE WriteOutcome(st, series, o) = "UNCHANGED"
  <2>1. /\ o.period \in DOMAIN st.rows[series] /\ st.rows[series][o.period] = o.value
        /\ w.rows = st.rows /\ w.versions = st.versions
    BY <1>5 DEF Wrote, SameValue
  <2>2. Answered(st.rows, done \cup {x}) /\ Untouched(st.rows, before, done \cup {x})
    BY <1>2, <2>1, AnswersGrow DEF x
  <2>3. FromAnswers(st.versions, since, origin, done \cup {x})
    BY <1>2 DEF FromAnswers
  <2> QED  BY <1>2, <2>1, <2>2, <2>3 DEF Account, x
<1>6. CASE WriteOutcome(st, series, o) = "INSERTED"
  <2> DEFINE new == OpenedVersion(series, o, "NEW", baseline, at, origin)
             later == st.versions \cup {new}
  <2>1. /\ o.period \notin DOMAIN st.rows[series] /\ w.rows = row /\ w.versions = later
    BY <1>6 DEF Wrote, row
  <2>2. VersionsOK(later, at) /\ RowsOK(row, later)
    BY <1>2, <2>1, InsertedOK DEF row
  <2>3. /\ new.origin = origin /\ SameKey(x, new) /\ x.value = new.value /\ new.type = "NEW"
        /\ new.series = series /\ new.period = o.period
        /\ RightlyJudged(new, before)
    BY <1>1 DEF OpenedVersion, SameKey, RightlyJudged
  <2>4. Joins(new, st.versions, later)
    BY DEF SameKey, Joins
  <2> HIDE DEF new, later
  <2>5. FromAnswers(later, since, origin, done \cup {x}) /\ JudgedByBefore(later, since, before)
    BY <1>2, <2>3, <2>4, VersionJoins
  <2> QED  BY <1>4, <2>1, <2>2, <2>5 DEF Account, x
<1>7. CASE WriteOutcome(st, series, o) = "REVISED"
  <2> DEFINE new == OpenedVersion(series, o, "REVISED", baseline, at, origin)
             open == OpenVersionsOf(st, series, o.period)
             later == VersionsAfter(st.versions, open, at, new)
  <2>1. /\ o.period \in DOMAIN st.rows[series] /\ w.rows = row /\ w.versions = later
        /\ ~(\E v \in open : v.at >= at)
    BY <1>7 DEF Wrote, row
  <2>2. open = {v \in st.versions : v.series = series /\ v.period = o.period /\ v.to = Null}
    BY DEF OpenVersionsOf
  <2> HIDE DEF open
  <2>3. VersionsOK(later, at) /\ RowsOK(row, later)
    BY <1>2, <2>1, <2>2, RevisedOK DEF row
  <2>4. /\ new.origin = origin /\ SameKey(x, new) /\ x.value = new.value /\ new.type = "REVISED"
        /\ RightlyJudged(new, before)
    BY <1>1 DEF OpenedVersion, SameKey, RightlyJudged
  <2>5. OnlyClosed(st.versions, open, at, new)
    <3>1. open \in SUBSET st.versions /\ \A v \in st.versions : IsVersion(v)
      BY <1>2, <2>2 DEF VersionsOK
    <3> HIDE DEF new
    <3> QED  BY <3>1, ClosedVersions
  <2>6. Joins(new, st.versions, later)
    <3> HIDE DEF new
    <3> QED  BY <2>5 DEF OnlyClosed, Joins
  <2> HIDE DEF new, later
  <2>7. FromAnswers(later, since, origin, done \cup {x}) /\ JudgedByBefore(later, since, before)
    BY <1>2, <2>4, <2>6, VersionJoins
  <2> QED  BY <1>4, <2>1, <2>3, <2>7 DEF Account, x
<1> QED  BY <1>5, <1>6, <1>7 DEF Wrote

\* A write raises only over an answer of this command for the same observation.
LEMMA RaiseIsConflict ==
    ASSUME NEW st, NEW w, NEW series \in StoredSeries, NEW o, o.period \in Int, NEW baseline,
           NEW at \in Nat, NEW origin, NEW before, NEW since \in Nat, since < at, NEW done,
           Wrote(st, w, series, o, baseline, at, origin), ~st.raised, w.raised,
           Account(st.rows, st.versions, before, since, at, origin, done)
    PROVE  Conflict(done \cup {Answer(series, o)})
<1> DEFINE x == Answer(series, o)
<1>1. x.series = series /\ x.period = o.period /\ x.value = o.value
  BY DEF Answer
<1> HIDE DEF x
<1>2. /\ VersionsOK(st.versions, at) /\ RowsOK(st.rows, st.versions)
      /\ FromAnswers(st.versions, since, origin, done)
  BY DEF Account
<1>3. /\ o.period \in DOMAIN st.rows[series] /\ ~SameValue(st.rows[series][o.period], o.value)
      /\ \E v \in OpenVersionsOf(st, series, o.period) : v.at >= at
  BY DEF Wrote
<1>4. PICK v \in st.versions : /\ v.series = series /\ v.period = o.period /\ v.to = Null /\ v.at >= at
  BY <1>3 DEF OpenVersionsOf
<1>5. PICK u \in st.versions : /\ u.series = series /\ u.period = o.period /\ u.to = Null
                               /\ u.value = st.rows[series][o.period]
  BY <1>2, <1>3 DEF RowsOK
<1>6. u = v
  BY <1>2, <1>4, <1>5, OneOpenVersion DEF SameKey
<1>7. v.at > since
  <2>1. v.at \in Nat
    BY <1>2 DEF VersionsOK, IsVersion
  <2> QED  BY <1>4, <2>1
<1>8. PICK r \in done : SameKey(r, v) /\ r.value = v.value
  BY <1>2, <1>7 DEF FromAnswers
<1>9. SameKey(r, x) /\ ~SameValue(r.value, x.value)
  BY <1>1, <1>3, <1>4, <1>5, <1>6, <1>8 DEF SameKey
<1> QED  BY <1>9 DEF Conflict, x

\* One more version, and none lost.
Extended(new, versions, later) ==
    /\ Joins(new, versions, later) /\ new \in later
    /\ \A v \in versions : \E w \in later :
         /\ SameKey(w, v) /\ w.at = v.at /\ w.type = v.type /\ w.backfilled = v.backfilled
         /\ w.origin = v.origin /\ w.value = v.value

\* What a write adds, when it writes.
AddedBy(new, versions, later, series, o, at, origin, type) ==
    /\ Extended(new, versions, later)
    /\ new.series = series /\ new.period = o.period /\ new.at = at /\ new.origin = origin /\ new.type = type
    /\ \A v \in versions : SameKey(v, new) => v.at < at

\* A write adds the version it counts and no other.
LEMMA WriteAdds ==
    ASSUME NEW st, NEW w, NEW series \in StoredSeries, NEW o, o.period \in Int, NEW baseline,
           NEW at \in Nat, NEW origin, Wrote(st, w, series, o, baseline, at, origin), ~w.raised,
           VersionsOK(st.versions, at), RowsOK(st.rows, st.versions)
    PROVE  /\ WriteOutcome(st, series, o) = "INSERTED" =>
                \E new : AddedBy(new, st.versions, w.versions, series, o, at, origin, "NEW")
           /\ WriteOutcome(st, series, o) = "REVISED" =>
                \E new : AddedBy(new, st.versions, w.versions, series, o, at, origin, "REVISED")
<1>1. CASE WriteOutcome(st, series, o) = "INSERTED"
  <2> DEFINE new == OpenedVersion(series, o, "NEW", baseline, at, origin)
             later == st.versions \cup {new}
  <2>1. o.period \notin DOMAIN st.rows[series] /\ w.versions = later
    BY <1>1 DEF Wrote
  <2>2. \A v \in st.versions : ~SameKey(v, new)
    BY <2>1, InsertedOK
  <2>3. /\ new.series = series /\ new.period = o.period /\ new.at = at /\ new.origin = origin
        /\ new.type = "NEW"
    BY DEF OpenedVersion
  <2>4. Extended(new, st.versions, later)
    <3> HIDE DEF new
    <3> QED  BY DEF Extended, Joins, SameKey
  <2> HIDE DEF new
  <2>5. AddedBy(new, st.versions, w.versions, series, o, at, origin, "NEW")
    BY <2>1, <2>2, <2>3, <2>4 DEF AddedBy
  <2> QED  BY <1>1, <2>5
<1>2. CASE WriteOutcome(st, series, o) = "REVISED"
  <2> DEFINE new == OpenedVersion(series, o, "REVISED", baseline, at, origin)
             open == OpenVersionsOf(st, series, o.period)
             later == VersionsAfter(st.versions, open, at, new)
  <2>1. /\ o.period \in DOMAIN st.rows[series] /\ w.versions = later
        /\ ~(\E v \in open : v.at >= at)
    BY <1>2 DEF Wrote
  <2>2. open = {v \in st.versions : v.series = series /\ v.period = o.period /\ v.to = Null}
    BY DEF OpenVersionsOf
  <2> HIDE DEF open
  <2>3. \A v \in st.versions : SameKey(v, new) => v.at < at
    BY <2>1, <2>2, RevisedOK
  <2>4. /\ new.series = series /\ new.period = o.period /\ new.at = at /\ new.origin = origin
        /\ new.type = "REVISED"
    BY DEF OpenedVersion
  <2> HIDE DEF new
  <2>5. OnlyClosed(st.versions, open, at, new)
    <3>1. open \in SUBSET st.versions /\ \A v \in st.versions : IsVersion(v)
      BY <2>2 DEF VersionsOK
    <3> QED  BY <3>1, ClosedVersions
  <2>6. Extended(new, st.versions, later)
    BY <2>5 DEF OnlyClosed, Extended, Joins
  <2>7. AddedBy(new, st.versions, w.versions, series, o, at, origin, "REVISED")
    BY <2>1, <2>3, <2>4, <2>6 DEF AddedBy
  <2> QED  BY <1>2, <2>7
<1> QED  BY <1>1, <1>2

---------------------------------------------------------------------------
(* Revisions counted by provenance, and versions counted by runs *)

CountsFor(v, key, first, same) ==
    /\ v.series = key[1] /\ v.period = key[2] /\ v.type = "REVISED" /\ v.origin \in IngestionOrigins
    /\ v.at > first \/ (same /\ v.at = first)

\* When the revisions that count were recorded.
CountedAt(versions, key, first, same) ==
    {v.at : v \in {w \in versions : CountsFor(w, key, first, same)}}

Ids(versions, origin, type) ==
    {<<v.series, v.period, v.at>> : v \in {u \in versions : u.origin = origin /\ u.type = type}}

\* The versions a provenance row counts are finitely many,
LEMMA CountedIsFinite ==
    ASSUME NEW versions, IsFiniteSet(versions), NEW key, NEW first, NEW same
    PROVE  IsFiniteSet(CountedAt(versions, key, first, same))
<1> DEFINE S == {w \in versions : CountsFor(w, key, first, same)}
           f == [v \in S |-> v.at]
<1>1. IsFiniteSet(S)
  BY FS_Subset
<1> HIDE DEF S
<1>2. IsFiniteSet({f[v] : v \in S})
  <2>1. f \in [S -> {f[v] : v \in S}]
    OBVIOUS
  <2> HIDE DEF f
  <2>2. f \in Surjection(S, {f[v] : v \in S})
    BY <2>1 DEF Surjection
  <2> QED  BY <1>1, <2>2, FS_Surjection
<1>3. {f[v] : v \in S} = {v.at : v \in S}
  OBVIOUS
<1> QED  BY <1>2, <1>3 DEF CountedAt, S

\* as are those an origin wrote.
LEMMA IdsAreFinite ==
    ASSUME NEW versions, IsFiniteSet(versions), NEW origin, NEW type
    PROVE  IsFiniteSet(Ids(versions, origin, type))
<1> DEFINE S == {u \in versions : u.origin = origin /\ u.type = type}
           f == [v \in S |-> <<v.series, v.period, v.at>>]
<1>1. IsFiniteSet(S)
  BY FS_Subset
<1> HIDE DEF S
<1>2. IsFiniteSet({f[v] : v \in S})
  <2>1. f \in [S -> {f[v] : v \in S}]
    OBVIOUS
  <2> HIDE DEF f
  <2>2. f \in Surjection(S, {f[v] : v \in S})
    BY <2>1 DEF Surjection
  <2> QED  BY <1>1, <2>2, FS_Surjection
<1>3. {f[v] : v \in S} = {<<v.series, v.period, v.at>> : v \in S}
  OBVIOUS
<1> QED  BY <1>2, <1>3 DEF Ids, S

\* What is counted before and after a write.
LEMMA CountedGrows ==
    ASSUME NEW new, NEW versions, NEW later, Extended(new, versions, later), NEW key, NEW first, NEW same
    PROVE  /\ CountsFor(new, key, first, same) =>
                CountedAt(later, key, first, same) = CountedAt(versions, key, first, same) \cup {new.at}
           /\ ~CountsFor(new, key, first, same) =>
                CountedAt(later, key, first, same) = CountedAt(versions, key, first, same)
<1>1. ASSUME NEW v \in versions, CountsFor(v, key, first, same)
      PROVE  v.at \in CountedAt(later, key, first, same)
  <2>1. PICK w \in later : SameKey(w, v) /\ w.at = v.at /\ w.type = v.type /\ w.origin = v.origin
    BY DEF Extended
  <2>2. CountsFor(w, key, first, same)
    BY <1>1, <2>1 DEF CountsFor, SameKey
  <2> QED  BY <2>1, <2>2 DEF CountedAt
<1>2. ASSUME NEW w \in later, CountsFor(w, key, first, same)
      PROVE  w = new \/ w.at \in CountedAt(versions, key, first, same)
  <2>1. CASE w # new
    <3>1. PICK v \in versions : SameKey(w, v) /\ w.at = v.at /\ w.type = v.type /\ w.origin = v.origin
      BY <2>1 DEF Extended, Joins
    <3>2. CountsFor(v, key, first, same)
      BY <1>2, <3>1 DEF CountsFor, SameKey
    <3> QED  BY <3>1, <3>2 DEF CountedAt
  <2> QED  BY <2>1
<1>3. CountedAt(versions, key, first, same) \subseteq CountedAt(later, key, first, same)
  BY <1>1 DEF CountedAt
<1>4. CountsFor(new, key, first, same) => new.at \in CountedAt(later, key, first, same)
  BY DEF CountedAt, Extended
<1>5. ASSUME NEW t \in CountedAt(later, key, first, same)
      PROVE  t \in CountedAt(versions, key, first, same)
               \/ (t = new.at /\ CountsFor(new, key, first, same))
  <2>1. PICK w \in later : CountsFor(w, key, first, same) /\ t = w.at
    BY DEF CountedAt
  <2>2. w = new \/ w.at \in CountedAt(versions, key, first, same)
    BY <1>2, <2>1
  <2>3. CASE w = new
    BY <2>1, <2>3
  <2>4. CASE w # new
    BY <2>1, <2>2, <2>4
  <2> QED  BY <2>3, <2>4
<1> QED  BY <1>3, <1>4, <1>5

\* What an origin wrote, before and after a write.
LEMMA IdsGrow ==
    ASSUME NEW new, NEW versions, NEW later, Extended(new, versions, later), NEW origin, NEW type
    PROVE  /\ new.origin = origin /\ new.type = type =>
                Ids(later, origin, type) = Ids(versions, origin, type) \cup {<<new.series, new.period, new.at>>}
           /\ ~(new.origin = origin /\ new.type = type) =>
                Ids(later, origin, type) = Ids(versions, origin, type)
<1> DEFINE id(v) == <<v.series, v.period, v.at>>
           isOne(v) == v.origin = origin /\ v.type = type
<1>1. ASSUME NEW v \in versions, isOne(v) PROVE id(v) \in Ids(later, origin, type)
  <2>1. PICK w \in later : SameKey(w, v) /\ w.at = v.at /\ w.type = v.type /\ w.origin = v.origin
    BY DEF Extended
  <2> QED  BY <1>1, <2>1 DEF Ids, SameKey
<1>2. ASSUME NEW w \in later, isOne(w) PROVE w = new \/ id(w) \in Ids(versions, origin, type)
  <2>1. CASE w # new
    <3>1. PICK v \in versions : SameKey(w, v) /\ w.at = v.at /\ w.type = v.type /\ w.origin = v.origin
      BY <2>1 DEF Extended, Joins
    <3> QED  BY <1>2, <3>1 DEF Ids, SameKey
  <2> QED  BY <2>1
<1>3. Ids(versions, origin, type) \subseteq Ids(later, origin, type)
  <2> SUFFICES ASSUME NEW i \in Ids(versions, origin, type) PROVE i \in Ids(later, origin, type)
    OBVIOUS
  <2>1. PICK v \in versions : isOne(v) /\ i = id(v)
    BY DEF Ids
  <2> QED  BY <1>1, <2>1
<1>4. isOne(new) => id(new) \in Ids(later, origin, type)
  BY DEF Ids, Extended
<1>5. ASSUME NEW i \in Ids(later, origin, type)
      PROVE  i \in Ids(versions, origin, type) \/ (i = id(new) /\ isOne(new))
  <2>1. PICK w \in later : isOne(w) /\ i = id(w)
    BY DEF Ids
  <2>2. w = new \/ id(w) \in Ids(versions, origin, type)
    BY <1>2, <2>1
  <2>3. CASE w = new
    BY <2>1, <2>3
  <2>4. CASE w # new
    BY <2>1, <2>2, <2>4
  <2> QED  BY <2>3, <2>4
<1> QED  BY <1>3, <1>4, <1>5

IsLast(t, times) == IF times = {} THEN t = Null ELSE t \in times /\ \A u \in times : u =< t

\* A provenance row counts the revisions since it was first seen.
Counts(p, versions, key, same) ==
    /\ p.revisions = Cardinality(CountedAt(versions, key, p.first_seen, same))
    /\ IsLast(p.revised_at, CountedAt(versions, key, p.first_seen, same))

IsProvenance(p, now) ==
    /\ DOMAIN p = {"first_seen", "retrieved", "revisions", "revised_at"}
    /\ p = [f \in DOMAIN p |-> p[f]]
    /\ p.first_seen \in Nat /\ p.first_seen =< now /\ p.retrieved \in Nat

ProvenanceOK(provenance, rows, versions, now) ==
    \A k \in DOMAIN provenance :
      /\ \E s \in StoredSeries, m \in Int : k = <<s, m>> /\ m \in DOMAIN rows[s]
      /\ IsProvenance(provenance[k], now)
      /\ \E same \in BOOLEAN : Counts(provenance[k], versions, k, same)

\* Time alone disturbs no provenance.
LEMMA ProvenanceWaits ==
    ASSUME NEW provenance, NEW rows, NEW versions, NEW now \in Nat, NEW then \in Nat, now =< then,
           ProvenanceOK(provenance, rows, versions, now)
    PROVE  ProvenanceOK(provenance, rows, versions, then)
BY DEF ProvenanceOK, IsProvenance

\* Nothing that counts is added.
SameCounts(k, versions, later) ==
    \A first, same : CountedAt(later, k, first, same) = CountedAt(versions, k, first, same)

\* A row whose counted versions are the same still counts them.
LEMMA CountsStay ==
    ASSUME NEW new, NEW versions, NEW later, Extended(new, versions, later), NEW k,
           ~(new.series = k[1] /\ new.period = k[2]) \/ new.type = "NEW" \/ new.origin \notin IngestionOrigins
    PROVE  SameCounts(k, versions, later)
<1> SUFFICES ASSUME NEW first, NEW same
             PROVE  CountedAt(later, k, first, same) = CountedAt(versions, k, first, same)
  BY DEF SameCounts
<1>1. ~CountsFor(new, k, first, same)
  BY DEF CountsFor
<1> QED  BY <1>1, CountedGrows

\* A write that counts.
LEMMA OneMoreCounts ==
    ASSUME NEW new, NEW versions, NEW later, NEW series, NEW o, NEW at \in Nat, NEW origin \in IngestionOrigins,
           AddedBy(new, versions, later, series, o, at, origin, "REVISED"), VersionsOK(versions, at),
           NEW p, IsProvenance(p, at), NEW same \in BOOLEAN, Counts(p, versions, <<series, o.period>>, same),
           NEW q, q.first_seen = p.first_seen, q.revisions = p.revisions + 1, q.revised_at = at
    PROVE  \E also \in BOOLEAN : Counts(q, later, <<series, o.period>>, also)
<1> DEFINE k == <<series, o.period>>
           C(s) == CountedAt(versions, k, p.first_seen, s)
           also == IF p.first_seen = at THEN TRUE ELSE same
<1>1. /\ Extended(new, versions, later) /\ new.series = series /\ new.period = o.period /\ new.at = at
      /\ new.origin = origin /\ new.type = "REVISED"
      /\ \A v \in versions : SameKey(v, new) => v.at < at
  BY DEF AddedBy
<1>2. CountsFor(new, k, p.first_seen, also)
  <2>1. p.first_seen \in Nat /\ p.first_seen =< at
    BY DEF IsProvenance
  <2>2. at > p.first_seen \/ at = p.first_seen
    BY <2>1
  <2> QED  BY <1>1, <2>2 DEF CountsFor
<1>3. CountedAt(later, k, p.first_seen, also) = C(also) \cup {at}
  <2>1. Extended(new, versions, later) /\ new.at = at
    BY <1>1
  <2> HIDE DEF also, k
  <2> QED  BY <1>2, <2>1, CountedGrows DEF C
<1>4. \A s : \A t \in C(s) : t \in Nat /\ t < at
  <2> SUFFICES ASSUME NEW s, NEW t \in C(s) PROVE t \in Nat /\ t < at
    OBVIOUS
  <2>1. PICK v \in versions : CountsFor(v, k, p.first_seen, s) /\ t = v.at
    BY DEF CountedAt
  <2>2. SameKey(v, new) /\ v.at \in Nat
    BY <1>1, <2>1 DEF CountsFor, SameKey, VersionsOK, IsVersion
  <2> QED  BY <1>1, <2>1, <2>2
<1>5. C(also) = C(same)
  <2>1. CASE p.first_seen = at
    <3>1. \A s : C(s) = {}
      <4> SUFFICES ASSUME NEW s, NEW t \in C(s) PROVE FALSE
        OBVIOUS
      <4>1. PICK v \in versions : CountsFor(v, k, p.first_seen, s) /\ t = v.at
        BY DEF CountedAt
      <4>2. t \in Nat /\ t < at
        BY <1>4
      <4>3. t > at \/ t = at
        BY <2>1, <4>1 DEF CountsFor
      <4> QED  BY <4>2, <4>3
    <3> QED  BY <3>1
  <2> QED  BY <2>1
<1>6. /\ p.revisions = Cardinality(C(same)) /\ IsFiniteSet(C(same))
  BY CountedIsFinite DEF Counts, VersionsOK
<1>7. also \in BOOLEAN
  OBVIOUS
<1> HIDE DEF also, C
<1>8. at \notin C(also) /\ \A t \in C(also) : t =< at
  BY <1>4
<1>9. Cardinality(C(also) \cup {at}) = Cardinality(C(also)) + 1
  BY <1>5, <1>6, <1>8, FS_AddElement
<1>10. Counts(q, later, k, also)
  <2>1. q.revisions = Cardinality(CountedAt(later, k, q.first_seen, also))
    BY <1>3, <1>5, <1>6, <1>9
  <2>2. IsLast(q.revised_at, CountedAt(later, k, q.first_seen, also))
    BY <1>3, <1>8 DEF IsLast
  <2> QED  BY <2>1, <2>2 DEF Counts
<1> QED  BY <1>7, <1>10

\* A provenance row that begins at the present instant has nothing to count.
LEMMA FreshCountsNothing ==
    ASSUME NEW versions, NEW at \in Nat, VersionsOK(versions, at), NEW k
    PROVE  IsProvenance(FreshProvenance(at), at) /\ Counts(FreshProvenance(at), versions, k, FALSE)
<1>1. CountedAt(versions, k, at, FALSE) = {}
  <2> SUFFICES ASSUME NEW t \in CountedAt(versions, k, at, FALSE) PROVE FALSE
    OBVIOUS
  <2>1. PICK v \in versions : CountsFor(v, k, at, FALSE)
    BY DEF CountedAt
  <2>2. v.at \in Nat /\ v.at =< at /\ v.at > at
    BY <2>1 DEF CountsFor, VersionsOK, IsVersion
  <2> QED  BY <2>2
<1>2. Cardinality({}) = 0
  BY FS_EmptySet
<1> DEFINE p == FreshProvenance(at)
<1>3. /\ DOMAIN p = {"first_seen", "retrieved", "revisions", "revised_at"} /\ p = [f \in DOMAIN p |-> p[f]]
      /\ p.first_seen = at /\ p.retrieved = at /\ p.revisions = 0 /\ p.revised_at = Null
  BY DEF FreshProvenance
<1> HIDE DEF p
<1>4. IsProvenance(p, at)
  BY <1>3 DEF IsProvenance
<1>5. Counts(p, versions, k, FALSE)
  BY <1>1, <1>2, <1>3 DEF Counts, IsLast
<1> QED  BY <1>4, <1>5 DEF p

\* What an upsert does to a provenance row.

\* upsert_provenance: the row of the key counts the write, the others stay.
LEMMA UpsertKeepsProvenance ==
    ASSUME NEW st, NEW w, NEW series \in StoredSeries, NEW o, o.period \in Int, NEW baseline,
           NEW at \in Nat, NEW origin \in IngestionOrigins, Wrote(st, w, series, o, baseline, at, origin), ~w.raised,
           VersionsOK(st.versions, at), RowsOK(st.rows, st.versions),
           VersionsOK(w.versions, at), RowsOK(w.rows, w.versions),
           ProvenanceOK(st.provenance, st.rows, st.versions, at),
           NEW provenance, provenance = UpsertProvenance(w, series, o.period, at,
                                                         WriteOutcome(st, series, o) = "REVISED").provenance
    PROVE  ProvenanceOK(provenance, w.rows, w.versions, at)
<1> DEFINE key == <<series, o.period>>
           outcome == WriteOutcome(st, series, o)
           old == st.provenance
<1>1. /\ DOMAIN provenance = DOMAIN old \cup {key}
      /\ \A k \in DOMAIN old : k # key => provenance[k] = old[k]
      /\ key \notin DOMAIN old => provenance[key] = FreshProvenance(at)
      /\ key \in DOMAIN old => provenance[key] = IF outcome = "REVISED"
           THEN [old[key] EXCEPT !.retrieved = at, !.revisions = @ + 1, !.revised_at = at]
           ELSE [old[key] EXCEPT !.retrieved = at]
  <2>1. w.provenance = old /\ DOMAIN w = {"rows", "versions", "provenance", "raised", "inserted", "revised"}
    BY DEF Wrote, IsStore
  <2>2. provenance = [k \in DOMAIN old \cup {key} |->
            CASE k # key -> old[k]
              [] k = key /\ key \notin DOMAIN old -> FreshProvenance(at)
              [] OTHER -> IF outcome = "REVISED"
                          THEN [old[k] EXCEPT !.retrieved = at, !.revisions = @ + 1, !.revised_at = at]
                          ELSE [old[k] EXCEPT !.retrieved = at]]
    <3>1. provenance = ProvenanceAfter(w.provenance, key, at, outcome = "REVISED")
      BY <2>1 DEF UpsertProvenance
    <3> HIDE DEF outcome, key, old
    <3> QED  BY <2>1, <3>1 DEF ProvenanceAfter
  <2> HIDE DEF key, outcome, old
  <2> QED  BY <2>2
<1>2. /\ outcome \in {"UNCHANGED", "INSERTED", "REVISED"}
      /\ outcome = "UNCHANGED" => w.versions = st.versions
      /\ outcome = "INSERTED" => \E new : AddedBy(new, st.versions, w.versions, series, o, at, origin, "NEW")
      /\ outcome = "REVISED" => \E new : AddedBy(new, st.versions, w.versions, series, o, at, origin, "REVISED")
  BY WriteAdds DEF Wrote
<1>3. /\ \A s \in StoredSeries : DOMAIN st.rows[s] \subseteq DOMAIN w.rows[s]
      /\ o.period \in DOMAIN w.rows[series]
      /\ outcome = "INSERTED" => o.period \notin DOMAIN st.rows[series]
  <2>1. /\ \A s \in StoredSeries : s # series => RowWritten(st.rows, series, o)[s] = st.rows[s]
        /\ DOMAIN RowWritten(st.rows, series, o)[series] = DOMAIN st.rows[series] \cup {o.period}
    BY RowWrittenOK DEF RowsOK
  <2> QED  BY <2>1 DEF Wrote
<1> HIDE DEF outcome, old
<1>4. ASSUME NEW k \in DOMAIN old
      PROVE  /\ \E s \in StoredSeries, m \in Int : k = <<s, m>> /\ m \in DOMAIN st.rows[s]
             /\ \E s \in StoredSeries, m \in Int : k = <<s, m>> /\ m \in DOMAIN w.rows[s]
             /\ IsProvenance(old[k], at)
             /\ \E same \in BOOLEAN : Counts(old[k], st.versions, k, same)
  <2>1. /\ \E s \in StoredSeries, m \in Int : k = <<s, m>> /\ m \in DOMAIN st.rows[s]
        /\ IsProvenance(old[k], at)
        /\ \E same \in BOOLEAN : Counts(old[k], st.versions, k, same)
    BY DEF ProvenanceOK, old
  <2> QED  BY <1>3, <2>1
<1>5. ASSUME NEW k, k # key \/ outcome # "REVISED", \E s, m : k = <<s, m>>
      PROVE  SameCounts(k, st.versions, w.versions)
  <2>1. CASE outcome = "UNCHANGED"
    BY <1>2, <2>1 DEF SameCounts
  <2>2. CASE outcome = "INSERTED"
    <3>1. PICK new : AddedBy(new, st.versions, w.versions, series, o, at, origin, "NEW")
      BY <1>2, <2>2
    <3> QED  BY <3>1, CountsStay DEF AddedBy
  <2>3. CASE outcome = "REVISED"
    <3>1. PICK new : AddedBy(new, st.versions, w.versions, series, o, at, origin, "REVISED")
      BY <1>2, <2>3
    <3>2. ~(new.series = k[1] /\ new.period = k[2])
      BY <1>5, <2>3, <3>1 DEF AddedBy
    <3> QED  BY <3>1, <3>2, CountsStay DEF AddedBy
  <2> QED  BY <1>2, <2>1, <2>2, <2>3
<1>6. ASSUME NEW k \in DOMAIN old, k # key
      PROVE  \E same \in BOOLEAN : Counts(provenance[k], w.versions, k, same)
  <2>1. SameCounts(k, st.versions, w.versions) /\ provenance[k] = old[k]
    BY <1>1, <1>4, <1>5, <1>6
  <2> QED  BY <1>4, <2>1 DEF Counts, SameCounts
<1>7. ASSUME key \notin DOMAIN old
      PROVE  /\ IsProvenance(provenance[key], at)
             /\ \E same \in BOOLEAN : Counts(provenance[key], w.versions, key, same)
  BY <1>1, <1>7, FreshCountsNothing
<1>8. ASSUME key \in DOMAIN old
      PROVE  /\ IsProvenance(provenance[key], at)
             /\ \E same \in BOOLEAN : Counts(provenance[key], w.versions, key, same)
  <2> DEFINE p == old[key]
             q == provenance[key]
  <2>1. /\ DOMAIN p = {"first_seen", "retrieved", "revisions", "revised_at"}
        /\ p = [f \in DOMAIN p |-> p[f]]
        /\ p.first_seen \in Nat /\ p.first_seen =< at /\ p.retrieved \in Nat
    BY <1>4, <1>8 DEF IsProvenance
  <2>2. PICK same \in BOOLEAN : Counts(p, st.versions, key, same)
    BY <1>4, <1>8
  <2> HIDE DEF p
  <2>3. CASE outcome = "REVISED"
    <3>1. q = [p EXCEPT !.retrieved = at, !.revisions = @ + 1, !.revised_at = at]
      BY <1>1, <1>8, <2>3 DEF p
    <3> HIDE DEF q
    <3>2. /\ DOMAIN q = DOMAIN p /\ q = [f \in DOMAIN q |-> q[f]] /\ q.first_seen = p.first_seen
          /\ q.retrieved = at /\ q.revisions = p.revisions + 1 /\ q.revised_at = at
      BY <2>1, <3>1
    <3>3. IsProvenance(q, at) /\ IsProvenance(p, at)
      BY <2>1, <3>2 DEF IsProvenance
    <3>4. PICK new : AddedBy(new, st.versions, w.versions, series, o, at, origin, "REVISED")
      BY <1>2, <2>3
    <3>5. \E also \in BOOLEAN : Counts(q, w.versions, key, also)
      BY <2>2, <3>2, <3>3, <3>4, OneMoreCounts
    <3> QED  BY <3>3, <3>5 DEF q
  <2>4. CASE outcome # "REVISED"
    <3>1. q = [p EXCEPT !.retrieved = at]
      BY <1>1, <1>8, <2>4 DEF p
    <3> HIDE DEF q
    <3>2. /\ DOMAIN q = DOMAIN p /\ q = [f \in DOMAIN q |-> q[f]] /\ q.first_seen = p.first_seen
          /\ q.retrieved = at /\ q.revisions = p.revisions /\ q.revised_at = p.revised_at
      BY <2>1, <3>1
    <3>3. IsProvenance(q, at)
      BY <2>1, <3>2 DEF IsProvenance
    <3>4. SameCounts(key, st.versions, w.versions)
      BY <1>5, <2>4
    <3>5. Counts(q, w.versions, key, same)
      BY <2>2, <3>2, <3>4 DEF Counts, SameCounts
    <3> QED  BY <3>3, <3>5 DEF q
  <2> QED  BY <2>3, <2>4
<1>9. ASSUME NEW k \in DOMAIN provenance
      PROVE  /\ \E s \in StoredSeries, m \in Int : k = <<s, m>> /\ m \in DOMAIN w.rows[s]
             /\ IsProvenance(provenance[k], at)
             /\ \E same \in BOOLEAN : Counts(provenance[k], w.versions, k, same)
  <2>1. CASE k = key
    BY <1>3, <1>7, <1>8, <2>1
  <2>2. CASE k # key
    BY <1>1, <1>4, <1>6, <2>2
  <2> QED  BY <2>1, <2>2
<1> QED  BY <1>9 DEF ProvenanceOK

\* A write without provenance counts nowhere.
LEMMA WriteKeepsProvenance ==
    ASSUME NEW st, NEW w, NEW series \in StoredSeries, NEW o, o.period \in Int, NEW baseline,
           NEW at \in Nat, NEW origin, origin \notin IngestionOrigins,
           Wrote(st, w, series, o, baseline, at, origin), ~w.raised,
           VersionsOK(st.versions, at), RowsOK(st.rows, st.versions),
           ProvenanceOK(st.provenance, st.rows, st.versions, at)
    PROVE  ProvenanceOK(w.provenance, w.rows, w.versions, at)
<1> DEFINE outcome == WriteOutcome(st, series, o)
<1>1. /\ outcome \in {"UNCHANGED", "INSERTED", "REVISED"}
      /\ outcome = "UNCHANGED" => w.versions = st.versions
      /\ outcome = "INSERTED" => \E new : AddedBy(new, st.versions, w.versions, series, o, at, origin, "NEW")
      /\ outcome = "REVISED" => \E new : AddedBy(new, st.versions, w.versions, series, o, at, origin, "REVISED")
  BY WriteAdds DEF Wrote
<1>2. \A s \in StoredSeries : DOMAIN st.rows[s] \subseteq DOMAIN w.rows[s]
  <2>1. /\ \A s \in StoredSeries : s # series => RowWritten(st.rows, series, o)[s] = st.rows[s]
        /\ DOMAIN RowWritten(st.rows, series, o)[series] = DOMAIN st.rows[series] \cup {o.period}
    BY RowWrittenOK DEF RowsOK
  <2> QED  BY <2>1 DEF Wrote
<1>3. w.provenance = st.provenance
  BY DEF Wrote
<1> HIDE DEF outcome
<1>4. ASSUME NEW k PROVE SameCounts(k, st.versions, w.versions)
  <2>1. CASE outcome = "UNCHANGED"
    BY <1>1, <2>1 DEF SameCounts
  <2>2. ASSUME NEW new, NEW type, AddedBy(new, st.versions, w.versions, series, o, at, origin, type)
        PROVE  SameCounts(k, st.versions, w.versions)
    BY <2>2, CountsStay DEF AddedBy
  <2> QED  BY <1>1, <2>1, <2>2
<1>5. ASSUME NEW k \in DOMAIN st.provenance
      PROVE  /\ \E s \in StoredSeries, m \in Int : k = <<s, m>> /\ m \in DOMAIN w.rows[s]
             /\ IsProvenance(st.provenance[k], at)
             /\ \E same \in BOOLEAN : Counts(st.provenance[k], w.versions, k, same)
  <2>1. /\ \E s \in StoredSeries, m \in Int : k = <<s, m>> /\ m \in DOMAIN st.rows[s]
        /\ IsProvenance(st.provenance[k], at)
        /\ \E same \in BOOLEAN : Counts(st.provenance[k], st.versions, k, same)
    BY DEF ProvenanceOK
  <2>2. SameCounts(k, st.versions, w.versions)
    BY <1>4
  <2> QED  BY <1>2, <2>1, <2>2 DEF Counts, SameCounts
<1> QED  BY <1>3, <1>5 DEF ProvenanceOK

Counted(versions, origin, type) == Cardinality(Ids(versions, origin, type))

\* What a transaction counted is what it added to its origin's versions.
Tally(st, versions, origin) ==
    \A o \in IngestionOrigins :
      /\ Counted(st.versions, o, "NEW") = Counted(versions, o, "NEW") + IF o = origin THEN st.inserted ELSE 0
      /\ Counted(st.versions, o, "REVISED") = Counted(versions, o, "REVISED") + IF o = origin THEN st.revised ELSE 0

\* Each Treasury observation has its provenance.
Sourced(provenance, rows) ==
    \A s \in TreasurySeries : \A m \in DOMAIN rows[s] : <<s, m>> \in DOMAIN provenance

\* A transaction that began with these rows and versions, after it was done with
\* these answers.
TxOK(st, rows, versions, since, at, origin, done) ==
    /\ IsStore(st) /\ st.raised \in BOOLEAN /\ st.inserted \in Nat /\ st.revised \in Nat
    /\ st.raised => Conflict(done)
    /\ ~st.raised => /\ Account(st.rows, st.versions, rows, since, at, origin, done)
                     /\ ProvenanceOK(st.provenance, st.rows, st.versions, at)
                     /\ Sourced(st.provenance, st.rows)
                     /\ Tally(st, versions, origin)

\* A version more, or none.
LEMMA OneMoreVersion ==
    ASSUME NEW new, NEW versions, NEW later, NEW series, NEW o, NEW at \in Nat, NEW origin, NEW type,
           AddedBy(new, versions, later, series, o, at, origin, type), VersionsOK(versions, at)
    PROVE  /\ Counted(later, origin, type) = Counted(versions, origin, type) + 1
           /\ \A p, t : p # origin \/ t # type => Counted(later, p, t) = Counted(versions, p, t)
           /\ \A p, t : Counted(versions, p, t) \in Nat
<1>1. /\ Extended(new, versions, later) /\ new.series = series /\ new.period = o.period /\ new.at = at
      /\ new.origin = origin /\ new.type = type
      /\ \A v \in versions : SameKey(v, new) => v.at < at
  BY DEF AddedBy
<1> DEFINE id == <<new.series, new.period, new.at>>
<1>2. Ids(later, origin, type) = Ids(versions, origin, type) \cup {id}
  BY <1>1, IdsGrow
<1>3. id \notin Ids(versions, origin, type)
  <2> SUFFICES ASSUME id \in Ids(versions, origin, type) PROVE FALSE
    OBVIOUS
  <2>1. PICK v \in versions : id = <<v.series, v.period, v.at>>
    BY DEF Ids
  <2>2. SameKey(v, new) /\ v.at = at
    BY <1>1, <2>1 DEF SameKey
  <2> QED  BY <1>1, <2>2
<1> HIDE DEF id
<1>4. \A p, t : IsFiniteSet(Ids(versions, p, t))
  BY IdsAreFinite DEF VersionsOK
<1>5. Cardinality(Ids(versions, origin, type) \cup {id}) = Cardinality(Ids(versions, origin, type)) + 1
  BY <1>3, <1>4, FS_AddElement
<1>6. \A p, t : p # origin \/ t # type => Ids(later, p, t) = Ids(versions, p, t)
  <2> SUFFICES ASSUME NEW p, NEW t, p # origin \/ t # type PROVE Ids(later, p, t) = Ids(versions, p, t)
    OBVIOUS
  <2>1. ~(new.origin = p /\ new.type = t)
    BY <1>1
  <2> QED  BY <1>1, <2>1, IdsGrow
<1>7. \A p, t : Cardinality(Ids(versions, p, t)) \in Nat
  BY <1>4, FS_CardinalityType
<1> QED  BY <1>2, <1>5, <1>6, <1>7 DEF Counted

\* What a write with this outcome adds to what an origin wrote.
TalliesBy(later, versions, p, origin, outcome) ==
    /\ Counted(later, p, "NEW") = Counted(versions, p, "NEW")
         + IF p = origin /\ outcome = "INSERTED" THEN 1 ELSE 0
    /\ Counted(later, p, "REVISED") = Counted(versions, p, "REVISED")
         + IF p = origin /\ outcome = "REVISED" THEN 1 ELSE 0

\* What a transaction counted so far and one more write.
LEMMA WriteTallies ==
    ASSUME NEW st, NEW w, NEW series \in StoredSeries, NEW o, o.period \in Int, NEW baseline,
           NEW at \in Nat, NEW origin, Wrote(st, w, series, o, baseline, at, origin), ~w.raised,
           VersionsOK(st.versions, at), RowsOK(st.rows, st.versions),
           NEW p
    PROVE  TalliesBy(w.versions, st.versions, p, origin, WriteOutcome(st, series, o))
<1> DEFINE outcome == WriteOutcome(st, series, o)
<1>1. /\ outcome \in {"UNCHANGED", "INSERTED", "REVISED"}
      /\ outcome = "UNCHANGED" => w.versions = st.versions
      /\ outcome = "INSERTED" => \E new : AddedBy(new, st.versions, w.versions, series, o, at, origin, "NEW")
      /\ outcome = "REVISED" => \E new : AddedBy(new, st.versions, w.versions, series, o, at, origin, "REVISED")
  BY WriteAdds DEF Wrote
<1> HIDE DEF outcome
<1>2. \A t : Counted(st.versions, p, t) \in Nat
  BY IdsAreFinite, FS_CardinalityType DEF VersionsOK, Counted
<1>3. CASE outcome = "UNCHANGED"
  BY <1>1, <1>2, <1>3 DEF outcome, TalliesBy
<1>4. CASE outcome = "INSERTED"
  <2>1. PICK new : AddedBy(new, st.versions, w.versions, series, o, at, origin, "NEW")
    BY <1>1, <1>4
  <2>2. /\ Counted(w.versions, origin, "NEW") = Counted(st.versions, origin, "NEW") + 1
        /\ \A q, t : q # origin \/ t # "NEW" => Counted(w.versions, q, t) = Counted(st.versions, q, t)
    BY <2>1, OneMoreVersion
  <2>3. Counted(w.versions, p, "REVISED") = Counted(st.versions, p, "REVISED")
    BY <2>2
  <2>4. p # origin => Counted(w.versions, p, "NEW") = Counted(st.versions, p, "NEW")
    BY <2>2
  <2> QED  BY <1>2, <1>4, <2>2, <2>3, <2>4 DEF outcome, TalliesBy
<1>5. CASE outcome = "REVISED"
  <2>1. PICK new : AddedBy(new, st.versions, w.versions, series, o, at, origin, "REVISED")
    BY <1>1, <1>5
  <2>2. /\ Counted(w.versions, origin, "REVISED") = Counted(st.versions, origin, "REVISED") + 1
        /\ \A q, t : q # origin \/ t # "REVISED" => Counted(w.versions, q, t) = Counted(st.versions, q, t)
    BY <2>1, OneMoreVersion
  <2>3. Counted(w.versions, p, "NEW") = Counted(st.versions, p, "NEW")
    BY <2>2
  <2>4. p # origin => Counted(w.versions, p, "REVISED") = Counted(st.versions, p, "REVISED")
    BY <2>2
  <2> QED  BY <1>2, <1>5, <2>2, <2>3, <2>4 DEF outcome, TalliesBy
<1> QED  BY <1>1, <1>3, <1>4, <1>5

\* What an upsert does, besides the write.
LEMMA UpsertEffect ==
    ASSUME NEW st, IsStore(st), NEW series, NEW o, NEW baseline, NEW at, NEW origin, NEW w,
           w = WriteObservation(st, series, o, baseline, at, origin), IsStore(w),
           NEW u, u = Upsert(st, series, o, baseline, at, origin)
    PROVE  /\ IsStore(u) /\ u.rows = w.rows /\ u.versions = w.versions /\ u.raised = w.raised
           /\ u.provenance = UpsertProvenance(w, series, o.period, at,
                                              WriteOutcome(st, series, o) = "REVISED").provenance
           /\ u.inserted = w.inserted + (IF WriteOutcome(st, series, o) = "INSERTED" THEN 1 ELSE 0)
           /\ u.revised = w.revised + (IF WriteOutcome(st, series, o) = "REVISED" THEN 1 ELSE 0)
<1> DEFINE outcome == WriteOutcome(st, series, o)
           x == UpsertProvenance(w, series, o.period, at, outcome = "REVISED")
           p == ProvenanceAfter(w.provenance, <<series, o.period>>, at, outcome = "REVISED")
<1>1. u = [x EXCEPT !.inserted = @ + (IF outcome = "INSERTED" THEN 1 ELSE 0),
                    !.revised = @ + (IF outcome = "REVISED" THEN 1 ELSE 0)]
  BY DEF Upsert
<1>2. x = [w EXCEPT !.provenance = p]
  BY DEF UpsertProvenance
<1>3. DOMAIN w = {"rows", "versions", "provenance", "raised", "inserted", "revised"}
  BY DEF IsStore
<1> HIDE DEF outcome, x, p
<1>4. /\ DOMAIN x = DOMAIN w /\ x = [f \in DOMAIN x |-> x[f]]
      /\ x.rows = w.rows /\ x.versions = w.versions /\ x.raised = w.raised
      /\ x.inserted = w.inserted /\ x.revised = w.revised
  BY <1>2, <1>3
<1>5. /\ DOMAIN u = DOMAIN x /\ u = [f \in DOMAIN u |-> u[f]]
      /\ u.rows = x.rows /\ u.versions = x.versions /\ u.raised = x.raised /\ u.provenance = x.provenance
      /\ u.inserted = x.inserted + (IF outcome = "INSERTED" THEN 1 ELSE 0)
      /\ u.revised = x.revised + (IF outcome = "REVISED" THEN 1 ELSE 0)
  BY <1>1, <1>3, <1>4
<1>6. IsStore(u)
  BY <1>3, <1>4, <1>5 DEF IsStore
<1> QED  BY <1>4, <1>5, <1>6 DEF outcome, x

\* Answers that disagree still do when there are more of them.
LEMMA ConflictStays ==
    ASSUME NEW done, Conflict(done), NEW x PROVE Conflict(done \cup {x})
BY DEF Conflict

\* The rows after a write: no Treasury row but the one written is new.
LEMMA SourcedStays ==
    ASSUME NEW st, NEW w, NEW series \in StoredSeries, NEW o, o.period \in Int, NEW baseline,
           NEW at, NEW origin, Wrote(st, w, series, o, baseline, at, origin), RowsOK(st.rows, st.versions),
           Sourced(st.provenance, st.rows), NEW provenance, DOMAIN st.provenance \subseteq DOMAIN provenance,
           series \notin TreasurySeries \/ <<series, o.period>> \in DOMAIN provenance
    PROVE  Sourced(provenance, w.rows)
<1>1. /\ \A s \in StoredSeries : s # series => RowWritten(st.rows, series, o)[s] = st.rows[s]
      /\ DOMAIN RowWritten(st.rows, series, o)[series] = DOMAIN st.rows[series] \cup {o.period}
  BY RowWrittenOK DEF RowsOK
<1>2. \A s \in StoredSeries : \A m \in DOMAIN w.rows[s] :
        m \in DOMAIN st.rows[s] \/ (s = series /\ m = o.period)
  BY <1>1 DEF Wrote
<1>3. TreasurySeries \subseteq StoredSeries
  BY DEF StoredSeries
<1> QED  BY <1>2, <1>3 DEF Sourced

\* A write is taken for history when it is.
RightBaseline(st, rows, origin, series, o, baseline) ==
    ~st.raised => (baseline <=> IsHistory(rows, origin, series, o.period))

\* One observation written and its provenance row after it.
LEMMA UpsertKeeps ==
    ASSUME NEW st, NEW rows, NEW versions, IsFiniteSet(versions), NEW since \in Nat, NEW at \in Nat, since < at,
           NEW origin \in IngestionOrigins, NEW done, NEW series \in StoredSeries, NEW o, o.period \in Int,
           TxOK(st, rows, versions, since, at, origin, done), NEW baseline,
           RightBaseline(st, rows, origin, series, o, baseline),
           NEW u, u = Upsert(st, series, o, baseline, at, origin)
    PROVE  /\ TxOK(u, rows, versions, since, at, origin, done \cup {Answer(series, o)})
           /\ st.raised => u.raised
<1> DEFINE w == WriteObservation(st, series, o, baseline, at, origin)
           x == Answer(series, o)
<1>1. /\ IsStore(st) /\ st.raised \in BOOLEAN /\ st.inserted \in Nat /\ st.revised \in Nat
      /\ st.raised => Conflict(done)
      /\ ~st.raised => /\ Account(st.rows, st.versions, rows, since, at, origin, done)
                       /\ ProvenanceOK(st.provenance, st.rows, st.versions, at)
                       /\ Sourced(st.provenance, st.rows)
                       /\ Tally(st, versions, origin)
  BY DEF TxOK
<1>2. Wrote(st, w, series, o, baseline, at, origin)
  BY <1>1, WriteEffect
<1> HIDE DEF x
<1>3. /\ IsStore(w) /\ w.inserted = st.inserted /\ w.revised = st.revised /\ w.raised \in BOOLEAN
      /\ st.raised => w.raised
      /\ WriteOutcome(st, series, o) \in {"UNCHANGED", "INSERTED", "REVISED"}
  <2>1. WriteOutcome(st, series, o) \in {"UNCHANGED", "INSERTED", "REVISED"}
    BY <1>2 DEF Wrote
  <2>2. w.raised \in BOOLEAN /\ (st.raised => w.raised)
    BY <1>1, <1>2, <2>1 DEF Wrote
  <2> QED  BY <1>2, <2>1, <2>2 DEF Wrote
<1>4. /\ IsStore(u) /\ u.rows = w.rows /\ u.versions = w.versions /\ u.raised = w.raised
      /\ u.provenance = UpsertProvenance(w, series, o.period, at,
                                         WriteOutcome(st, series, o) = "REVISED").provenance
      /\ u.inserted = w.inserted + (IF WriteOutcome(st, series, o) = "INSERTED" THEN 1 ELSE 0)
      /\ u.revised = w.revised + (IF WriteOutcome(st, series, o) = "REVISED" THEN 1 ELSE 0)
  BY <1>1, <1>3, UpsertEffect
<1> HIDE DEF w
<1>5. u.inserted \in Nat /\ u.revised \in Nat
  BY <1>1, <1>3, <1>4
<1>6. ASSUME u.raised PROVE Conflict(done \cup {x})
  <2>1. CASE st.raised
    BY <1>1, <2>1, ConflictStays
  <2>2. CASE ~st.raised
    BY <1>1, <1>2, <1>4, <1>6, <2>2, RaiseIsConflict DEF x
  <2> QED  BY <2>1, <2>2
<1>7. ASSUME ~u.raised
      PROVE  /\ Account(u.rows, u.versions, rows, since, at, origin, done \cup {x})
             /\ ProvenanceOK(u.provenance, u.rows, u.versions, at)
             /\ Sourced(u.provenance, u.rows)
             /\ Tally(u, versions, origin)
  <2>1. ~st.raised /\ ~w.raised
    BY <1>3, <1>4, <1>7
  <2>2. Account(st.rows, st.versions, rows, since, at, origin, done)
    BY <1>1, <2>1
  <2>3. Account(w.rows, w.versions, rows, since, at, origin, done \cup {x})
    BY <1>2, <2>1, <2>2, WriteKeepsAccount DEF x, RightBaseline
  <2>4. /\ VersionsOK(st.versions, at) /\ RowsOK(st.rows, st.versions)
        /\ VersionsOK(w.versions, at) /\ RowsOK(w.rows, w.versions)
    BY <2>2, <2>3 DEF Account
  <2>5. ProvenanceOK(u.provenance, w.rows, w.versions, at)
    BY <1>1, <1>2, <1>4, <2>1, <2>4, UpsertKeepsProvenance
  <2>6. DOMAIN u.provenance = DOMAIN st.provenance \cup {<<series, o.period>>}
    <3>1. w.provenance = st.provenance /\ "provenance" \in DOMAIN w
      BY <1>2, <1>3 DEF Wrote, IsStore
    <3>2. u.provenance = ProvenanceAfter(w.provenance, <<series, o.period>>, at,
                                         WriteOutcome(st, series, o) = "REVISED")
      BY <1>4, <3>1 DEF UpsertProvenance
    <3> QED  BY <3>1, <3>2 DEF ProvenanceAfter
  <2>7. Sourced(u.provenance, w.rows)
    BY <1>1, <1>2, <2>1, <2>4, <2>6, SourcedStays
  <2>8. ASSUME NEW p \in IngestionOrigins
        PROVE  /\ Counted(u.versions, p, "NEW") = Counted(versions, p, "NEW") + IF p = origin THEN u.inserted ELSE 0
               /\ Counted(u.versions, p, "REVISED") = Counted(versions, p, "REVISED") + IF p = origin THEN u.revised ELSE 0
    <3>1. /\ Counted(w.versions, p, "NEW") = Counted(st.versions, p, "NEW")
                + IF p = origin /\ WriteOutcome(st, series, o) = "INSERTED" THEN 1 ELSE 0
          /\ Counted(w.versions, p, "REVISED") = Counted(st.versions, p, "REVISED")
                + IF p = origin /\ WriteOutcome(st, series, o) = "REVISED" THEN 1 ELSE 0
      <4>1. TalliesBy(w.versions, st.versions, p, origin, WriteOutcome(st, series, o))
        BY <1>2, <2>1, <2>4, WriteTallies
      <4> QED  BY <4>1 DEF TalliesBy
    <3>2. /\ Counted(st.versions, p, "NEW") = Counted(versions, p, "NEW") + IF p = origin THEN st.inserted ELSE 0
          /\ Counted(st.versions, p, "REVISED") = Counted(versions, p, "REVISED") + IF p = origin THEN st.revised ELSE 0
      BY <1>1, <2>1 DEF Tally
    <3>3. Counted(versions, p, "NEW") \in Nat /\ Counted(versions, p, "REVISED") \in Nat
      BY IdsAreFinite, FS_CardinalityType DEF Counted
    <3>4. CASE p = origin
      BY <1>1, <1>3, <1>4, <3>1, <3>2, <3>3, <3>4
    <3>5. CASE p # origin
      BY <1>4, <3>1, <3>2, <3>3, <3>5
    <3> QED  BY <3>4, <3>5
  <2>9. Tally(u, versions, origin)
    BY <2>8 DEF Tally
  <2> QED  BY <1>4, <2>3, <2>5, <2>7, <2>9
<1>8. u.raised \in BOOLEAN /\ (st.raised => u.raised)
  BY <1>3, <1>4
<1>9. TxOK(u, rows, versions, since, at, origin, done \cup {x})
  BY <1>4, <1>5, <1>6, <1>7, <1>8 DEF TxOK
<1> QED  BY <1>8, <1>9 DEF x

\* One observation written without provenance.
LEMMA WriteKeeps ==
    ASSUME NEW st, NEW rows, NEW versions, IsFiniteSet(versions), NEW since \in Nat, NEW at \in Nat, since < at,
           NEW origin, origin \notin IngestionOrigins, NEW done, NEW series \in StoredSeries \ TreasurySeries,
           NEW o, o.period \in Int, TxOK(st, rows, versions, since, at, origin, done),
           NEW w, w = WriteObservation(st, series, o, FALSE, at, origin)
    PROVE  /\ TxOK(w, rows, versions, since, at, origin, done \cup {Answer(series, o)})
           /\ st.raised => w.raised
<1> DEFINE x == Answer(series, o)
<1>1. /\ IsStore(st) /\ st.raised \in BOOLEAN /\ st.inserted \in Nat /\ st.revised \in Nat
      /\ st.raised => Conflict(done)
      /\ ~st.raised => /\ Account(st.rows, st.versions, rows, since, at, origin, done)
                       /\ ProvenanceOK(st.provenance, st.rows, st.versions, at)
                       /\ Sourced(st.provenance, st.rows)
                       /\ Tally(st, versions, origin)
  BY DEF TxOK
<1>2. Wrote(st, w, series, o, FALSE, at, origin)
  BY <1>1, WriteEffect
<1> HIDE DEF x
<1>3. /\ IsStore(w) /\ w.inserted = st.inserted /\ w.revised = st.revised /\ w.raised \in BOOLEAN
      /\ w.provenance = st.provenance /\ (st.raised => w.raised)
  <2>1. WriteOutcome(st, series, o) \in {"UNCHANGED", "INSERTED", "REVISED"}
    BY <1>2 DEF Wrote
  <2>2. w.raised \in BOOLEAN /\ (st.raised => w.raised)
    BY <1>1, <1>2, <2>1 DEF Wrote
  <2> QED  BY <1>2, <2>2 DEF Wrote
<1>4. ~IsHistory(rows, origin, series, o.period)
  BY DEF IsHistory, IngestionOrigins
<1>5. ASSUME w.raised PROVE Conflict(done \cup {x})
  <2>1. CASE st.raised
    BY <1>1, <2>1, ConflictStays
  <2>2. CASE ~st.raised
    BY <1>1, <1>2, <1>5, <2>2, RaiseIsConflict DEF x
  <2> QED  BY <2>1, <2>2
<1>6. ASSUME ~w.raised
      PROVE  /\ Account(w.rows, w.versions, rows, since, at, origin, done \cup {x})
             /\ ProvenanceOK(w.provenance, w.rows, w.versions, at)
             /\ Sourced(w.provenance, w.rows)
             /\ Tally(w, versions, origin)
  <2>1. ~st.raised
    BY <1>3, <1>6
  <2>2. Account(st.rows, st.versions, rows, since, at, origin, done)
    BY <1>1, <2>1
  <2>3. Account(w.rows, w.versions, rows, since, at, origin, done \cup {x})
    BY <1>2, <1>4, <1>6, <2>2, WriteKeepsAccount DEF x
  <2>4. VersionsOK(st.versions, at) /\ RowsOK(st.rows, st.versions)
    BY <2>2 DEF Account
  <2>5. ProvenanceOK(w.provenance, w.rows, w.versions, at)
    BY <1>1, <1>2, <1>6, <2>1, <2>4, WriteKeepsProvenance
  <2>6. Sourced(w.provenance, w.rows)
    BY <1>1, <1>2, <1>3, <2>1, <2>4, SourcedStays
  <2>7. ASSUME NEW p \in IngestionOrigins
        PROVE  /\ Counted(w.versions, p, "NEW") = Counted(versions, p, "NEW") + IF p = origin THEN w.inserted ELSE 0
               /\ Counted(w.versions, p, "REVISED") = Counted(versions, p, "REVISED") + IF p = origin THEN w.revised ELSE 0
    <3>1. /\ Counted(w.versions, p, "NEW") = Counted(st.versions, p, "NEW")
                + IF p = origin /\ WriteOutcome(st, series, o) = "INSERTED" THEN 1 ELSE 0
          /\ Counted(w.versions, p, "REVISED") = Counted(st.versions, p, "REVISED")
                + IF p = origin /\ WriteOutcome(st, series, o) = "REVISED" THEN 1 ELSE 0
      <4>1. TalliesBy(w.versions, st.versions, p, origin, WriteOutcome(st, series, o))
        BY <1>2, <1>6, <2>4, WriteTallies
      <4> QED  BY <4>1 DEF TalliesBy
    <3>2. /\ Counted(st.versions, p, "NEW") = Counted(versions, p, "NEW") + IF p = origin THEN st.inserted ELSE 0
          /\ Counted(st.versions, p, "REVISED") = Counted(versions, p, "REVISED") + IF p = origin THEN st.revised ELSE 0
      BY <1>1, <2>1 DEF Tally
    <3>3. Counted(versions, p, "NEW") \in Nat /\ Counted(versions, p, "REVISED") \in Nat
      BY IdsAreFinite, FS_CardinalityType DEF Counted
    <3>4. p # origin
      OBVIOUS
    <3>5. /\ Counted(w.versions, p, "NEW") = Counted(st.versions, p, "NEW") + 0
          /\ Counted(w.versions, p, "REVISED") = Counted(st.versions, p, "REVISED") + 0
      BY <3>1, <3>4
    <3>6. /\ Counted(versions, p, "NEW") + 0 = Counted(versions, p, "NEW")
          /\ Counted(versions, p, "REVISED") + 0 = Counted(versions, p, "REVISED")
      BY <3>3
    <3>7. /\ Counted(st.versions, p, "NEW") = Counted(versions, p, "NEW")
          /\ Counted(st.versions, p, "REVISED") = Counted(versions, p, "REVISED")
      BY <3>2, <3>4, <3>6
    <3>8. /\ Counted(w.versions, p, "NEW") = Counted(versions, p, "NEW")
          /\ Counted(w.versions, p, "REVISED") = Counted(versions, p, "REVISED")
      BY <3>5, <3>6, <3>7
    <3> QED  BY <3>4, <3>6, <3>8
  <2>8. Tally(w, versions, origin)
    BY <2>7 DEF Tally
  <2> QED  BY <2>3, <2>5, <2>6, <2>8
<1>7. TxOK(w, rows, versions, since, at, origin, done \cup {x})
  BY <1>1, <1>3, <1>5, <1>6 DEF TxOK
<1> QED  BY <1>3, <1>7 DEF x

\* A transaction goes on at a later instant.
LEMMA TxWaits ==
    ASSUME NEW st, NEW rows, NEW versions, NEW since \in Nat, NEW at \in Nat, NEW then \in Nat, at =< then,
           NEW origin, NEW done, TxOK(st, rows, versions, since, at, origin, done)
    PROVE  TxOK(st, rows, versions, since, then, origin, done)
<1>1. VersionsOK(st.versions, at) => VersionsOK(st.versions, then)
  <2> SUFFICES ASSUME VersionsOK(st.versions, at) PROVE VersionsOK(st.versions, then)
    OBVIOUS
  <2>1. \A v \in st.versions : v.at \in Nat /\ v.at =< at
    BY DEF VersionsOK, IsVersion
  <2>2. \A v \in st.versions : v.at =< then
    BY <2>1
  <2> QED  BY <2>2 DEF VersionsOK
<1>2. ProvenanceOK(st.provenance, st.rows, st.versions, at) => ProvenanceOK(st.provenance, st.rows, st.versions, then)
  BY ProvenanceWaits
<1> QED  BY <1>1, <1>2 DEF TxOK, Account

\* An empty transaction has told nothing.
LEMMA TxBegins ==
    ASSUME NEW st, NEW since \in Nat, NEW at \in Nat, since < at, NEW origin,
           VersionsOK(st.versions, since), RowsOK(st.rows, st.versions),
           ProvenanceOK(st.provenance, st.rows, st.versions, since), Sourced(st.provenance, st.rows),
           IsStore(st), st.raised \in BOOLEAN, ~st.raised, st.inserted = 0, st.revised = 0
    PROVE  TxOK(st, st.rows, st.versions, since, at, origin, {})
<1>1. \A v \in st.versions : v.at \in Nat /\ v.at =< since
  BY DEF VersionsOK, IsVersion
<1>2. \A v \in st.versions : ~(v.at > since) /\ v.at =< at
  BY <1>1
<1>3. VersionsOK(st.versions, at)
  BY <1>2 DEF VersionsOK
<1>4. Account(st.rows, st.versions, st.rows, since, at, origin, {})
  BY <1>2, <1>3 DEF Account, Answered, FromAnswers, Untouched, JudgedByBefore
<1>5. ProvenanceOK(st.provenance, st.rows, st.versions, at)
  BY ProvenanceWaits
<1>6. \A p, t : Counted(st.versions, p, t) \in Nat
  BY IdsAreFinite, FS_CardinalityType DEF VersionsOK, Counted
<1>7. Tally(st, st.versions, origin)
  BY <1>6 DEF Tally
<1>8. st.raised \in BOOLEAN /\ ~st.raised /\ st.inserted \in Nat /\ st.revised \in Nat
  OBVIOUS
<1> QED  BY <1>4, <1>5, <1>7, <1>8 DEF TxOK

AnyOf(s) == CHOOSE x \in s : TRUE
LastOf(s) == Max(s)

\* The last of some dates is one of them.
LEMMA LastIsIn ==
    ASSUME NEW S, IsFiniteSet(S), S \subseteq Int, S # {}
    PROVE  /\ Max(S) \in S /\ \A y \in S : y =< Max(S)
           /\ LatestOf(S) \in S /\ \A y \in S : y =< LatestOf(S)
<1>1. /\ Cardinality(S) \in Nat
      /\ \A d \in S : RankIn(S, d) \in 1..Cardinality(S)
      /\ \A d, e \in S : d < e => RankIn(S, d) < RankIn(S, e)
      /\ \A i \in 1..Cardinality(S) : \E d \in S : RankIn(S, d) = i
  BY RankedDates
<1>2. Cardinality(S) # 0
  BY FS_EmptySet
<1>3. Cardinality(S) \in 1..Cardinality(S)
  BY <1>1, <1>2
<1>4. PICK x \in S : RankIn(S, x) = Cardinality(S)
  BY <1>1, <1>3
<1>5. ASSUME NEW y \in S PROVE x >= y /\ y =< x
  <2>1. x \in Int /\ y \in Int
    OBVIOUS
  <2>2. ~(x < y)
    <3>1. RankIn(S, y) \in Nat /\ RankIn(S, y) =< Cardinality(S)
      BY <1>1
    <3> QED  BY <1>1, <1>4, <3>1
  <2> QED  BY <2>1, <2>2
<1>6. Max(S) \in S /\ \A y \in S : Max(S) >= y
  BY <1>5 DEF Max
<1>7. LatestOf(S) \in S /\ \A y \in S : y =< LatestOf(S)
  BY <1>5 DEF LatestOf
<1>8. \A y \in S : y =< Max(S)
  <2> SUFFICES ASSUME NEW y \in S PROVE y =< Max(S)
    OBVIOUS
  <2>1. Max(S) \in Int /\ y \in Int /\ Max(S) >= y
    BY <1>6
  <2> QED  BY <2>1
<1> QED  BY <1>6, <1>7, <1>8

\* What a first observation is marked with, as a rule over the rows.
LEMMA BaselineRule ==
    ASSUME NEW obs, History(obs), NEW period \in Int
    PROVE  IsBaselineImport(DOMAIN obs, period) <=>
             DOMAIN obs = {} \/ \E m \in DOMAIN obs : m > period
<1> DEFINE D == DOMAIN obs
<1>1. IsFiniteSet(D) /\ D \subseteq Int
  BY DEF History
<1> HIDE DEF D
<1>2. CASE D = {}
  BY <1>2 DEF IsBaselineImport, D
<1>3. CASE D # {}
  <2>1. LatestOf(D) \in D /\ \A y \in D : y =< LatestOf(D)
    BY <1>1, <1>3, LastIsIn
  <2>2. period < LatestOf(D) => \E m \in D : m > period
    <3>1. LatestOf(D) \in Int
      BY <1>1, <2>1
    <3>2. period < LatestOf(D) => LatestOf(D) > period
      BY <3>1
    <3> QED  BY <2>1, <3>2
  <2>3. ASSUME NEW m \in D, m > period PROVE period < LatestOf(D)
    <3>1. m =< LatestOf(D) /\ m \in Int /\ LatestOf(D) \in Int
      BY <1>1, <2>1
    <3> QED  BY <2>3, <3>1
  <2> QED  BY <1>3, <2>2, <2>3 DEF IsBaselineImport, D
<1> QED  BY <1>2, <1>3

---------------------------------------------------------------------------
(* Lists of observations *)

\* A list of observations.
Observed(seq) ==
    IsFiniteSet(DOMAIN seq) /\ DOMAIN seq \subseteq Int /\ \A i \in DOMAIN seq : seq[i].period \in Int

AnswersOf(series, seq, s) == {Answer(series, seq[i]) : i \in s}

\* The answers up to the one at hand.
LEMMA OneMoreAnswer ==
    ASSUME NEW series, NEW seq, NEW s, NEW i \in s
    PROVE  AnswersOf(series, seq, s) = AnswersOf(series, seq, s \ {i}) \cup {Answer(series, seq[i])}
BY DEF AnswersOf

\* The elements the folds choose are in their sets.
LEMMA LastsAreIn ==
    ASSUME NEW S, IsFiniteSet(S), S \subseteq Int
    PROVE  \A s \in SUBSET S : s # {} => LastOf(s) \in s
<1> SUFFICES ASSUME NEW s \in SUBSET S, s # {} PROVE LastOf(s) \in s
  OBVIOUS
<1>1. IsFiniteSet(s) /\ s \subseteq Int
  BY FS_Subset
<1> QED  BY <1>1, LastIsIn DEF LastOf

---------------------------------------------------------------------------
(* The writes of one series, one after the other *)

HistoryStep(i, acc, ctx) ==
    Upsert(acc, ctx.series, ctx.seq[i],
           BaselineAsStored(DOMAIN ctx.st.rows[ctx.series], acc, ctx.series, ctx.seq[i].period),
           ctx.at, ctx.origin)

HistoryHolds(acc, s, ctx) ==
    /\ TxOK(acc, ctx.rows, ctx.versions, ctx.since, ctx.at, ctx.origin,
            ctx.done \cup AnswersOf(ctx.series, ctx.seq, s))
    /\ ctx.st.raised => acc.raised

OfHistory == INSTANCE Folding WITH Step <- HistoryStep, Choose <- LastOf, Holds <- HistoryHolds

\* The import of one series, as a fold over its observations.
LEMMA HistoryIsFold ==
    ASSUME NEW st, NEW series, NEW seq, NEW at, NEW origin, NEW ctx,
           ctx.st = st, ctx.series = series, ctx.seq = seq, ctx.at = at, ctx.origin = origin
    PROVE  PersistHistory(st, series, seq, at, origin) = OfHistory!Fold(st, DOMAIN seq, ctx)
BY DEF PersistHistory, FoldLeft, MapThenFoldSet, OfHistory!Fold, OfHistory!MapThenFoldSet, HistoryStep, LastOf, Max

AllHistories(rows) == \A s \in StoredSeries : History(rows[s])

Unanswered(done, series) == \A r \in done : r.series # series

\* One observation of a series imported.
LEMMA HistoryStepKeeps ==
    ASSUME NEW ctx, TxOK(ctx.st, ctx.rows, ctx.versions, ctx.since, ctx.at, ctx.origin, ctx.done),
           ctx.origin \in {"FIRST_PARTY", "HOUSING"}, ctx.series \in StoredSeries, Observed(ctx.seq),
           IsFiniteSet(ctx.versions), ctx.since \in Nat, ctx.at \in Nat, ctx.since < ctx.at,
           AllHistories(ctx.rows), Unanswered(ctx.done, ctx.series),
           NEW s \in SUBSET (DOMAIN ctx.seq), NEW acc, NEW i \in s, HistoryHolds(acc, s \ {i}, ctx)
    PROVE  HistoryHolds(HistoryStep(i, acc, ctx), s, ctx)
<1> DEFINE o == ctx.seq[i]
           before == ctx.done \cup AnswersOf(ctx.series, ctx.seq, s \ {i})
           baseline == BaselineAsStored(DOMAIN ctx.st.rows[ctx.series], acc, ctx.series, o.period)
           u == Upsert(acc, ctx.series, o, baseline, ctx.at, ctx.origin)
<1>1. /\ TxOK(acc, ctx.rows, ctx.versions, ctx.since, ctx.at, ctx.origin, before)
      /\ ctx.st.raised => acc.raised
  BY DEF HistoryHolds
<1>2. o.period \in Int
  BY DEF Observed
<1>3. RightBaseline(acc, ctx.rows, ctx.origin, ctx.series, o, baseline)
  <2> SUFFICES ASSUME ~acc.raised
               PROVE  baseline <=> IsHistory(ctx.rows, ctx.origin, ctx.series, o.period)
    BY DEF RightBaseline
  <2>1. ~ctx.st.raised
    BY <1>1
  <2>2. ctx.st.rows[ctx.series] = ctx.rows[ctx.series]
    BY <2>1 DEF TxOK, Account, Untouched, Unanswered
  <2>3. History(ctx.rows[ctx.series])
    BY DEF AllHistories
  <2>4. IsBaselineImport(DOMAIN ctx.rows[ctx.series], o.period) <=>
          DOMAIN ctx.rows[ctx.series] = {} \/ \E m \in DOMAIN ctx.rows[ctx.series] : m > o.period
    BY <1>2, <2>3, BaselineRule
  <2> QED  BY <2>2, <2>4 DEF BaselineAsStored, IsHistory
<1>4. ctx.origin \in IngestionOrigins
  BY DEF IngestionOrigins
<1> HIDE DEF o, baseline, before
<1>5. /\ TxOK(u, ctx.rows, ctx.versions, ctx.since, ctx.at, ctx.origin, before \cup {Answer(ctx.series, o)})
      /\ acc.raised => u.raised
  BY <1>1, <1>2, <1>3, <1>4, UpsertKeeps
<1>6. before \cup {Answer(ctx.series, o)} = ctx.done \cup AnswersOf(ctx.series, ctx.seq, s)
  <2>1. AnswersOf(ctx.series, ctx.seq, s) =
          AnswersOf(ctx.series, ctx.seq, s \ {i}) \cup {Answer(ctx.series, ctx.seq[i])}
    BY OneMoreAnswer
  <2> QED  BY <2>1 DEF before, o
<1>7. u = HistoryStep(i, acc, ctx)
  BY DEF HistoryStep, o, baseline
<1> QED  BY <1>1, <1>5, <1>6, <1>7 DEF HistoryHolds

HistoryPersisted(st, rows, versions, since, at, origin, done, series, seq) ==
    TxOK(PersistHistory(st, series, seq, at, origin), rows, versions, since, at, origin,
         done \cup AnswersOf(series, seq, DOMAIN seq))

\* One series imported.
LEMMA PersistHistoryKeeps ==
    ASSUME NEW st, NEW rows, NEW versions, IsFiniteSet(versions), NEW since \in Nat, NEW at \in Nat, since < at,
           NEW origin \in {"FIRST_PARTY", "HOUSING"}, NEW done, NEW series \in StoredSeries, NEW seq,
           Observed(seq), TxOK(st, rows, versions, since, at, origin, done),
           AllHistories(rows), Unanswered(done, series)
    PROVE  HistoryPersisted(st, rows, versions, since, at, origin, done, series, seq)
<1> DEFINE ctx == [st |-> st, rows |-> rows, versions |-> versions, since |-> since, at |-> at,
                   origin |-> origin, done |-> done, series |-> series, seq |-> seq]
           S == DOMAIN seq
<1>1. /\ ctx.st = st /\ ctx.rows = rows /\ ctx.versions = versions /\ ctx.since = since /\ ctx.at = at
      /\ ctx.origin = origin /\ ctx.done = done /\ ctx.series = series /\ ctx.seq = seq
  OBVIOUS
<1> HIDE DEF ctx
<1>2. HistoryHolds(st, {}, ctx)
  <2>1. done \cup AnswersOf(series, seq, {}) = done
    BY DEF AnswersOf
  <2> QED  BY <1>1, <2>1 DEF HistoryHolds
<1>3. IsFiniteSet(S) /\ \A s \in SUBSET S : s # {} => LastOf(s) \in s
  BY LastsAreIn DEF Observed
<1>4. ASSUME NEW s \in SUBSET S, NEW acc, s # {}, HistoryHolds(acc, s \ {LastOf(s)}, ctx)
      PROVE  HistoryHolds(HistoryStep(LastOf(s), acc, ctx), s, ctx)
  <2>1. LastOf(s) \in s
    BY <1>3, <1>4
  <2> QED  BY <1>1, <1>4, <2>1, HistoryStepKeeps
<1>5. HistoryHolds(OfHistory!Fold(st, S, ctx), S, ctx)
  <2> HIDE DEF S
  <2>1. OfHistory!Chooses(S)
    BY <1>3 DEF OfHistory!Chooses
  <2>2. OfHistory!Keeps(S, ctx)
    BY <1>4 DEF OfHistory!Keeps
  <2>3. OfHistory!IsFiniteSet(S)
    BY <1>3 DEF OfHistory!IsFiniteSet, IsFiniteSet
  <2> QED  BY <1>2, <2>1, <2>2, <2>3, OfHistory!FoldKeeps
<1>6. PersistHistory(st, series, seq, at, origin) = OfHistory!Fold(st, S, ctx)
  BY <1>1, HistoryIsFold
<1> QED  BY <1>1, <1>5, <1>6 DEF HistoryHolds, HistoryPersisted

---------------------------------------------------------------------------
(* The histories of several series; the order does not matter *)

HistoriesStep(s, acc, ctx) == PersistHistory(acc, s, ctx.seqs[s], ctx.at, ctx.origin)

AnswersOfAll(seqs, series) == UNION {AnswersOf(s, seqs[s], DOMAIN seqs[s]) : s \in series}

HistoriesHold(acc, series, ctx) ==
    TxOK(acc, ctx.rows, ctx.versions, ctx.since, ctx.at, ctx.origin, ctx.done \cup AnswersOfAll(ctx.seqs, series))

OfHistories == INSTANCE Folding WITH Step <- HistoriesStep, Choose <- AnyOf, Holds <- HistoriesHold

Histories(st, series, seqs, at, origin) ==
    FoldSet(LAMBDA s, acc : PersistHistory(acc, s, seqs[s], at, origin), st, series)

HistoriesPersisted(st, rows, versions, since, at, origin, done, series, seqs) ==
    TxOK(Histories(st, series, seqs, at, origin), rows, versions, since, at, origin,
         done \cup AnswersOfAll(seqs, series))

\* Every series imported.
LEMMA HistoriesKeep ==
    ASSUME NEW st, NEW rows, NEW versions, IsFiniteSet(versions), NEW since \in Nat, NEW at \in Nat, since < at,
           NEW origin \in {"FIRST_PARTY", "HOUSING"}, NEW done, NEW series \in SUBSET StoredSeries, NEW seqs,
           \A s \in series : Observed(seqs[s]), TxOK(st, rows, versions, since, at, origin, done),
           AllHistories(rows), \A r \in done : r.series \notin series
    PROVE  HistoriesPersisted(st, rows, versions, since, at, origin, done, series, seqs)
<1> DEFINE ctx == [rows |-> rows, versions |-> versions, since |-> since, at |-> at,
                   origin |-> origin, done |-> done, seqs |-> seqs]
<1>1. /\ ctx.rows = rows /\ ctx.versions = versions /\ ctx.since = since /\ ctx.at = at
      /\ ctx.origin = origin /\ ctx.done = done /\ ctx.seqs = seqs
  OBVIOUS
<1> HIDE DEF ctx
<1>2. HistoriesHold(st, {}, ctx)
  <2>1. done \cup AnswersOfAll(seqs, {}) = done
    BY DEF AnswersOfAll
  <2> QED  BY <1>1, <2>1 DEF HistoriesHold
<1>3. IsFiniteSet(series) /\ \A s \in SUBSET series : s # {} => AnyOf(s) \in s
  BY SeriesAssumption, FS_Subset DEF AnyOf
<1>4. ASSUME NEW some \in SUBSET series, NEW acc, some # {}, HistoriesHold(acc, some \ {AnyOf(some)}, ctx)
      PROVE  HistoriesHold(HistoriesStep(AnyOf(some), acc, ctx), some, ctx)
  <2> DEFINE x == AnyOf(some)
             seq == seqs[x]
             before == done \cup AnswersOfAll(seqs, some \ {x})
  <2>1. x \in some /\ x \in StoredSeries /\ Observed(seq)
    BY <1>3, <1>4
  <2>2. TxOK(acc, rows, versions, since, at, origin, before)
    BY <1>1, <1>4 DEF HistoriesHold
  <2> HIDE DEF x
  <2>3. Unanswered(before, x)
    BY <2>1 DEF AnswersOfAll, AnswersOf, Answer, Unanswered, before
  <2> HIDE DEF before, seq
  <2>4. TxOK(PersistHistory(acc, x, seq, at, origin), rows, versions, since, at, origin,
             before \cup AnswersOf(x, seq, DOMAIN seq))
    <3>1. origin \in {"FIRST_PARTY", "HOUSING"} /\ AllHistories(rows)
      OBVIOUS
    <3>2. HistoryPersisted(acc, rows, versions, since, at, origin, before, x, seq)
      BY <2>1, <2>2, <2>3, <3>1, PersistHistoryKeeps
    <3> QED  BY <3>2 DEF HistoryPersisted
  <2>5. before \cup AnswersOf(x, seq, DOMAIN seq) = done \cup AnswersOfAll(seqs, some)
    BY <2>1 DEF AnswersOfAll, before, seq
  <2> QED  BY <1>1, <2>4, <2>5 DEF HistoriesHold, HistoriesStep, x, seq
<1>5. HistoriesHold(OfHistories!Fold(st, series, ctx), series, ctx)
  <2>1. OfHistories!Chooses(series)
    BY <1>3 DEF OfHistories!Chooses
  <2>2. OfHistories!Keeps(series, ctx)
    BY <1>4 DEF OfHistories!Keeps
  <2>3. OfHistories!IsFiniteSet(series)
    BY <1>3 DEF OfHistories!IsFiniteSet, IsFiniteSet
  <2> QED  BY <1>2, <2>1, <2>2, <2>3, OfHistories!FoldKeeps
<1>6. Histories(st, series, seqs, at, origin) = OfHistories!Fold(st, series, ctx)
  BY <1>1 DEF Histories, FoldSet, MapThenFoldSet, OfHistories!Fold, OfHistories!MapThenFoldSet, HistoriesStep, AnyOf
<1> QED  BY <1>1, <1>5, <1>6 DEF HistoriesHold, HistoriesPersisted

---------------------------------------------------------------------------
(* Writes without provenance *)

PlainStep(i, acc, ctx) == WriteObservation(acc, ctx.series, ctx.seq[i], FALSE, ctx.at, ctx.origin)

PlainHolds(acc, s, ctx) ==
    TxOK(acc, ctx.rows, ctx.versions, ctx.since, ctx.at, ctx.origin,
         ctx.done \cup AnswersOf(ctx.series, ctx.seq, s))

OfPlain == INSTANCE Folding WITH Step <- PlainStep, Choose <- LastOf, Holds <- PlainHolds

\* One observation synchronised without provenance.
LEMMA PlainStepKeeps ==
    ASSUME NEW ctx, ctx.origin \notin IngestionOrigins, ctx.series \in StoredSeries \ TreasurySeries,
           Observed(ctx.seq),
           IsFiniteSet(ctx.versions), ctx.since \in Nat, ctx.at \in Nat, ctx.since < ctx.at,
           NEW s \in SUBSET (DOMAIN ctx.seq), NEW acc, NEW i \in s, PlainHolds(acc, s \ {i}, ctx)
    PROVE  PlainHolds(PlainStep(i, acc, ctx), s, ctx)
<1> DEFINE o == ctx.seq[i]
           before == ctx.done \cup AnswersOf(ctx.series, ctx.seq, s \ {i})
           w == WriteObservation(acc, ctx.series, o, FALSE, ctx.at, ctx.origin)
<1>1. TxOK(acc, ctx.rows, ctx.versions, ctx.since, ctx.at, ctx.origin, before)
  BY DEF PlainHolds
<1>2. o.period \in Int
  BY DEF Observed
<1> HIDE DEF o, before
<1>3. TxOK(w, ctx.rows, ctx.versions, ctx.since, ctx.at, ctx.origin, before \cup {Answer(ctx.series, o)})
  BY <1>1, <1>2, WriteKeeps
<1>4. before \cup {Answer(ctx.series, o)} = ctx.done \cup AnswersOf(ctx.series, ctx.seq, s)
  <2>1. AnswersOf(ctx.series, ctx.seq, s) =
          AnswersOf(ctx.series, ctx.seq, s \ {i}) \cup {Answer(ctx.series, ctx.seq[i])}
    BY DEF AnswersOf
  <2> QED  BY <2>1 DEF before, o
<1>5. w = PlainStep(i, acc, ctx)
  BY DEF PlainStep, o
<1> QED  BY <1>3, <1>4, <1>5 DEF PlainHolds

\* A series synchronised.
LEMMA PlainKeeps ==
    ASSUME NEW st, NEW rows, NEW versions, IsFiniteSet(versions), NEW since \in Nat, NEW at \in Nat, since < at,
           NEW origin, origin \notin IngestionOrigins, NEW done, NEW series \in StoredSeries \ TreasurySeries,
           NEW seq, Observed(seq), TxOK(st, rows, versions, since, at, origin, done)
    PROVE  TxOK(WriteWithoutProvenance(st, series, seq, at, origin), rows, versions, since, at, origin,
                done \cup AnswersOf(series, seq, DOMAIN seq))
<1> DEFINE ctx == [rows |-> rows, versions |-> versions, since |-> since, at |-> at,
                   origin |-> origin, done |-> done, series |-> series, seq |-> seq]
           S == DOMAIN seq
<1>1. /\ ctx.rows = rows /\ ctx.versions = versions /\ ctx.since = since /\ ctx.at = at
      /\ ctx.origin = origin /\ ctx.done = done /\ ctx.series = series /\ ctx.seq = seq
  OBVIOUS
<1> HIDE DEF ctx
<1>2. PlainHolds(st, {}, ctx)
  <2>1. done \cup AnswersOf(series, seq, {}) = done
    BY DEF AnswersOf
  <2> QED  BY <1>1, <2>1 DEF PlainHolds
<1>3. IsFiniteSet(S) /\ \A s \in SUBSET S : s # {} => LastOf(s) \in s
  BY LastsAreIn DEF Observed
<1>4. ASSUME NEW s \in SUBSET S, NEW acc, s # {}, PlainHolds(acc, s \ {LastOf(s)}, ctx)
      PROVE  PlainHolds(PlainStep(LastOf(s), acc, ctx), s, ctx)
  <2>1. LastOf(s) \in s
    BY <1>3, <1>4
  <2> QED  BY <1>1, <1>4, <2>1, PlainStepKeeps
<1>5. PlainHolds(OfPlain!Fold(st, S, ctx), S, ctx)
  <2> HIDE DEF S
  <2>1. OfPlain!Chooses(S)
    BY <1>3 DEF OfPlain!Chooses
  <2>2. OfPlain!Keeps(S, ctx)
    BY <1>4 DEF OfPlain!Keeps
  <2>3. OfPlain!IsFiniteSet(S)
    BY <1>3 DEF OfPlain!IsFiniteSet, IsFiniteSet
  <2> QED  BY <1>2, <2>1, <2>2, <2>3, OfPlain!FoldKeeps
<1>6. WriteWithoutProvenance(st, series, seq, at, origin) = OfPlain!Fold(st, S, ctx)
  BY <1>1 DEF WriteWithoutProvenance, FoldLeft, MapThenFoldSet, OfPlain!Fold, OfPlain!MapThenFoldSet, PlainStep, LastOf, Max
<1> QED  BY <1>1, <1>5, <1>6 DEF PlainHolds

---------------------------------------------------------------------------
(* Every field of every session *)

Field(row, s) == [period |-> row.period, value |-> row.values[s]]

FieldStep(s, acc, ctx) == UpsertRate(acc, s, Field(ctx.row, s), ctx.at)

AnswersOfRow(row, fields) == {Answer(s, Field(row, s)) : s \in fields}

FieldsHold(acc, fields, ctx) ==
    TxOK(acc, ctx.rows, ctx.versions, ctx.since, ctx.at, "RATES", ctx.done \cup AnswersOfRow(ctx.row, fields))

OfFields == INSTANCE Folding WITH Step <- FieldStep, Choose <- AnyOf, Holds <- FieldsHold

Fields(st, row, at) ==
    FoldSet(LAMBDA s, a : UpsertRate(a, s, [period |-> row.period, value |-> row.values[s]], at),
            st, DOMAIN row.values)

\* The fields of one Treasury session.
LEMMA FieldsKeep ==
    ASSUME NEW st, NEW rows, NEW versions, IsFiniteSet(versions), NEW since \in Nat, NEW at \in Nat, since < at,
           NEW done, NEW row, row.period \in Int, DOMAIN row.values \subseteq TreasurySeries,
           TxOK(st, rows, versions, since, at, "RATES", done)
    PROVE  TxOK(Fields(st, row, at), rows, versions, since, at, "RATES",
                done \cup AnswersOfRow(row, DOMAIN row.values))
<1> DEFINE ctx == [rows |-> rows, versions |-> versions, since |-> since, at |-> at, done |-> done, row |-> row]
           S == DOMAIN row.values
<1>1. /\ ctx.rows = rows /\ ctx.versions = versions /\ ctx.since = since /\ ctx.at = at
      /\ ctx.done = done /\ ctx.row = row
  OBVIOUS
<1> HIDE DEF ctx
<1>2. FieldsHold(st, {}, ctx)
  <2>1. done \cup AnswersOfRow(row, {}) = done
    BY DEF AnswersOfRow
  <2> QED  BY <1>1, <2>1 DEF FieldsHold
<1>3. S \subseteq StoredSeries
  BY DEF StoredSeries
<1>4. IsFiniteSet(S) /\ \A s \in SUBSET S : s # {} => AnyOf(s) \in s
  BY <1>3, SeriesAssumption, FS_Subset DEF AnyOf
<1>5. ASSUME NEW some \in SUBSET S, NEW acc, some # {}, FieldsHold(acc, some \ {AnyOf(some)}, ctx)
      PROVE  FieldsHold(FieldStep(AnyOf(some), acc, ctx), some, ctx)
  <2> DEFINE x == AnyOf(some)
             before == done \cup AnswersOfRow(row, some \ {x})
             o == Field(row, x)
             u == Upsert(acc, x, o, FALSE, at, "RATES")
  <2>1. x \in some /\ x \in StoredSeries
    BY <1>3, <1>4, <1>5
  <2>2. TxOK(acc, rows, versions, since, at, "RATES", before)
    BY <1>1, <1>5 DEF FieldsHold
  <2>3. o.period \in Int
    BY DEF Field
  <2>4. RightBaseline(acc, rows, "RATES", x, o, FALSE)
    BY DEF IsHistory, RightBaseline
  <2>5. "RATES" \in IngestionOrigins
    BY DEF IngestionOrigins
  <2> HIDE DEF x, o, before
  <2>6. TxOK(u, rows, versions, since, at, "RATES", before \cup {Answer(x, o)})
    BY <2>1, <2>2, <2>3, <2>4, <2>5, UpsertKeeps
  <2>7. before \cup {Answer(x, o)} = done \cup AnswersOfRow(row, some)
    BY <2>1 DEF AnswersOfRow, before, o
  <2>8. u = FieldStep(x, acc, ctx)
    BY <1>1 DEF FieldStep, UpsertRate, o
  <2> QED  BY <1>1, <2>6, <2>7, <2>8 DEF FieldsHold, x
<1>6. FieldsHold(OfFields!Fold(st, S, ctx), S, ctx)
  <2> HIDE DEF S
  <2>1. OfFields!Chooses(S)
    BY <1>4 DEF OfFields!Chooses
  <2>2. OfFields!Keeps(S, ctx)
    BY <1>5 DEF OfFields!Keeps
  <2>3. OfFields!IsFiniteSet(S)
    BY <1>4 DEF OfFields!IsFiniteSet, IsFiniteSet
  <2> QED  BY <1>2, <2>1, <2>2, <2>3, OfFields!FoldKeeps
<1>7. Fields(st, row, at) = OfFields!Fold(st, S, ctx)
  BY <1>1 DEF Fields, Field, FoldSet, MapThenFoldSet, OfFields!Fold, OfFields!MapThenFoldSet, FieldStep, AnyOf
<1> QED  BY <1>1, <1>6, <1>7 DEF FieldsHold

SessionStep(i, acc, ctx) == Fields(acc, ctx.sessions[i], ctx.at)

AnswersOfSessions(sessions, s) == UNION {AnswersOfRow(sessions[i], DOMAIN sessions[i].values) : i \in s}

SessionsHold(acc, s, ctx) ==
    TxOK(acc, ctx.rows, ctx.versions, ctx.since, ctx.at, "RATES",
         ctx.done \cup AnswersOfSessions(ctx.sessions, s))

OfSessions == INSTANCE Folding WITH Step <- SessionStep, Choose <- LastOf, Holds <- SessionsHold

\* The sessions of a dataset.
Sessions(seq) ==
    /\ IsFiniteSet(DOMAIN seq) /\ DOMAIN seq \subseteq Int
    /\ \A i \in DOMAIN seq : seq[i].period \in Int /\ DOMAIN seq[i].values \subseteq TreasurySeries

\* The sessions of one Treasury dataset.
LEMMA PersistDatasetKeeps ==
    ASSUME NEW st, NEW rows, NEW versions, IsFiniteSet(versions), NEW since \in Nat, NEW at \in Nat, since < at,
           NEW done, NEW sessions, Sessions(sessions), TxOK(st, rows, versions, since, at, "RATES", done)
    PROVE  TxOK(PersistDataset(st, sessions, at), rows, versions, since, at, "RATES",
                done \cup AnswersOfSessions(sessions, DOMAIN sessions))
<1> DEFINE ctx == [rows |-> rows, versions |-> versions, since |-> since, at |-> at, done |-> done,
                   sessions |-> sessions]
           S == DOMAIN sessions
<1>1. /\ ctx.rows = rows /\ ctx.versions = versions /\ ctx.since = since /\ ctx.at = at
      /\ ctx.done = done /\ ctx.sessions = sessions
  OBVIOUS
<1> HIDE DEF ctx
<1>2. SessionsHold(st, {}, ctx)
  <2>1. done \cup AnswersOfSessions(sessions, {}) = done
    BY DEF AnswersOfSessions
  <2> QED  BY <1>1, <2>1 DEF SessionsHold
<1>3. IsFiniteSet(S) /\ \A s \in SUBSET S : s # {} => LastOf(s) \in s
  BY LastsAreIn DEF Sessions
<1>4. ASSUME NEW some \in SUBSET S, NEW acc, some # {}, SessionsHold(acc, some \ {LastOf(some)}, ctx)
      PROVE  SessionsHold(SessionStep(LastOf(some), acc, ctx), some, ctx)
  <2> DEFINE i == LastOf(some)
             before == done \cup AnswersOfSessions(sessions, some \ {i})
             row == sessions[i]
  <2>1. i \in some /\ row.period \in Int /\ DOMAIN row.values \subseteq TreasurySeries
    BY <1>3, <1>4 DEF Sessions
  <2>2. TxOK(acc, rows, versions, since, at, "RATES", before)
    BY <1>1, <1>4 DEF SessionsHold
  <2> HIDE DEF i, before, row
  <2>3. TxOK(Fields(acc, row, at), rows, versions, since, at, "RATES",
             before \cup AnswersOfRow(row, DOMAIN row.values))
    BY <2>1, <2>2, FieldsKeep
  <2>4. before \cup AnswersOfRow(row, DOMAIN row.values) = done \cup AnswersOfSessions(sessions, some)
    BY <2>1 DEF AnswersOfSessions, before, row
  <2>5. Fields(acc, row, at) = SessionStep(i, acc, ctx)
    BY <1>1 DEF SessionStep, row
  <2> QED  BY <1>1, <2>3, <2>4, <2>5 DEF SessionsHold, i
<1>5. SessionsHold(OfSessions!Fold(st, S, ctx), S, ctx)
  <2> HIDE DEF S
  <2>1. OfSessions!Chooses(S)
    BY <1>3 DEF OfSessions!Chooses
  <2>2. OfSessions!Keeps(S, ctx)
    BY <1>4 DEF OfSessions!Keeps
  <2>3. OfSessions!IsFiniteSet(S)
    BY <1>3 DEF OfSessions!IsFiniteSet, IsFiniteSet
  <2> QED  BY <1>2, <2>1, <2>2, <2>3, OfSessions!FoldKeeps
<1>6. PersistDataset(st, sessions, at) = OfSessions!Fold(st, S, ctx)
  BY <1>1 DEF PersistDataset, FoldLeft, MapThenFoldSet, OfSessions!Fold, OfSessions!MapThenFoldSet, SessionStep, Fields, LastOf, Max
<1> QED  BY <1>1, <1>5, <1>6 DEF SessionsHold

\* An interval is finite.
LEMMA FiniteInterval ==
    ASSUME NEW n \in Nat PROVE IsFiniteSet(1..n) /\ 1..n \subseteq Int /\ Cardinality(1..n) = n
<1>1. 1 \in Int /\ n \in Int
  OBVIOUS
<1>2. IsFiniteSet(1..n) /\ Cardinality(1..n) = IF 1 > n THEN 0 ELSE n - 1 + 1
  BY <1>1, FS_Interval
<1> QED  BY <1>2

\* As many items of a list as there are positions.
PickedFrom(seq, list, P) ==
    /\ Cardinality(P) \in Nat /\ DOMAIN seq = 1..Cardinality(P)
    /\ \A k \in DOMAIN seq : \E i \in P : seq[k] = list[i]

\* The items of a list at some positions.
LEMMA SelectedItems ==
    ASSUME NEW list, NEW P, IsFiniteSet(P), P \subseteq Int
    PROVE  PickedFrom(Selected(list, P), list, P)
<1> DEFINE at(k) == CHOOSE i \in P : Cardinality({j \in P : j =< i}) = k
           n == Cardinality(P)
<1>1. n \in Nat /\ \A k \in 1..n : at(k) \in P
  BY RankedDates DEF RankIn
<1>2. Selected(list, P) = [k \in 1..n |-> list[at(k)]]
  BY DEF Selected
<1> HIDE DEF n, at
<1>3. DOMAIN Selected(list, P) = 1..n /\ \A k \in 1..n : Selected(list, P)[k] = list[at(k)]
  BY <1>2
<1> QED  BY <1>1, <1>3 DEF n, PickedFrom

\* What is sorted is what was there.
LEMMA SortedItems ==
    ASSUME NEW list, NEW n \in Nat, DOMAIN list = 1..n, \A i \in DOMAIN list : list[i].period \in Int
    PROVE  /\ DOMAIN SortedByPeriod(list) = 1..n
           /\ \A k \in 1..n : \E i \in 1..n : SortedByPeriod(list)[k] = list[i]
<1> DEFINE S == 1..n
           notAfter(j, i) == \/ list[j].period < list[i].period
                             \/ list[j].period = list[i].period /\ j =< i
           R == {pair \in S \X S : notAfter(pair[1], pair[2])}
           at(k) == CHOOSE i \in S : Cardinality({j \in S : notAfter(j, i)}) = k
<1>1. IsFiniteSet(S) /\ Cardinality(S) = n
  BY FiniteInterval
<1>2. \A d, e \in S : <<d, e>> \in R <=> notAfter(d, e)
  OBVIOUS
<1>3. Orders(S, R)
  <2>1. \A d \in S : d \in Int /\ list[d].period \in Int
    OBVIOUS
  <2>2. ASSUME NEW d \in S PROVE notAfter(d, d)
    BY <2>1
  <2>3. ASSUME NEW d \in S, NEW e \in S, d # e PROVE notAfter(d, e) <=> ~notAfter(e, d)
    <3> DEFINE p == list[d].period
               q == list[e].period
    <3>1. p \in Int /\ q \in Int /\ d \in Int /\ e \in Int
      BY <2>1
    <3> HIDE DEF p, q, S
    <3>2. (p < q \/ (p = q /\ d =< e)) <=> ~(q < p \/ (q = p /\ e =< d))
      BY <2>3, <3>1
    <3> QED  BY <3>2 DEF p, q
  <2>4. ASSUME NEW c \in S, NEW d \in S, NEW e \in S, notAfter(c, d), notAfter(d, e) PROVE notAfter(c, e)
    <3> DEFINE o == list[c].period
               p == list[d].period
               q == list[e].period
    <3>1. o \in Int /\ p \in Int /\ q \in Int /\ c \in Int /\ d \in Int /\ e \in Int
      BY <2>1
    <3>2. (o < p \/ (o = p /\ c =< d)) /\ (p < q \/ (p = q /\ d =< e))
      BY <2>4
    <3> HIDE DEF o, p, q, S
    <3>3. o < q \/ (o = q /\ c =< e)
      BY <3>1, <3>2
    <3> QED  BY <3>3 DEF o, q
  <2> HIDE DEF notAfter, R, S
  <2> QED  BY <1>2, <2>2, <2>3, <2>4 DEF Orders
<1>4. \A i \in S : RankBy(S, R, i) = Cardinality({j \in S : notAfter(j, i)})
  <2> SUFFICES ASSUME NEW i \in S PROVE {j \in S : <<j, i>> \in R} = {j \in S : notAfter(j, i)}
    BY DEF RankBy
  <2> HIDE DEF notAfter, R, S
  <2> QED  BY <1>2
<1>5. \A k \in 1..n : \E i \in S : RankBy(S, R, i) = k
  <2> HIDE DEF R, S
  <2> QED  BY <1>1, <1>3, Ranked
<1>6. \A k \in 1..n : at(k) \in S
  <2> HIDE DEF notAfter, R, S
  <2> QED  BY <1>4, <1>5
<1>7. SortedByPeriod(list) = [k \in S |-> list[at(k)]]
  BY DEF SortedByPeriod
<1> HIDE DEF at
<1> QED  BY <1>6, <1>7

\* A selection of observations holds observations,
LEMMA ObservedSelected ==
    ASSUME NEW list, Observed(list), NEW P, P \subseteq DOMAIN list
    PROVE  Observed(Selected(list, P))
<1>1. IsFiniteSet(P) /\ P \subseteq Int /\ \A i \in P : list[i].period \in Int
  BY FS_Subset DEF Observed
<1> DEFINE seq == Selected(list, P)
           n == Cardinality(P)
<1>2. n \in Nat /\ DOMAIN seq = 1..n /\ \A k \in DOMAIN seq : \E i \in P : seq[k] = list[i]
  BY <1>1, SelectedItems DEF PickedFrom
<1> HIDE DEF seq, n
<1>3. IsFiniteSet(DOMAIN seq) /\ DOMAIN seq \subseteq Int
  BY <1>2, FiniteInterval
<1> QED  BY <1>1, <1>2, <1>3 DEF Observed, seq

\* and so does a list of them, sorted.
LEMMA ObservedSorted ==
    ASSUME NEW list, NEW n \in Nat, DOMAIN list = 1..n, \A i \in DOMAIN list : list[i].period \in Int
    PROVE  Observed(SortedByPeriod(list))
<1>1. /\ DOMAIN SortedByPeriod(list) = 1..n
      /\ \A k \in 1..n : \E i \in 1..n : SortedByPeriod(list)[k] = list[i]
  BY SortedItems
<1>2. IsFiniteSet(1..n) /\ 1..n \subseteq Int
  BY FiniteInterval
<1> QED  BY <1>1, <1>2 DEF Observed

\* Positions of a list.
LEMMA Positions ==
    ASSUME NEW list, IsList(list), NEW P, P \subseteq DOMAIN list
    PROVE  IsFiniteSet(P) /\ P \subseteq Int
<1>1. IsFiniteSet(DOMAIN list) /\ DOMAIN list \subseteq Int
  BY FiniteInterval DEF IsList
<1> QED  BY <1>1, FS_Subset

\* What the BLS rows parse to.
LEMMA BlsObserved ==
    ASSUME NEW items, DatedItems(items, {Malformed})
    PROVE  Observed(BlsObservations(items))
<1> DEFINE P == {i \in DOMAIN items : BlsMonthly(items[i])}
           monthly == Selected(items, P)
           n == Cardinality(P)
           read == [i \in DOMAIN monthly |->
                      [period |-> monthly[i].period,
                       value |-> IF monthly[i].value = Blank THEN Null ELSE monthly[i].value]]
<1>1. \A i \in P : items[i].period \in Int
  BY DEF DatedItems, BlsMonthly
<1>2. IsFiniteSet(P) /\ P \subseteq Int
  BY Positions DEF DatedItems
<1>3. n \in Nat /\ DOMAIN monthly = 1..n /\ \A k \in DOMAIN monthly : \E i \in P : monthly[k] = items[i]
  <2>1. PickedFrom(monthly, items, P)
    <3> HIDE DEF P
    <3> QED  BY <1>2, SelectedItems
  <2> HIDE DEF P, monthly
  <2> QED  BY <2>1 DEF PickedFrom
<1>4. BlsObservations(items) = SortedByPeriod(read)
  BY DEF BlsObservations
<1> HIDE DEF P, monthly, n
<1>5. DOMAIN read = 1..n /\ \A i \in DOMAIN read : read[i].period \in Int
  BY <1>1, <1>3
<1> HIDE DEF read
<1> QED  BY <1>3, <1>4, <1>5, ObservedSorted

\* Each series of an answer that is read.
LEMMA BlsAnswers ==
    ASSUME NEW body \in BlsBodies, NEW ids, ParseBls(body, ids).error = Null, NEW s \in ids
    PROVE  Observed(ParseBls(body, ids).data[s])
<1> DEFINE entries(id) == {i \in DOMAIN body.series : body.series[i].id = id}
           newest(id) == CHOOSE i \in entries(id) : \A j \in entries(id) : j =< i
           read == [id \in ids |-> BlsObservations(body.series[newest(id)].items)]
<1>1. body # Malformed /\ (\A id \in ids : entries(id) # {}) /\ ParseBls(body, ids).data = read
  BY SeriesAssumption DEF ParseBls, Bad, Good
<1>2. /\ IsList(body.series)
      /\ \A i \in DOMAIN body.series : DatedItems(body.series[i].items, {Malformed})
  BY <1>1, BodiesAssumption
<1>3. newest(s) \in entries(s)
  <2>1. IsFiniteSet(entries(s)) /\ entries(s) \subseteq Int /\ entries(s) # {}
    BY <1>1, <1>2, Positions
  <2> HIDE DEF entries
  <2>2. \E i \in entries(s) : \A j \in entries(s) : j =< i
    BY <2>1, LastIsIn
  <2> QED  BY <2>2
<1>4. newest(s) \in DOMAIN body.series
  <2> HIDE DEF newest
  <2> QED  BY <1>3
<1>5. ParseBls(body, ids).data[s] = BlsObservations(body.series[newest(s)].items)
  <2> HIDE DEF newest
  <2> QED  BY <1>1
<1> HIDE DEF newest
<1> QED  BY <1>2, <1>4, <1>5, BlsObserved

\* The BEA answers, the Census answers, and those of FRED and of the Treasury.
LEMMA BeaAnswers ==
    ASSUME NEW body \in BeaBodies, NEW ids, NEW start, ParseBea(body, ids, start).error = Null, NEW s \in ids
    PROVE  Observed(ParseBea(body, ids, start).data[s])
<1> DEFINE rowsOf(id) == {i \in DOMAIN body.rows : body.rows[i].id = id}
           P(id) == {i \in rowsOf(id) : body.rows[i].period >= start}
           some(id) == Selected(body.rows, P(id))
           list(id) == [i \in DOMAIN some(id) |-> [period |-> some(id)[i].period, value |-> some(id)[i].value]]
           read == [id \in ids |-> SortedByPeriod(list(id))]
<1>1. /\ body # Malformed
      /\ \A i \in DOMAIN body.rows : body.rows[i].id \in ids => body.rows[i].period # Malformed
      /\ ParseBea(body, ids, start).data = read
  BY SeriesAssumption DEF ParseBea, BeaMalformed, Bad, Good
<1>2. DatedItems(body.rows, {Malformed}) /\ \A i \in DOMAIN body.rows : body.rows[i] # Malformed
  BY <1>1, BodiesAssumption
<1> DEFINE Q == P(s)
           kept == some(s)
           n == Cardinality(Q)
<1>3. Q \subseteq DOMAIN body.rows /\ \A i \in Q : body.rows[i].period \in Int
  BY <1>1, <1>2 DEF DatedItems
<1>4. IsFiniteSet(Q) /\ Q \subseteq Int
  <2> HIDE DEF Q
  <2> QED  BY <1>2, <1>3, Positions DEF DatedItems
<1>5. n \in Nat /\ DOMAIN kept = 1..n /\ \A k \in DOMAIN kept : \E i \in Q : kept[k] = body.rows[i]
  <2>1. kept = Selected(body.rows, Q)
    OBVIOUS
  <2> HIDE DEF Q, kept
  <2>2. PickedFrom(kept, body.rows, Q)
    BY <1>4, <2>1, SelectedItems
  <2> QED  BY <2>2 DEF PickedFrom
<1>6. ParseBea(body, ids, start).data[s] = SortedByPeriod(list(s))
  <2> HIDE DEF list
  <2> QED  BY <1>1
<1>7. list(s) = [i \in DOMAIN kept |-> [period |-> kept[i].period, value |-> kept[i].value]]
  OBVIOUS
<1> HIDE DEF kept, Q, n, list
<1>8. DOMAIN list(s) = 1..n /\ \A i \in DOMAIN list(s) : list(s)[i].period \in Int
  BY <1>3, <1>5, <1>7
<1> QED  BY <1>5, <1>6, <1>8, ObservedSorted

\* Census: a cell accepted is an observation.
LEMMA CensusAnswers ==
    ASSUME NEW body \in CensusBodies, ParseCensus(body).error = Null, NEW series
    PROVE  Observed(HousingPublished(ParseCensus(body), series))
<1> DEFINE P == {i \in DOMAIN body.rows : RejectionReason(body.rows[i]) = Null}
           accepted == Selected(body.rows, P)
           n == Cardinality(P)
           read == [i \in DOMAIN accepted |->
                      [series |-> accepted[i].series, period |-> accepted[i].period,
                       is_error_measure |-> accepted[i].flag = "yes",
                       value |-> IF accepted[i].value \in {Blank, NotNumeric} THEN Null ELSE accepted[i].value]]
<1>1. body # Malformed /\ ParseCensus(body).data.accepted = SortedByPeriod(read)
  BY SeriesAssumption DEF ParseCensus, Bad, Good
<1>2. DatedItems(body.rows, {Malformed})
  BY <1>1, BodiesAssumption
<1>3. \A i \in P : body.rows[i].period \in Int
  <2> SUFFICES ASSUME NEW i \in DOMAIN body.rows, RejectionReason(body.rows[i]) = Null
               PROVE  body.rows[i].period \in Int
    OBVIOUS
  <2> DEFINE row == body.rows[i]
  <2>1. row # Malformed /\ row.period # Malformed
    <3> HIDE DEF row
    <3>1. RejectionReason(row) = Null
      BY DEF row
    <3> QED  BY <3>1, SeriesAssumption DEF RejectionReason
  <2> QED  BY <1>2, <2>1 DEF DatedItems
<1>4. IsFiniteSet(P) /\ P \subseteq Int
  BY <1>2, Positions DEF DatedItems
<1>5. n \in Nat /\ DOMAIN accepted = 1..n /\ \A k \in DOMAIN accepted : \E i \in P : accepted[k] = body.rows[i]
  <2>1. PickedFrom(accepted, body.rows, P)
    <3> HIDE DEF P
    <3> QED  BY <1>4, SelectedItems
  <2> HIDE DEF P, accepted
  <2> QED  BY <2>1 DEF PickedFrom
<1> HIDE DEF P, accepted, n
<1>6. DOMAIN read = 1..n /\ \A i \in DOMAIN read : read[i].period \in Int
  BY <1>3, <1>5
<1> HIDE DEF read
<1>7. Observed(SortedByPeriod(read))
  BY <1>5, <1>6, ObservedSorted
<1> DEFINE list == ParseCensus(body).data.accepted
           Q == {i \in DOMAIN list : list[i].series = series /\ ~list[i].is_error_measure /\ list[i].value # Null}
<1>8. HousingPublished(ParseCensus(body), series) = Selected(list, Q)
  BY DEF HousingPublished
<1>9. Observed(list) /\ Q \subseteq DOMAIN list
  BY <1>1, <1>7
<1> HIDE DEF list, Q
<1> QED  BY <1>8, <1>9, ObservedSelected

\* FRED: a value that parses is an observation.
LEMMA FredAnswers ==
    ASSUME NEW body \in FredBodies, ParseFred(body).error = Null
    PROVE  Observed(ParseFred(body).data)
<1> DEFINE items == body.observations
           n == Len(items)
           read == [i \in DOMAIN items |->
                      [period |-> Reverse(items)[i].period,
                       value |-> IF Reverse(items)[i].value = Blank THEN Null ELSE Reverse(items)[i].value]]
<1>1. body # Malformed /\ ParseFred(body).data = read
  BY SeriesAssumption DEF ParseFred, Bad, Good
<1>2. /\ n \in Nat /\ DOMAIN items = 1..n
      /\ \A i \in DOMAIN items : items[i].period \in Int
  BY <1>1, BodiesAssumption DEF DatedItems, IsList
<1>3. \A i \in 1..n : Reverse(items)[i] = items[(n - i) + 1]
  BY DEF Reverse
<1> HIDE DEF items, n
<1>4. \A i \in 1..n : (n - i) + 1 \in 1..n
  BY <1>2
<1>5. DOMAIN read = 1..n /\ \A i \in DOMAIN read : read[i].period \in Int
  BY <1>2, <1>3, <1>4
<1> HIDE DEF read
<1>6. IsFiniteSet(1..n) /\ 1..n \subseteq Int
  BY <1>2, FiniteInterval
<1> QED  BY <1>1, <1>5, <1>6 DEF Observed

\* Treasury: the sessions of both datasets.
LEMMA TreasuryAnswers ==
    ASSUME NEW body \in NominalBodies \cup RealBodies, ParseTreasury(body).error = Null
    PROVE  Sessions(ParseTreasury(body).data)
<1> DEFINE P == {i \in DOMAIN body.entries : body.entries[i].period # Blank}
           dated == Selected(body.entries, P)
           present(e) == {f \in DOMAIN e.values : e.values[f] \notin {Blank, NotNumeric}}
           n == Cardinality(P)
           read == [i \in DOMAIN dated |->
                      [period |-> dated[i].period,
                       values |-> [f \in present(dated[i]) |-> dated[i].values[f]]]]
<1>1. /\ body # Malformed /\ (\A i \in DOMAIN body.entries : body.entries[i].period # Malformed)
      /\ ParseTreasury(body).data = SortedByPeriod(read)
  BY SeriesAssumption DEF ParseTreasury, Bad, Good
<1>2. /\ DatedItems(body.entries, {Blank, Malformed})
      /\ \A i \in DOMAIN body.entries :
           body.entries[i] # Malformed /\ DOMAIN body.entries[i].values \subseteq TreasurySeries
  BY <1>1, BodiesAssumption
<1>3. \A i \in P : body.entries[i].period \in Int /\ DOMAIN body.entries[i].values \subseteq TreasurySeries
  BY <1>1, <1>2 DEF DatedItems
<1>4. IsFiniteSet(P) /\ P \subseteq Int
  BY <1>2, Positions DEF DatedItems
<1>5. n \in Nat /\ DOMAIN dated = 1..n /\ \A k \in DOMAIN dated : \E i \in P : dated[k] = body.entries[i]
  <2>1. PickedFrom(dated, body.entries, P)
    <3> HIDE DEF P
    <3> QED  BY <1>4, SelectedItems
  <2> HIDE DEF P, dated
  <2> QED  BY <2>1 DEF PickedFrom
<1> HIDE DEF P, dated, n
<1>6. /\ DOMAIN read = 1..n
      /\ \A i \in DOMAIN read : read[i].period \in Int /\ DOMAIN read[i].values \subseteq TreasurySeries
  <2>1. DOMAIN read = 1..n
    BY <1>5
  <2>2. ASSUME NEW i \in 1..n PROVE read[i].period \in Int /\ DOMAIN read[i].values \subseteq TreasurySeries
    <3>1. read[i].period = dated[i].period /\ DOMAIN read[i].values = present(dated[i])
      BY <1>5
    <3>2. present(dated[i]) \subseteq DOMAIN dated[i].values
      OBVIOUS
    <3>3. dated[i].period \in Int /\ DOMAIN dated[i].values \subseteq TreasurySeries
      BY <1>3, <1>5
    <3> HIDE DEF read, present
    <3> QED  BY <3>1, <3>2, <3>3
  <2> HIDE DEF read
  <2> QED  BY <2>1, <2>2
<1> HIDE DEF read
<1>7. /\ DOMAIN SortedByPeriod(read) = 1..n
      /\ \A k \in 1..n : \E i \in 1..n : SortedByPeriod(read)[k] = read[i]
  BY <1>5, <1>6, SortedItems
<1>8. IsFiniteSet(1..n) /\ 1..n \subseteq Int
  BY <1>5, FiniteInterval
<1> QED  BY <1>1, <1>6, <1>7, <1>8 DEF Sessions

---------------------------------------------------------------------------
(* Sums over the recorded runs *)

\* A sum of amounts for each set of positions.
Adds(T, amounts) ==
    /\ T[{}] = 0
    /\ \A s \in SUBSET DOMAIN amounts : T[s] \in Int /\ \A x \in s : T[s] = amounts[x] + T[s \ {x}]

\* The sums with one amount more.
OneMoreSum(U, T, n, amount) == \A s \in SUBSET (1..n) : U[s] = T[s] /\ U[s \cup {n + 1}] = T[s] + amount

SumsWith(more, T, n) == \E U : Adds(U, more) /\ OneMoreSum(U, T, n, more[n + 1])

\* A sum with one more run.
LEMMA OneMoreAmount ==
    ASSUME NEW n \in Nat, NEW amounts, DOMAIN amounts = 1..n, NEW T, Adds(T, amounts),
           NEW more, DOMAIN more = 1..(n + 1), \A i \in 1..n : more[i] = amounts[i],
           more[n + 1] \in Int, \A i \in 1..n : amounts[i] \in Int
    PROVE  SumsWith(more, T, n)
<1> DEFINE N == 1..n
           m == n + 1
           a == more[m]
           U == [s \in SUBSET (1..m) |-> T[s \ {m}] + IF m \in s THEN a ELSE 0]
<1>1. m \notin N /\ 1..m = N \cup {m}
  OBVIOUS
<1>2. /\ T[{}] = 0 /\ a \in Int
      /\ \A s \in SUBSET N : T[s] \in Int /\ \A x \in s : T[s] = amounts[x] + T[s \ {x}]
  BY DEF Adds
<1>3. \A s \in SUBSET (1..m) : U[s] = T[s \ {m}] + IF m \in s THEN a ELSE 0
  OBVIOUS
<1> HIDE DEF U, N, m, a
<1>4. ASSUME NEW s \in SUBSET N
      PROVE  U[s] = T[s] /\ U[s \cup {m}] = T[s] + a
  <2>1. /\ s \in SUBSET (1..m) /\ s \cup {m} \in SUBSET (1..m)
        /\ m \notin s /\ s \ {m} = s /\ (s \cup {m}) \ {m} = s /\ m \in s \cup {m}
    BY <1>1
  <2>2. T[s] \in Int
    BY <1>2
  <2>3. U[s] = T[s] + 0 /\ U[s \cup {m}] = T[s] + a
    BY <1>3, <2>1
  <2> QED  BY <2>2, <2>3
<1>5. ASSUME NEW s \in SUBSET (1..m)
      PROVE  U[s] \in Int /\ \A x \in s : U[s] = more[x] + U[s \ {x}]
  <2> DEFINE t == s \ {m}
  <2>1. t \in SUBSET N /\ T[t] \in Int
    BY <1>1, <1>2
  <2>2. U[s] = T[t] + IF m \in s THEN a ELSE 0
    BY <1>3
  <2>3. U[s] \in Int
    BY <1>2, <2>1, <2>2
  <2>4. ASSUME NEW x \in s, x = m PROVE U[s] = more[x] + U[s \ {x}]
    <3>1. U[s] = T[t] + a /\ U[t] = T[t] /\ s \ {x} = t
      BY <1>4, <2>1, <2>2, <2>4
    <3>2. U[s] = a + T[t]
      BY <1>2, <2>1, <3>1
    <3> QED  BY <2>4, <3>1, <3>2 DEF a
  <2>5. ASSUME NEW x \in s, x # m PROVE U[s] = more[x] + U[s \ {x}]
    <3> DEFINE r == t \ {x}
    <3>1. /\ x \in N /\ x \in t /\ r \in SUBSET N /\ more[x] = amounts[x] /\ amounts[x] \in Int
      BY <1>1, <2>1, <2>5 DEF N
    <3>2. T[t] = amounts[x] + T[r] /\ T[r] \in Int
      BY <1>2, <2>1, <3>1
    <3>3. U[s \ {x}] = T[r] + IF m \in s THEN a ELSE 0
      <4>1. s \ {x} \in SUBSET (1..m) /\ (s \ {x}) \ {m} = r /\ (m \in s \ {x} <=> m \in s)
        BY <2>5
      <4> QED  BY <1>3, <4>1
    <3> HIDE DEF t, r
    <3> QED  BY <1>2, <2>1, <2>2, <3>1, <3>2, <3>3
  <2> QED  BY <2>3, <2>4, <2>5
<1>6. U[{}] = 0
  BY <1>2, <1>4
<1>7. Adds(U, more)
  BY <1>5, <1>6 DEF Adds, m
<1> QED  BY <1>4, <1>7 DEF N, m, a, OneMoreSum, SumsWith

\* The community modules' sum is the sum.
InsertedStep(i, acc, ctx) == ctx.runs[i].inserted + acc
RevisedStep(i, acc, ctx) == ctx.runs[i].revised + acc
SumHolds(acc, s, ctx) == acc = ctx.sums[s]

OfInserted == INSTANCE Folding WITH Step <- InsertedStep, Choose <- AnyOf, Holds <- SumHolds
OfRevised == INSTANCE Folding WITH Step <- RevisedStep, Choose <- AnyOf, Holds <- SumHolds

Inserted(runs) == [i \in DOMAIN runs |-> runs[i].inserted]
Revised(runs) == [i \in DOMAIN runs |-> runs[i].revised]

\* What the runs inserted is the sum the table holds,
LEMMA InsertedSum ==
    ASSUME NEW runs, IsFiniteSet(DOMAIN runs), NEW T, Adds(T, Inserted(runs)), NEW S, S \subseteq DOMAIN runs
    PROVE  MapThenSumSet(LAMBDA i : runs[i].inserted, S) = T[S]
<1> DEFINE ctx == [runs |-> runs, sums |-> T]
<1>1. ctx.runs = runs /\ ctx.sums = T
  OBVIOUS
<1> HIDE DEF ctx
<1>2. IsFiniteSet(S) /\ \A s \in SUBSET S : s # {} => AnyOf(s) \in s
  BY FS_Subset DEF AnyOf
<1>3. SumHolds(0, {}, ctx)
  BY <1>1 DEF SumHolds, Adds
<1>4. ASSUME NEW s \in SUBSET S, NEW acc, s # {}, SumHolds(acc, s \ {AnyOf(s)}, ctx)
      PROVE  SumHolds(InsertedStep(AnyOf(s), acc, ctx), s, ctx)
  <2> DEFINE x == AnyOf(s)
  <2>1. x \in s /\ x \in DOMAIN runs /\ s \in SUBSET DOMAIN runs
    BY <1>2, <1>4
  <2>2. T[s] = runs[x].inserted + T[s \ {x}]
    BY <2>1 DEF Adds, Inserted
  <2> QED  BY <1>1, <1>4, <2>2 DEF SumHolds, InsertedStep
<1>5. SumHolds(OfInserted!Fold(0, S, ctx), S, ctx)
  <2>1. OfInserted!Chooses(S)
    BY <1>2 DEF OfInserted!Chooses
  <2>2. OfInserted!Keeps(S, ctx)
    BY <1>4 DEF OfInserted!Keeps
  <2>3. OfInserted!IsFiniteSet(S)
    BY <1>2 DEF OfInserted!IsFiniteSet, IsFiniteSet
  <2> QED  BY <1>3, <2>1, <2>2, <2>3, OfInserted!FoldKeeps
<1>6. MapThenSumSet(LAMBDA i : runs[i].inserted, S) = OfInserted!Fold(0, S, ctx)
  BY <1>1 DEF MapThenSumSet, MapThenFoldSet, OfInserted!Fold, OfInserted!MapThenFoldSet, InsertedStep, AnyOf
<1> QED  BY <1>1, <1>5, <1>6 DEF SumHolds

\* and likewise what they revised.
LEMMA RevisedSum ==
    ASSUME NEW runs, IsFiniteSet(DOMAIN runs), NEW T, Adds(T, Revised(runs)), NEW S, S \subseteq DOMAIN runs
    PROVE  MapThenSumSet(LAMBDA i : runs[i].revised, S) = T[S]
<1> DEFINE ctx == [runs |-> runs, sums |-> T]
<1>1. ctx.runs = runs /\ ctx.sums = T
  OBVIOUS
<1> HIDE DEF ctx
<1>2. IsFiniteSet(S) /\ \A s \in SUBSET S : s # {} => AnyOf(s) \in s
  BY FS_Subset DEF AnyOf
<1>3. SumHolds(0, {}, ctx)
  BY <1>1 DEF SumHolds, Adds
<1>4. ASSUME NEW s \in SUBSET S, NEW acc, s # {}, SumHolds(acc, s \ {AnyOf(s)}, ctx)
      PROVE  SumHolds(RevisedStep(AnyOf(s), acc, ctx), s, ctx)
  <2> DEFINE x == AnyOf(s)
  <2>1. x \in s /\ x \in DOMAIN runs /\ s \in SUBSET DOMAIN runs
    BY <1>2, <1>4
  <2>2. T[s] = runs[x].revised + T[s \ {x}]
    BY <2>1 DEF Adds, Revised
  <2> QED  BY <1>1, <1>4, <2>2 DEF SumHolds, RevisedStep
<1>5. SumHolds(OfRevised!Fold(0, S, ctx), S, ctx)
  <2>1. OfRevised!Chooses(S)
    BY <1>2 DEF OfRevised!Chooses
  <2>2. OfRevised!Keeps(S, ctx)
    BY <1>4 DEF OfRevised!Keeps
  <2>3. OfRevised!IsFiniteSet(S)
    BY <1>2 DEF OfRevised!IsFiniteSet, IsFiniteSet
  <2> QED  BY <1>3, <2>1, <2>2, <2>3, OfRevised!FoldKeeps
<1>6. MapThenSumSet(LAMBDA i : runs[i].revised, S) = OfRevised!Fold(0, S, ctx)
  BY <1>1 DEF MapThenSumSet, MapThenFoldSet, OfRevised!Fold, OfRevised!MapThenFoldSet, RevisedStep, AnyOf
<1> QED  BY <1>1, <1>5, <1>6 DEF SumHolds

RunRecords ==
    [origin : IngestionOrigins, status : {"SUCCEEDED", "PARTIAL_FAILURE", "FAILED"},
     mode : {"NONE", "BASELINE_BACKFILL", "INCREMENTAL"}, inserted : Int, revised : Int]

RunsOf(runs, origin) == {i \in DOMAIN runs : runs[i].origin = origin}

\* The amounts of each origin's runs add up to its count.
Tells(runs, amounts, counts) ==
    \E T : /\ Adds(T, amounts)
           /\ \A o \in IngestionOrigins : T[RunsOf(runs, o)] = counts[o]

\* Counts with an amount of one origin added.
Plus(counts, origin, amount) == [o \in IngestionOrigins |-> counts[o] + IF o = origin THEN amount ELSE 0]

Counting(counts) == \A o \in IngestionOrigins : counts[o] \in Int

\* A run recorded adds what its command wrote.
LEMMA OneMoreRun ==
    ASSUME NEW runs \in Seq(RunRecords), NEW r \in RunRecords, NEW counts, Counting(counts),
           NEW amounts, DOMAIN amounts = DOMAIN runs, \A i \in DOMAIN runs : amounts[i] \in Int,
           Tells(runs, amounts, counts),
           NEW more, DOMAIN more = DOMAIN Append(runs, r), \A i \in DOMAIN runs : more[i] = amounts[i],
           NEW amount \in Int, more[Len(runs) + 1] = amount
    PROVE  /\ Tells(Append(runs, r), more, Plus(counts, r.origin, amount))
           /\ Counting(Plus(counts, r.origin, amount))
<1> DEFINE n == Len(runs)
           m == n + 1
           later == Append(runs, r)
           c == Plus(counts, r.origin, amount)
<1>1. n \in Nat /\ DOMAIN runs = 1..n /\ DOMAIN later = 1..m
  OBVIOUS
<1>2. later[m] = r /\ \A i \in 1..n : later[i] = runs[i]
  OBVIOUS
<1>3. PICK T : Adds(T, amounts) /\ \A o \in IngestionOrigins : T[RunsOf(runs, o)] = counts[o]
  BY DEF Tells
<1>4. PICK U : /\ Adds(U, more)
               /\ \A s \in SUBSET (1..n) : U[s] = T[s] /\ U[s \cup {m}] = T[s] + more[m]
  <2>1. DOMAIN amounts = 1..n /\ DOMAIN more = 1..m /\ more[m] \in Int
    BY <1>1
  <2>2. (\A i \in 1..n : more[i] = amounts[i]) /\ (\A i \in 1..n : amounts[i] \in Int)
    BY <1>1
  <2> HIDE DEF n
  <2>3. SumsWith(more, T, n)
    BY <1>1, <1>3, <2>1, <2>2, OneMoreAmount
  <2> QED  BY <2>3 DEF SumsWith, OneMoreSum
<1>5. \A o \in IngestionOrigins : c[o] = counts[o] + IF o = r.origin THEN amount ELSE 0
  BY DEF Plus
<1>6. ASSUME NEW o \in IngestionOrigins PROVE U[RunsOf(later, o)] = c[o] /\ c[o] \in Int
  <2> DEFINE s == RunsOf(runs, o)
  <2>1. s \in SUBSET (1..n) /\ T[s] = counts[o] /\ counts[o] \in Int
    BY <1>1, <1>3 DEF RunsOf, Counting
  <2>2. U[s] = T[s] /\ U[s \cup {m}] = T[s] + amount
    BY <1>4, <2>1
  <2>3. CASE r.origin = o
    <3>1. RunsOf(later, o) = s \cup {m}
      <4> HIDE DEF later, n
      <4>1. 1..m = (1..n) \cup {m}
        BY <1>1
      <4> HIDE DEF m
      <4> QED  BY <1>1, <1>2, <2>3, <4>1 DEF RunsOf
    <3> HIDE DEF s, later, c, m, n
    <3> QED  BY <1>5, <2>1, <2>2, <2>3, <3>1
  <2>4. CASE r.origin # o
    <3>1. RunsOf(later, o) = s
      <4> HIDE DEF later, n
      <4>1. 1..m = (1..n) \cup {m}
        BY <1>1
      <4> HIDE DEF m
      <4> QED  BY <1>1, <1>2, <2>4, <4>1 DEF RunsOf
    <3> HIDE DEF s, later, c, m, n
    <3>2. c[o] = counts[o] + 0
      BY <1>5, <2>4
    <3> QED  BY <2>1, <2>2, <3>1, <3>2
  <2> QED  BY <2>3, <2>4
<1> HIDE DEF c, later
<1> QED  BY <1>4, <1>6 DEF Tells, Counting, c, later

NewCounts(versions) == [o \in IngestionOrigins |-> Counted(versions, o, "NEW")]
RevisedCounts(versions) == [o \in IngestionOrigins |-> Counted(versions, o, "REVISED")]

\* The recorded runs tell what the version history tells.
RunsTell(runs, news, revisions) ==
    /\ runs \in Seq(RunRecords) /\ Counting(news) /\ Counting(revisions)
    /\ Tells(runs, Inserted(runs), news) /\ Tells(runs, Revised(runs), revisions)

RunsOK(runs, versions) == RunsTell(runs, NewCounts(versions), RevisedCounts(versions))

\* The runs after a command recorded one.
LEMMA RunAppended ==
    ASSUME NEW runs, NEW news, NEW revisions, RunsTell(runs, news, revisions), NEW r \in RunRecords
    PROVE  RunsTell(Append(runs, r), Plus(news, r.origin, r.inserted), Plus(revisions, r.origin, r.revised))
<1> DEFINE later == Append(runs, r)
           n == Len(runs)
<1>1. /\ runs \in Seq(RunRecords) /\ later \in Seq(RunRecords)
      /\ n \in Nat /\ DOMAIN runs = 1..n /\ DOMAIN later = 1..(n + 1)
      /\ later[n + 1] = r /\ (\A i \in 1..n : later[i] = runs[i]) /\ \A i \in 1..n : runs[i] \in RunRecords
  BY DEF RunsTell
<1>2. \A x \in RunRecords : x.inserted \in Int /\ x.revised \in Int
  BY DEF RunRecords
<1>3. n + 1 \in 1..(n + 1) /\ \A i \in 1..n : i \in 1..(n + 1)
  BY <1>1
<1> HIDE DEF later
<1>4. /\ DOMAIN Inserted(runs) = DOMAIN runs /\ (\A i \in DOMAIN runs : Inserted(runs)[i] \in Int)
      /\ DOMAIN Inserted(later) = DOMAIN later
      /\ (\A i \in DOMAIN runs : Inserted(later)[i] = Inserted(runs)[i])
      /\ Inserted(later)[n + 1] = r.inserted /\ r.inserted \in Int
  <2> HIDE DEF n
  <2> QED  BY <1>1, <1>2, <1>3 DEF Inserted
<1>5. /\ DOMAIN Revised(runs) = DOMAIN runs /\ (\A i \in DOMAIN runs : Revised(runs)[i] \in Int)
      /\ DOMAIN Revised(later) = DOMAIN later
      /\ (\A i \in DOMAIN runs : Revised(later)[i] = Revised(runs)[i])
      /\ Revised(later)[n + 1] = r.revised /\ r.revised \in Int
  <2> HIDE DEF n
  <2> QED  BY <1>1, <1>2, <1>3 DEF Revised
<1>6. /\ Tells(later, Inserted(later), Plus(news, r.origin, r.inserted))
      /\ Counting(Plus(news, r.origin, r.inserted))
  BY <1>1, <1>4, OneMoreRun DEF RunsTell, later
<1>7. /\ Tells(later, Revised(later), Plus(revisions, r.origin, r.revised))
      /\ Counting(Plus(revisions, r.origin, r.revised))
  BY <1>1, <1>5, OneMoreRun DEF RunsTell, later
<1> QED  BY <1>1, <1>6, <1>7 DEF RunsTell, later

\* The runs of a command of this origin say what it inserted and revised.
OwnRuns(runs, origin, inserted, revised) ==
    \/ runs = <<>> /\ origin \notin IngestionOrigins
    \/ \E a \in RunRecords : /\ runs = <<a>> /\ a.origin = origin
                             /\ a.inserted = inserted /\ a.revised = revised
    \/ \E a, b \in RunRecords : /\ runs = <<a, b>> /\ a.origin = origin /\ b.origin = origin
                                /\ a.inserted + b.inserted = inserted /\ a.revised + b.revised = revised

\* The recorded runs still account for the versions when a command has recorded its own.
LEMMA RunsKeep ==
    ASSUME NEW before, NEW versions, RunsOK(before, versions), NEW st, NEW origin, Tally(st, versions, origin),
           NEW runs, OwnRuns(runs, origin, st.inserted, st.revised)
    PROVE  RunsOK(before \o runs, st.versions)
<1> DEFINE news == NewCounts(versions)
           revisions == RevisedCounts(versions)
           laterNews == NewCounts(st.versions)
           laterRevisions == RevisedCounts(st.versions)
<1>1. /\ RunsTell(before, news, revisions) /\ before \in Seq(RunRecords)
      /\ \A o \in IngestionOrigins : news[o] \in Int /\ revisions[o] \in Int
  BY DEF RunsOK, RunsTell, Counting
<1>2. \A o \in IngestionOrigins :
        /\ laterNews[o] = news[o] + IF o = origin THEN st.inserted ELSE 0
        /\ laterRevisions[o] = revisions[o] + IF o = origin THEN st.revised ELSE 0
  BY DEF Tally, NewCounts, RevisedCounts
<1>3. /\ laterNews = [o \in IngestionOrigins |-> laterNews[o]]
      /\ laterRevisions = [o \in IngestionOrigins |-> laterRevisions[o]]
  BY DEF NewCounts, RevisedCounts
<1>4. /\ news = [o \in IngestionOrigins |-> news[o]]
      /\ revisions = [o \in IngestionOrigins |-> revisions[o]]
  BY DEF NewCounts, RevisedCounts
<1>5. \A x \in RunRecords : x.inserted \in Int /\ x.revised \in Int
  BY DEF RunRecords
<1> HIDE DEF news, revisions, laterNews, laterRevisions
<1>6. CASE runs = <<>> /\ origin \notin IngestionOrigins
  <2>1. before \o runs = before
    BY <1>1, <1>6
  <2>2. ASSUME NEW o \in IngestionOrigins PROVE laterNews[o] = news[o] /\ laterRevisions[o] = revisions[o]
    <3>1. o # origin
      BY <1>6
    <3>2. laterNews[o] = news[o] + 0 /\ laterRevisions[o] = revisions[o] + 0
      BY <1>2, <3>1
    <3> QED  BY <1>1, <3>2
  <2>3. laterNews = news /\ laterRevisions = revisions
    BY <1>3, <1>4, <2>2
  <2> QED  BY <1>1, <2>1, <2>3 DEF RunsOK, laterNews, laterRevisions
<1>7. ASSUME NEW a \in RunRecords, runs = <<a>>, a.origin = origin,
             a.inserted = st.inserted, a.revised = st.revised
      PROVE  RunsOK(before \o runs, st.versions)
  <2>1. before \o runs = Append(before, a)
    BY <1>1, <1>7
  <2>2. laterNews = Plus(news, a.origin, a.inserted) /\ laterRevisions = Plus(revisions, a.origin, a.revised)
    BY <1>2, <1>3, <1>7 DEF Plus
  <2>3. RunsTell(Append(before, a), Plus(news, a.origin, a.inserted), Plus(revisions, a.origin, a.revised))
    BY <1>1, RunAppended
  <2> QED  BY <2>1, <2>2, <2>3 DEF RunsOK, laterNews, laterRevisions
<1>8. ASSUME NEW a \in RunRecords, NEW b \in RunRecords, runs = <<a, b>>, a.origin = origin, b.origin = origin,
             a.inserted + b.inserted = st.inserted, a.revised + b.revised = st.revised
      PROVE  RunsOK(before \o runs, st.versions)
  <2> DEFINE one == Append(before, a)
             ones == Plus(news, a.origin, a.inserted)
             others == Plus(revisions, a.origin, a.revised)
  <2>1. before \o runs = Append(one, b)
    BY <1>1, <1>8
  <2>2. \A o \in IngestionOrigins :
          /\ ones[o] = news[o] + IF o = origin THEN a.inserted ELSE 0
          /\ others[o] = revisions[o] + IF o = origin THEN a.revised ELSE 0
    BY <1>8 DEF Plus
  <2>3. \A o \in IngestionOrigins :
          /\ Plus(ones, b.origin, b.inserted)[o] = ones[o] + IF o = origin THEN b.inserted ELSE 0
          /\ Plus(others, b.origin, b.revised)[o] = others[o] + IF o = origin THEN b.revised ELSE 0
    BY <1>8 DEF Plus
  <2>4. RunsTell(one, ones, others)
    BY <1>1, RunAppended
  <2> HIDE DEF one, ones, others
  <2>5. RunsTell(Append(one, b), Plus(ones, b.origin, b.inserted), Plus(others, b.origin, b.revised))
    BY <2>4, RunAppended
  <2>6. ASSUME NEW o \in IngestionOrigins
        PROVE  /\ laterNews[o] = Plus(ones, b.origin, b.inserted)[o]
               /\ laterRevisions[o] = Plus(others, b.origin, b.revised)[o]
    <3>1. /\ a.inserted \in Int /\ b.inserted \in Int /\ a.revised \in Int /\ b.revised \in Int
          /\ news[o] \in Int /\ revisions[o] \in Int
      BY <1>1, <1>5
    <3>2. /\ laterNews[o] = news[o] + IF o = origin THEN a.inserted + b.inserted ELSE 0
          /\ laterRevisions[o] = revisions[o] + IF o = origin THEN a.revised + b.revised ELSE 0
      BY <1>2, <1>8
    <3>3. CASE o = origin
      BY <2>2, <2>3, <3>1, <3>2, <3>3
    <3>4. CASE o # origin
      BY <2>2, <2>3, <3>1, <3>2, <3>4
    <3> QED  BY <3>3, <3>4
  <2>7. laterNews = Plus(ones, b.origin, b.inserted) /\ laterRevisions = Plus(others, b.origin, b.revised)
    <3>1. /\ Plus(ones, b.origin, b.inserted) = [o \in IngestionOrigins |-> Plus(ones, b.origin, b.inserted)[o]]
          /\ Plus(others, b.origin, b.revised) = [o \in IngestionOrigins |-> Plus(others, b.origin, b.revised)[o]]
      BY DEF Plus
    <3> QED  BY <1>3, <2>6, <3>1
  <2> QED  BY <2>1, <2>5, <2>7 DEF RunsOK, laterNews, laterRevisions
<1> QED  BY <1>6, <1>7, <1>8 DEF OwnRuns

---------------------------------------------------------------------------
(* What each command is answered, and what it leaves *)

AgencyReceived(series, parsed, years) == [s \in series |-> InWindow(parsed.data[s], years)]

AgencyAnswers(series, parsed, years) ==
    IF parsed.error # Null THEN {} ELSE AnswersOfAll(AgencyReceived(series, parsed, years), series)

HousingReceived(parsed) == [s \in HousingSeries |-> HousingPublished(parsed, s)]

HousingAnswers(parsed) ==
    IF parsed.error # Null THEN {} ELSE AnswersOfAll(HousingReceived(parsed), HousingSeries)

DatasetAnswers(parsed) ==
    IF parsed.error # Null THEN {} ELSE AnswersOfSessions(parsed.data, DOMAIN parsed.data)

\* The series of an agency are read as lists of observations.
Readable(series, parsed) == parsed.error = Null => \A s \in series : Observed(parsed.data[s])

\* The run an import records.
LEMMA FirstPartyRunKeeps ==
    ASSUME NEW st, NEW rows, NEW versions, IsFiniteSet(versions), NEW since \in Nat, NEW at \in Nat, since < at,
           NEW done, NEW series \in SUBSET StoredSeries, NEW parsed, Readable(series, parsed), NEW years,
           TxOK(st, rows, versions, since, at, "FIRST_PARTY", done),
           AllHistories(rows), \A r \in done : r.series \notin series
    PROVE  TxOK(FirstPartyRun(st, series, parsed, years, at).st, rows, versions, since, at, "FIRST_PARTY",
                done \cup AgencyAnswers(series, parsed, years))
<1> DEFINE after == FirstPartyRun(st, series, parsed, years, at).st
           seqs == AgencyReceived(series, parsed, years)
<1>1. CASE parsed.error # Null
  <2>1. after = st
    BY <1>1 DEF FirstPartyRun
  <2>2. done \cup AgencyAnswers(series, parsed, years) = done
    BY <1>1 DEF AgencyAnswers
  <2> QED  BY <2>1, <2>2
<1>2. CASE parsed.error = Null
  <2>1. after = Histories(st, series, seqs, at, "FIRST_PARTY")
    BY <1>2 DEF FirstPartyRun, Histories, AgencyReceived
  <2>2. AgencyAnswers(series, parsed, years) = AnswersOfAll(seqs, series)
    BY <1>2 DEF AgencyAnswers
  <2>3. \A s \in series : Observed(seqs[s])
    <3> SUFFICES ASSUME NEW s \in series PROVE Observed(seqs[s])
      OBVIOUS
    <3> DEFINE list == parsed.data[s]
               P == {i \in DOMAIN list : list[i].period \in WindowStart(years)..Today}
    <3>1. Observed(list)
      BY <1>2 DEF Readable
    <3>2. seqs[s] = Selected(list, P) /\ P \subseteq DOMAIN list
      BY DEF AgencyReceived, InWindow
    <3> HIDE DEF list, P, seqs
    <3> QED  BY <3>1, <3>2, ObservedSelected
  <2>4. "FIRST_PARTY" \in {"FIRST_PARTY", "HOUSING"}
    OBVIOUS
  <2> HIDE DEF seqs, after
  <2>5. HistoriesPersisted(st, rows, versions, since, at, "FIRST_PARTY", done, series, seqs)
    BY <2>3, <2>4, HistoriesKeep
  <2> QED  BY <2>1, <2>2, <2>5 DEF HistoriesPersisted, after
<1> QED  BY <1>1, <1>2

\* What a first-party run records.
LEMMA FirstPartyRunTells ==
    ASSUME NEW st, NEW series, NEW parsed, NEW years, NEW at, NEW result,
           result = FirstPartyRun(st, series, parsed, years, at),
           st.inserted \in Nat, st.revised \in Nat, result.st.inserted \in Nat, result.st.revised \in Nat
    PROVE  /\ result.run \in RunRecords /\ result.run.origin = "FIRST_PARTY"
           /\ result.run.inserted = result.st.inserted - st.inserted
           /\ result.run.revised = result.st.revised - st.revised
<1> DEFINE after == result.st
<1>1. PICK status \in {"SUCCEEDED", "PARTIAL_FAILURE", "FAILED"},
           mode \in {"NONE", "BASELINE_BACKFILL", "INCREMENTAL"} :
        result.run = Run("FIRST_PARTY", status, mode, after, st)
  BY DEF FirstPartyRun
<1> HIDE DEF after
<1>2. after.inserted - st.inserted \in Int /\ after.revised - st.revised \in Int
  BY DEF after
<1> QED  BY <1>1, <1>2 DEF Run, RunRecords, IngestionOrigins, after

\* What is committed.
IngestInv ==
    /\ stamp \in Nat
    /\ VersionsOK(store.versions, stamp) /\ RowsOK(store.rows, store.versions)
    /\ ProvenanceOK(store.provenance, store.rows, store.versions, stamp)
    /\ Sourced(store.provenance, store.rows)
    /\ RunsOK(runsDone, store.versions)

\* A command starts from the stored state with nothing told.
LEMMA CommandBegins ==
    ASSUME IngestInv, NEW origin, NEW at \in Nat, stamp < at
    PROVE  /\ TxOK(Begun, store.rows, store.versions, stamp, at, origin, {})
           /\ IsFiniteSet(store.versions) /\ AllHistories(store.rows) /\ stamp \in Nat
<1> DEFINE st == Begun
<1>1. /\ IsStore(st) /\ st.rows = store.rows /\ st.versions = store.versions
      /\ st.provenance = store.provenance /\ st.raised \in BOOLEAN /\ ~st.raised
      /\ st.inserted = 0 /\ st.revised = 0
  BY DEF Begun, IsStore
<1> HIDE DEF st
<1>2. /\ VersionsOK(st.versions, stamp) /\ RowsOK(st.rows, st.versions)
      /\ ProvenanceOK(st.provenance, st.rows, st.versions, stamp) /\ Sourced(st.provenance, st.rows)
      /\ stamp \in Nat
  BY <1>1 DEF IngestInv
<1>3. TxOK(st, st.rows, st.versions, stamp, at, origin, {})
  BY <1>1, <1>2, TxBegins
<1>4. IsFiniteSet(store.versions) /\ AllHistories(store.rows)
  BY DEF IngestInv, VersionsOK, RowsOK, AllHistories
<1> QED  BY <1>1, <1>2, <1>3, <1>4 DEF st

\* How a command ends: all of its answers stored, or a conflict among them.
Ended(raised, rows, done) == IF raised THEN Conflict(done) ELSE Answered(rows, done)

Completed(command, done) ==
    /\ IngestInv' /\ JudgedByBefore(store'.versions, stamp, store.rows)
    /\ last'.command = command /\ Ended(last'.raised, store'.rows, done)

\* A command that finished leaves the invariant behind.
LEMMA FinishKeeps ==
    ASSUME IngestInv, NEW command, NEW st, NEW runs, NEW exit, NEW ticks \in Nat, NEW origin, NEW done,
           TxOK(st, store.rows, store.versions, stamp, stamp + ticks, origin, done),
           OwnRuns(runs, origin, st.inserted, st.revised),
           Finish(command, st, runs, exit, ticks)
    PROVE  Completed(command, done)
<1>1. stamp' = stamp + ticks /\ stamp \in Nat /\ stamp =< stamp + ticks /\ stamp + ticks \in Nat
  BY DEF Finish, IngestInv
<1>2. CASE st.raised
  <2>1. store' = store /\ runsDone' = runsDone /\ last'.command = command /\ last'.raised
    BY <1>2 DEF Finish
  <2>2. Conflict(done)
    BY <1>2 DEF TxOK
  <2>3. VersionsOK(store.versions, stamp + ticks)
    BY <1>1 DEF IngestInv, VersionsOK, IsVersion
  <2>4. ProvenanceOK(store.provenance, store.rows, store.versions, stamp + ticks)
    BY <1>1, ProvenanceWaits DEF IngestInv
  <2>5. \A v \in store.versions : ~(v.at > stamp)
    BY <1>1 DEF IngestInv, VersionsOK, IsVersion
  <2> QED  BY <1>1, <2>1, <2>2, <2>3, <2>4, <2>5 DEF IngestInv, JudgedByBefore, Ended, Completed
<1>3. CASE ~st.raised
  <2>1. /\ store'.rows = st.rows /\ store'.versions = st.versions /\ store'.provenance = st.provenance
        /\ last'.command = command /\ ~last'.raised
    BY <1>3 DEF Finish, Kept
  <2>2. /\ Account(st.rows, st.versions, store.rows, stamp, stamp + ticks, origin, done)
        /\ ProvenanceOK(st.provenance, st.rows, st.versions, stamp + ticks)
        /\ Sourced(st.provenance, st.rows)
    BY <1>3 DEF TxOK
  <2>3. /\ VersionsOK(st.versions, stamp + ticks) /\ RowsOK(st.rows, st.versions)
        /\ Answered(st.rows, done) /\ JudgedByBefore(st.versions, stamp, store.rows)
    BY <2>2 DEF Account
  <2>4. runsDone' = runsDone \o runs /\ Tally(st, store.versions, origin)
    BY <1>3 DEF Finish, TxOK
  <2>5. RunsOK(runsDone \o runs, st.versions)
    BY <2>4, RunsKeep DEF IngestInv
  <2> QED  BY <1>1, <2>1, <2>2, <2>3, <2>4, <2>5 DEF IngestInv, Ended, Completed
<1> QED  BY <1>2, <1>3

\* import_first_party.
LEMMA ImportKeeps ==
    ASSUME IngestInv, NEW years, NEW bls \in BlsBodies, NEW bea \in BeaBodies, ImportHistory(years, bls, bea)
    PROVE  Completed(<<"import", years, bls, bea>>,
                     AgencyAnswers(BlsSeries, ParseBls(bls, BlsSeries), years)
                       \cup AgencyAnswers(BeaSeries, ParseBea(bea, BeaSeries, WindowStart(years)), years))
<1> DEFINE p == ParseBls(bls, BlsSeries)
           q == ParseBea(bea, BeaSeries, WindowStart(years))
           first == FirstPartyRun(Begun, BlsSeries, p, years, stamp + 1)
           second == FirstPartyRun(first.st, BeaSeries, q, years, stamp + 2)
           A == AgencyAnswers(BlsSeries, p, years)
           B == AgencyAnswers(BeaSeries, q, years)
<1>1. Readable(BlsSeries, p) /\ Readable(BeaSeries, q)
  BY BlsAnswers, BeaAnswers DEF Readable
<1>2. Finish(<<"import", years, bls, bea>>, second.st, <<first.run, second.run>>,
             ImportExit(<<first.run, second.run>>), 2)
  BY DEF ImportHistory
<1>3. /\ stamp \in Nat /\ stamp + 1 \in Nat /\ stamp + 2 \in Nat
      /\ stamp < stamp + 1 /\ stamp < stamp + 2 /\ stamp + 1 =< stamp + 2
  BY DEF IngestInv
<1>4. /\ TxOK(Begun, store.rows, store.versions, stamp, stamp + 1, "FIRST_PARTY", {})
      /\ IsFiniteSet(store.versions) /\ AllHistories(store.rows)
  BY <1>3, CommandBegins
<1>5. /\ BlsSeries \in SUBSET StoredSeries /\ BeaSeries \in SUBSET StoredSeries
      /\ \A r \in A : r.series \notin BeaSeries
  <2>1. \A r \in A : r.series \in BlsSeries
    BY DEF AgencyAnswers, AnswersOfAll, AnswersOf, Answer
  <2> HIDE DEF A
  <2> QED  BY <2>1, SeriesAssumption DEF StoredSeries, FirstPartySeries
<1> HIDE DEF p, q, A, B
<1>6. TxOK(first.st, store.rows, store.versions, stamp, stamp + 1, "FIRST_PARTY", A)
  <2>1. TxOK(first.st, store.rows, store.versions, stamp, stamp + 1, "FIRST_PARTY", {} \cup A)
    BY <1>1, <1>3, <1>4, <1>5, FirstPartyRunKeeps DEF A
  <2>2. {} \cup A = A
    OBVIOUS
  <2> QED  BY <2>1, <2>2
<1> DEFINE st == first.st
<1> HIDE DEF first
<1>7. TxOK(st, store.rows, store.versions, stamp, stamp + 2, "FIRST_PARTY", A)
  BY <1>3, <1>6, TxWaits
<1> HIDE DEF st
<1>8. TxOK(FirstPartyRun(st, BeaSeries, q, years, stamp + 2).st, store.rows, store.versions, stamp, stamp + 2,
           "FIRST_PARTY", A \cup AgencyAnswers(BeaSeries, q, years))
  BY <1>1, <1>3, <1>4, <1>5, <1>7, FirstPartyRunKeeps
<1>9. TxOK(second.st, store.rows, store.versions, stamp, stamp + 2, "FIRST_PARTY", A \cup B)
  BY <1>8 DEF st, B
<1>10. OwnRuns(<<first.run, second.run>>, "FIRST_PARTY", second.st.inserted, second.st.revised)
  <2>1. /\ st.inserted \in Nat /\ st.revised \in Nat
        /\ second.st.inserted \in Nat /\ second.st.revised \in Nat
    BY <1>7, <1>9 DEF TxOK
  <2>2. Begun.inserted = 0 /\ Begun.revised = 0
    BY DEF Begun
  <2> HIDE DEF second
  <2>3. /\ first.run \in RunRecords /\ first.run.origin = "FIRST_PARTY"
        /\ first.run.inserted = st.inserted - 0 /\ first.run.revised = st.revised - 0
    <3>1. first.st.inserted \in Nat /\ first.st.revised \in Nat
      BY <2>1 DEF st
    <3>2. /\ first.run \in RunRecords /\ first.run.origin = "FIRST_PARTY"
          /\ first.run.inserted = first.st.inserted - Begun.inserted
          /\ first.run.revised = first.st.revised - Begun.revised
      BY <2>2, <3>1, FirstPartyRunTells DEF first
    <3> QED  BY <2>2, <3>2 DEF st
  <2>4. /\ second.run \in RunRecords /\ second.run.origin = "FIRST_PARTY"
        /\ second.run.inserted = second.st.inserted - st.inserted
        /\ second.run.revised = second.st.revised - st.revised
    <3>1. second = FirstPartyRun(st, BeaSeries, q, years, stamp + 2)
      BY DEF second, st
    <3> QED  BY <2>1, <3>1, FirstPartyRunTells
  <2>5. /\ first.run.inserted + second.run.inserted = second.st.inserted
        /\ first.run.revised + second.run.revised = second.st.revised
    BY <2>1, <2>3, <2>4
  <2> QED  BY <2>3, <2>4, <2>5 DEF OwnRuns
<1> HIDE DEF second
<1>11. Completed(<<"import", years, bls, bea>>, A \cup B)
  BY <1>2, <1>9, <1>10, FinishKeeps DEF p, q, first, second
<1> QED  BY <1>11 DEF A, B, p, q

\* One dataset of the rates synchronisation, written or rolled back.
LEMMA DatasetKeeps ==
    ASSUME NEW st, NEW rows, NEW versions, IsFiniteSet(versions), NEW since \in Nat, NEW at \in Nat, since < at,
           NEW done, NEW body \in NominalBodies \cup RealBodies,
           TxOK(st, rows, versions, since, at, "RATES", done)
    PROVE  TxOK(DatasetAfter(st, ParseTreasury(body), at), rows, versions, since, at, "RATES",
                done \cup DatasetAnswers(ParseTreasury(body)))
<1> DEFINE p == ParseTreasury(body)
<1>1. p.error = Null => Sessions(p.data)
  BY TreasuryAnswers
<1> HIDE DEF p
<1>2. CASE p.error # Null
  <2>1. DatasetAfter(st, p, at) = st /\ done \cup DatasetAnswers(p) = done
    BY <1>2 DEF DatasetAfter, DatasetAnswers
  <2> QED  BY <2>1 DEF p
<1>3. CASE p.error = Null
  <2>1. /\ DatasetAfter(st, p, at) = PersistDataset(st, p.data, at)
        /\ DatasetAnswers(p) = AnswersOfSessions(p.data, DOMAIN p.data)
    BY <1>3 DEF DatasetAfter, DatasetAnswers
  <2> DEFINE sessions == p.data
  <2>2. Sessions(sessions)
    BY <1>1, <1>3
  <2> HIDE DEF sessions
  <2>3. TxOK(PersistDataset(st, sessions, at), rows, versions, since, at, "RATES",
             done \cup AnswersOfSessions(sessions, DOMAIN sessions))
    BY <2>2, PersistDatasetKeeps
  <2> QED  BY <2>1, <2>3 DEF sessions, p
<1> QED  BY <1>2, <1>3

\* The run of a whole command records what the command wrote.
LEMMA RunRecorded ==
    ASSUME NEW st, st.inserted \in Nat, st.revised \in Nat, NEW origin \in IngestionOrigins,
           NEW status \in {"SUCCEEDED", "PARTIAL_FAILURE", "FAILED"},
           NEW mode \in {"NONE", "BASELINE_BACKFILL", "INCREMENTAL"}
    PROVE  OwnRuns(<<Run(origin, status, mode, st, Begun)>>, origin, st.inserted, st.revised)
<1> DEFINE r == Run(origin, status, mode, st, Begun)
<1>1. Begun.inserted = 0 /\ Begun.revised = 0
  BY DEF Begun
<1>2. /\ r \in RunRecords /\ r.origin = origin
      /\ r.inserted = st.inserted /\ r.revised = st.revised
  BY <1>1 DEF Run, RunRecords
<1> HIDE DEF r
<1>3. OwnRuns(<<r>>, origin, st.inserted, st.revised)
  BY <1>2 DEF OwnRuns
<1> QED  BY <1>3 DEF r

\* The rates synchronisation.
LEMMA RatesKeep ==
    ASSUME IngestInv, NEW nominal \in NominalBodies, NEW real \in RealBodies, SyncRates(nominal, real)
    PROVE  Completed(<<"rates", nominal, real>>,
                     DatasetAnswers(ParseTreasury(nominal)) \cup DatasetAnswers(ParseTreasury(real)))
<1> DEFINE first == DatasetAfter(Begun, ParseTreasury(nominal), stamp + 1)
           second == DatasetAfter(first, ParseTreasury(real), stamp + 2)
           A == DatasetAnswers(ParseTreasury(nominal))
           B == DatasetAnswers(ParseTreasury(real))
<1>1. PICK status \in {"SUCCEEDED", "PARTIAL_FAILURE", "FAILED"} :
        Finish(<<"rates", nominal, real>>, second, <<RatesRun(status, second)>>, 0, 2)
  BY DEF SyncRates
<1>2. /\ stamp \in Nat /\ stamp + 1 \in Nat /\ stamp + 2 \in Nat
      /\ stamp < stamp + 1 /\ stamp < stamp + 2 /\ stamp + 1 =< stamp + 2
  BY DEF IngestInv
<1>3. /\ TxOK(Begun, store.rows, store.versions, stamp, stamp + 1, "RATES", {})
      /\ IsFiniteSet(store.versions)
  BY <1>2, CommandBegins
<1>4. TxOK(first, store.rows, store.versions, stamp, stamp + 1, "RATES", A)
  <2>1. TxOK(first, store.rows, store.versions, stamp, stamp + 1, "RATES", {} \cup A)
    BY <1>2, <1>3, DatasetKeeps
  <2>2. {} \cup A = A
    OBVIOUS
  <2> QED  BY <2>1, <2>2
<1> HIDE DEF first, A
<1>5. TxOK(first, store.rows, store.versions, stamp, stamp + 2, "RATES", A)
  BY <1>2, <1>4, TxWaits
<1>6. TxOK(second, store.rows, store.versions, stamp, stamp + 2, "RATES", A \cup B)
  BY <1>2, <1>3, <1>5, DatasetKeeps
<1> HIDE DEF second, B
<1>7. OwnRuns(<<RatesRun(status, second)>>, "RATES", second.inserted, second.revised)
  <2>1. second.inserted \in Nat /\ second.revised \in Nat
    BY <1>6 DEF TxOK
  <2> QED  BY <2>1, RunRecorded DEF RatesRun, IngestionOrigins
<1>8. Completed(<<"rates", nominal, real>>, A \cup B)
  BY <1>1, <1>6, <1>7, FinishKeeps
<1> QED  BY <1>8 DEF A, B

\* The housing synchronisation.
LEMMA HousingKeeps ==
    ASSUME IngestInv, NEW body \in CensusBodies, SyncHousing(body)
    PROVE  Completed(<<"housing", body>>, HousingAnswers(ParseCensus(body)))
<1> DEFINE p == ParseCensus(body)
           seqs == HousingReceived(p)
           nothing == p.error # Null \/ p.data.accepted = <<>>
           after == IF nothing THEN Begun ELSE Histories(Begun, HousingSeries, seqs, stamp + 1, "HOUSING")
           D == HousingAnswers(p)
<1>1. PICK status \in {"SUCCEEDED", "PARTIAL_FAILURE", "FAILED"}, mode \in {"BASELINE_BACKFILL", "INCREMENTAL"} :
        Finish(<<"housing", body>>, after, <<HousingRun(status, mode, after)>>, 0, 1)
  BY DEF SyncHousing, HousingStatus, Histories, HousingReceived
<1>2. stamp \in Nat /\ stamp + 1 \in Nat /\ stamp < stamp + 1
  BY DEF IngestInv
<1>3. /\ TxOK(Begun, store.rows, store.versions, stamp, stamp + 1, "HOUSING", {})
      /\ IsFiniteSet(store.versions) /\ AllHistories(store.rows)
  BY <1>2, CommandBegins
<1>4. TxOK(after, store.rows, store.versions, stamp, stamp + 1, "HOUSING", D)
  <2>1. CASE p.error # Null
    <3>1. after = Begun /\ D = {}
      BY <2>1 DEF HousingAnswers
    <3> QED  BY <1>3, <3>1
  <2>2. CASE p.error = Null /\ p.data.accepted = <<>>
    <3>1. after = Begun
      BY <2>2
    <3>2. \A s \in HousingSeries : DOMAIN seqs[s] = {}
      <4> SUFFICES ASSUME NEW s \in HousingSeries PROVE DOMAIN seqs[s] = {}
        OBVIOUS
      <4> DEFINE list == p.data.accepted
                 P == {i \in DOMAIN list : /\ list[i].series = s /\ ~list[i].is_error_measure
                                           /\ list[i].value # Null}
      <4>1. seqs[s] = Selected(list, P) /\ P \subseteq DOMAIN list
        BY DEF HousingReceived, HousingPublished
      <4>2. DOMAIN list = {}
        BY <2>2
      <4> HIDE DEF list, P, seqs
      <4>3. P = {}
        BY <4>1, <4>2
      <4>4. IsFiniteSet(P) /\ P \subseteq Int /\ Cardinality(P) = 0
        BY <4>3, FS_EmptySet
      <4>5. PickedFrom(Selected(list, P), list, P)
        BY <4>4, SelectedItems
      <4>6. DOMAIN Selected(list, P) = 1..0
        BY <4>4, <4>5 DEF PickedFrom
      <4> QED  BY <4>1, <4>6
    <3>3. D = AnswersOfAll(seqs, HousingSeries)
      BY <2>2 DEF HousingAnswers
    <3> HIDE DEF seqs, D
    <3>4. D = {}
      BY <3>2, <3>3 DEF AnswersOfAll, AnswersOf
    <3> QED  BY <1>3, <3>1, <3>4
  <2>3. CASE ~nothing
    <3>1. after = Histories(Begun, HousingSeries, seqs, stamp + 1, "HOUSING")
      BY <2>3
    <3>2. D = AnswersOfAll(seqs, HousingSeries)
      BY <2>3 DEF HousingAnswers
    <3>3. \A s \in HousingSeries : Observed(seqs[s])
      BY <2>3, CensusAnswers DEF HousingReceived
    <3>4. /\ "HOUSING" \in {"FIRST_PARTY", "HOUSING"} /\ HousingSeries \in SUBSET StoredSeries
          /\ \A r \in {} : r.series \notin HousingSeries
      BY DEF StoredSeries
    <3> HIDE DEF seqs, D, after
    <3>5. HistoriesPersisted(Begun, store.rows, store.versions, stamp, stamp + 1, "HOUSING", {},
                             HousingSeries, seqs)
      BY <1>2, <1>3, <3>3, <3>4, HistoriesKeep
    <3>6. {} \cup D = D
      OBVIOUS
    <3> QED  BY <3>1, <3>2, <3>5, <3>6 DEF HistoriesPersisted
  <2> QED  BY <2>1, <2>2, <2>3
<1> HIDE DEF after, D
<1>5. OwnRuns(<<HousingRun(status, mode, after)>>, "HOUSING", after.inserted, after.revised)
  <2>1. after.inserted \in Nat /\ after.revised \in Nat
    BY <1>4 DEF TxOK
  <2> QED  BY <2>1, RunRecorded DEF HousingRun, IngestionOrigins
<1>6. Completed(<<"housing", body>>, D)
  BY <1>1, <1>4, <1>5, FinishKeeps
<1> QED  BY <1>6 DEF D

PlainAnswers(series, parsed) == IF parsed.error # Null THEN {} ELSE AnswersOf(series, parsed.data, DOMAIN parsed.data)

\* A command that writes one series without provenance,
LEMMA PlainCommandKeeps ==
    ASSUME IngestInv, NEW command, NEW origin, origin \notin IngestionOrigins,
           NEW series \in StoredSeries \ TreasurySeries, NEW seq, Observed(seq),
           Finish(command, WriteWithoutProvenance(Begun, series, seq, stamp + 1, origin), <<>>, 0, 1)
    PROVE  Completed(command, AnswersOf(series, seq, DOMAIN seq))
<1> DEFINE after == WriteWithoutProvenance(Begun, series, seq, stamp + 1, origin)
           D == AnswersOf(series, seq, DOMAIN seq)
<1>1. stamp \in Nat /\ stamp + 1 \in Nat /\ stamp < stamp + 1
  BY DEF IngestInv
<1>2. TxOK(Begun, store.rows, store.versions, stamp, stamp + 1, origin, {}) /\ IsFiniteSet(store.versions)
  BY <1>1, CommandBegins
<1>3. TxOK(after, store.rows, store.versions, stamp, stamp + 1, origin, {} \cup D)
  BY <1>1, <1>2, PlainKeeps
<1>4. {} \cup D = D
  OBVIOUS
<1> HIDE DEF after, D
<1>5. TxOK(after, store.rows, store.versions, stamp, stamp + 1, origin, D)
  BY <1>3, <1>4
<1>6. Finish(command, after, <<>>, 0, 1)
  BY DEF after
<1>7. OwnRuns(<<>>, origin, after.inserted, after.revised)
  BY DEF OwnRuns
<1>8. Completed(command, D)
  BY <1>5, <1>6, <1>7, FinishKeeps
<1> QED  BY <1>8 DEF D

\* the synchronisation of a FRED series,
LEMMA SeriesKeeps ==
    ASSUME IngestInv, NEW series \in FredSeries, NEW body \in FredBodies, SyncSeries(series, body)
    PROVE  Completed(<<"series", series, body>>, PlainAnswers(series, ParseFred(body)))
<1> DEFINE p == ParseFred(body)
           seq == p.data
<1>1. p.error = Null => Observed(seq)
  BY FredAnswers
<1>2. series \in StoredSeries \ TreasurySeries /\ "SERIES_SYNC" \notin IngestionOrigins
  BY SeriesAssumption DEF StoredSeries, IngestionOrigins
<1>3. CASE p.error # Null
  <2>1. /\ last'.command = <<"series", series, body>> /\ ~last'.raised
        /\ UNCHANGED <<stamp, store, runsDone>>
    BY <1>3 DEF SyncSeries
  <2>2. PlainAnswers(series, p) = {}
    BY <1>3 DEF PlainAnswers
  <2>3. IngestInv' /\ \A v \in store.versions : ~(v.at > stamp)
    BY <2>1 DEF IngestInv, VersionsOK, IsVersion
  <2> QED  BY <2>1, <2>2, <2>3 DEF Completed, Ended, Answered, JudgedByBefore
<1>4. CASE p.error = Null
  <2>1. Finish(<<"series", series, body>>,
               WriteWithoutProvenance(Begun, series, seq, stamp + 1, "SERIES_SYNC"), <<>>, 0, 1)
    BY <1>4 DEF SyncSeries
  <2>2. PlainAnswers(series, p) = AnswersOf(series, seq, DOMAIN seq)
    BY <1>4 DEF PlainAnswers
  <2>3. Observed(seq)
    BY <1>1, <1>4
  <2> HIDE DEF seq, p
  <2>4. Completed(<<"series", series, body>>, AnswersOf(series, seq, DOMAIN seq))
    BY <1>2, <2>1, <2>3, PlainCommandKeeps
  <2> QED  BY <2>2, <2>4 DEF p
<1> QED  BY <1>3, <1>4

\* or the write of a release check.
LEMMA ReleaseKeeps ==
    ASSUME IngestInv, NEW row \in ReleaseRows, ReleaseCheck(row)
    PROVE  Completed(<<"release", row>>, {Answer(row.series, row)})
<1> DEFINE o == [period |-> row.period, value |-> row.value]
           seq == <<o>>
           D == AnswersOf(row.series, seq, DOMAIN seq)
<1>1. Finish(<<"release", row>>, WriteWithoutProvenance(Begun, row.series, seq, stamp + 1, "RELEASE"), <<>>, 0, 1)
  BY DEF ReleaseCheck
<1>2. /\ row.series \in StoredSeries \ TreasurySeries /\ row.period \in Int
      /\ "RELEASE" \notin IngestionOrigins
  BY SeriesAssumption DEF IngestionOrigins
<1>3. DOMAIN seq = 1..1 /\ seq[1] = o /\ o.period = row.period /\ o.value = row.value
  OBVIOUS
<1> HIDE DEF o, seq
<1>4. Observed(seq)
  <2>1. IsFiniteSet(1..1)
    BY FiniteInterval
  <2>2. 1..1 \subseteq Int /\ \A i \in 1..1 : i = 1
    OBVIOUS
  <2> QED  BY <1>2, <1>3, <2>1, <2>2 DEF Observed
<1>5. D = {Answer(row.series, row)}
  <2>1. \A i \in 1..1 : i = 1
    OBVIOUS
  <2>2. 1 \in 1..1
    OBVIOUS
  <2>3. Answer(row.series, o) = Answer(row.series, row)
    BY <1>3 DEF Answer
  <2>4. D = {Answer(row.series, seq[1])}
    BY <1>3, <2>1, <2>2 DEF AnswersOf
  <2> QED  BY <1>3, <2>3, <2>4
<1>6. Completed(<<"release", row>>, D)
  BY <1>1, <1>2, <1>4, PlainCommandKeeps
<1> QED  BY <1>5, <1>6

\* The answers of an agency, series by series.
AgencyAnswered(series, parsed, years) ==
    IF parsed.error # Null THEN {}
    ELSE UNION {AnswersOf(s, InWindow(parsed.data[s], years), DOMAIN InWindow(parsed.data[s], years)) : s \in series}

\* What each command was answered, in the terms of the invariant: the import,
LEMMA ImportReceived ==
    ASSUME NEW years, NEW bls, NEW bea
    PROVE  Received(<<"import", years, bls, bea>>) =
             AgencyAnswers(BlsSeries, ParseBls(bls, BlsSeries), years)
               \cup AgencyAnswers(BeaSeries, ParseBea(bea, BeaSeries, WindowStart(years)), years)
<1>1. ASSUME NEW series, NEW parsed
      PROVE  AgencyAnswered(series, parsed, years) = AgencyAnswers(series, parsed, years)
  <2>1. \A s \in series : AgencyReceived(series, parsed, years)[s] = InWindow(parsed.data[s], years)
    BY DEF AgencyReceived
  <2> QED  BY <2>1 DEF AgencyAnswered, AgencyAnswers, AnswersOfAll
<1> DEFINE command == <<"import", years, bls, bea>>
           p == ParseBls(command[3], BlsSeries)
           q == ParseBea(command[4], BeaSeries, WindowStart(command[2]))
<1>2. Len(command) = 4
  OBVIOUS
<1>3. Received(command) = AgencyAnswered(BlsSeries, p, command[2]) \cup AgencyAnswered(BeaSeries, q, command[2])
  <2> HIDE DEF command
  <2> QED  BY <1>2 DEF Received, AgencyAnswered, AnswersOf, Answer
<1>4. command[2] = years /\ command[3] = bls /\ command[4] = bea
  OBVIOUS
<1> HIDE DEF command
<1> QED  BY <1>1, <1>3, <1>4 DEF command

\* the rates,
LEMMA RatesReceived ==
    ASSUME NEW nominal, NEW real
    PROVE  Received(<<"rates", nominal, real>>) =
             DatasetAnswers(ParseTreasury(nominal)) \cup DatasetAnswers(ParseTreasury(real))
<1> DEFINE command == <<"rates", nominal, real>>
           Read(parsed) == IF parsed.error # Null THEN {}
             ELSE UNION {{[series |-> s, period |-> parsed.data[i].period, value |-> parsed.data[i].values[s]] :
                           s \in DOMAIN parsed.data[i].values} : i \in DOMAIN parsed.data}
<1>1. ASSUME NEW parsed PROVE Read(parsed) = DatasetAnswers(parsed)
  <2>1. \A row, s : Answer(s, Field(row, s)) = [series |-> s, period |-> row.period, value |-> row.values[s]]
    BY DEF Answer, Field
  <2>2. \A i \in DOMAIN parsed.data :
          AnswersOfRow(parsed.data[i], DOMAIN parsed.data[i].values) =
            {[series |-> s, period |-> parsed.data[i].period, value |-> parsed.data[i].values[s]] :
               s \in DOMAIN parsed.data[i].values}
    BY <2>1 DEF AnswersOfRow
  <2> QED  BY <2>2 DEF DatasetAnswers, AnswersOfSessions
<1>2. Len(command) = 3 /\ command[1] = "rates" /\ command[2] = nominal /\ command[3] = real
  OBVIOUS
<1>3. Received(command) = Read(ParseTreasury(command[2])) \cup Read(ParseTreasury(command[3]))
  <2> HIDE DEF command
  <2> QED  BY <1>2 DEF Received
<1> HIDE DEF command, Read
<1> QED  BY <1>1, <1>2, <1>3 DEF command

\* housing,
LEMMA HousingReceivedIs ==
    ASSUME NEW body PROVE Received(<<"housing", body>>) = HousingAnswers(ParseCensus(body))
<1> DEFINE command == <<"housing", body>>
           parsed == ParseCensus(command[2])
           Read == IF parsed.error # Null THEN {}
                   ELSE UNION {AnswersOf(s, HousingPublished(parsed, s), DOMAIN HousingPublished(parsed, s)) :
                                 s \in HousingSeries}
<1>1. Len(command) = 2 /\ command[1] = "housing" /\ command[2] = body
  OBVIOUS
<1>2. Received(command) = Read
  <2> HIDE DEF command
  <2> QED  BY <1>1 DEF Received, AnswersOf, Answer
<1>3. \A s \in HousingSeries : HousingReceived(parsed)[s] = HousingPublished(parsed, s)
  BY DEF HousingReceived
<1>4. Read = HousingAnswers(parsed)
  BY <1>3 DEF HousingAnswers, AnswersOfAll
<1> HIDE DEF command, Read
<1> QED  BY <1>1, <1>2, <1>4 DEF command

\* a FRED series,
LEMMA SeriesReceived ==
    ASSUME NEW series, NEW body
    PROVE  Received(<<"series", series, body>>) = PlainAnswers(series, ParseFred(body))
<1> DEFINE command == <<"series", series, body>>
<1>1. Len(command) = 3 /\ command[1] = "series" /\ command[2] = series /\ command[3] = body
  OBVIOUS
<1> HIDE DEF command
<1>2. Received(command) = PlainAnswers(command[2], ParseFred(command[3]))
  BY <1>1 DEF Received, PlainAnswers, AnswersOf, Answer
<1> QED  BY <1>1, <1>2 DEF command

\* a release row.
LEMMA ReleaseReceived ==
    ASSUME NEW row PROVE Received(<<"release", row>>) = {row}
<1> DEFINE command == <<"release", row>>
<1>1. Len(command) = 2 /\ command[1] = "release" /\ command[2] = row
  OBVIOUS
<1> HIDE DEF command
<1>2. Received(command) = {command[2]}
  BY <1>1 DEF Received
<1> QED  BY <1>1, <1>2 DEF command

---------------------------------------------------------------------------
(* Each command *)

IngestNext == FirstPartyNext \/ RatesNext \/ HousingNext

\* The invariant holds of the empty store.
LEMMA IngestStarts ==
    ASSUME IngestionInit PROVE IngestInv /\ AnswersAreStored
<1> DEFINE v == store.versions
<1>1. /\ stamp = 0 /\ v = {} /\ store.rows = [s \in StoredSeries |-> [m \in {} |-> m]]
      /\ DOMAIN store.provenance = {} /\ runsDone = <<>> /\ last.command = <<>> /\ ~last.raised
  BY DEF IngestionInit
<1>2. IsFiniteSet({})
  BY FS_EmptySet
<1>3. \A s \in StoredSeries : History(store.rows[s]) /\ DOMAIN store.rows[s] = {}
  BY <1>1, <1>2 DEF History
<1>4. VersionsOK(v, stamp) /\ RowsOK(store.rows, v)
  BY <1>1, <1>2, <1>3 DEF VersionsOK, RowsOK, BySeries
<1>5. ProvenanceOK(store.provenance, store.rows, v, stamp)
  BY <1>1 DEF ProvenanceOK
<1>6. Sourced(store.provenance, store.rows)
  BY <1>3 DEF Sourced, StoredSeries
<1>7. RunsOK(runsDone, v)
  <2> DEFINE T == [s \in {{}} |-> 0]
             none == <<>>
  <2>1. Inserted(none) = <<>> /\ Revised(none) = <<>> /\ none \in Seq(RunRecords) /\ DOMAIN none = {}
    BY DEF Inserted, Revised
  <2>2. Adds(T, <<>>)
    BY DEF Adds
  <2>3. \A o : T[RunsOf(none, o)] = 0
    BY <2>1 DEF RunsOf
  <2>4. \A o, type : Counted({}, o, type) = 0
    BY FS_EmptySet DEF Counted, Ids
  <2> HIDE DEF T, none
  <2>5. /\ \A o \in IngestionOrigins : NewCounts({})[o] = 0 /\ RevisedCounts({})[o] = 0
        /\ Counting(NewCounts({})) /\ Counting(RevisedCounts({}))
    BY <2>4 DEF NewCounts, RevisedCounts, Counting
  <2>6. Tells(none, Inserted(none), NewCounts({})) /\ Tells(none, Revised(none), RevisedCounts({}))
    BY <2>1, <2>2, <2>3, <2>5 DEF Tells
  <2> QED  BY <1>1, <2>1, <2>5, <2>6 DEF RunsOK, RunsTell, none
<1>8. AnswersAreStored
  <2>1. Received(<<>>) = {}
    <3> DEFINE command == <<>>
    <3>1. Len(command) = 0
      OBVIOUS
    <3> HIDE DEF command
    <3>2. Received(command) = {}
      BY <3>1 DEF Received
    <3> QED  BY <3>2 DEF command
  <2> QED  BY <1>1, <2>1 DEF AnswersAreStored
<1>9. stamp \in Nat
  BY <1>1
<1> QED  BY <1>4, <1>5, <1>6, <1>7, <1>8, <1>9 DEF IngestInv, v

\* What the invariant says of the last command is what AnswersAreStored says.
LEMMA AnswersFollow ==
    ASSUME NEW command, NEW done, Completed(command, done), Received(command) = done
    PROVE  AnswersAreStored'
<1>1. Received(last'.command) = done /\ Ended(last'.raised, store'.rows, done)
  BY DEF Completed
<1>2. CASE last'.raised
  <2>1. \E q, r \in done : q.series = r.series /\ q.period = r.period /\ ~SameValue(q.value, r.value)
    BY <1>1, <1>2 DEF Ended, Conflict, SameKey
  <2> QED  BY <1>1, <1>2, <2>1 DEF AnswersAreStored
<1>3. CASE ~last'.raised
  <2>1. \A r \in done : /\ r.period \in DOMAIN store'.rows[r.series]
                        /\ \E q \in done : /\ q.series = r.series /\ q.period = r.period
                                           /\ store'.rows[r.series][r.period] = q.value
    BY <1>1, <1>3 DEF Ended, Answered, SameKey
  <2> QED  BY <1>1, <1>3, <2>1 DEF AnswersAreStored, HasRow
<1> QED  BY <1>2, <1>3

\* What a step of ingestion leaves.
Stepped ==
    /\ IngestInv' /\ AnswersAreStored'
    /\ JudgedByBefore(store'.versions, stamp, store.rows)

\* Every command keeps the invariant.
LEMMA CommandKeeps ==
    ASSUME NEW command, NEW done, Completed(command, done), Received(command) = done
    PROVE  Stepped
BY AnswersFollow DEF Completed, Stepped

\* A step that writes nothing judges nothing.
LEMMA NothingJudged ==
    ASSUME IngestInv PROVE JudgedByBefore(store.versions, stamp, store.rows)
<1>1. \A v \in store.versions : ~(v.at > stamp)
  BY DEF IngestInv, VersionsOK, IsVersion
<1> QED  BY <1>1 DEF JudgedByBefore

\* So does every step.
LEMMA IngestKeeps ==
    ASSUME IngestInv, IngestNext PROVE Stepped
<1>1. ASSUME NEW years, RefuseImport(years) PROVE Stepped
  <2>1. /\ last'.command = <<"import", years>> /\ last'.raised
        /\ UNCHANGED <<stamp, store, runsDone>>
    BY <1>1 DEF RefuseImport
  <2>2. last'.command[1] = "import" /\ Len(last'.command) = 2
    BY <2>1
  <2>3. AnswersAreStored'
    BY <2>1, <2>2 DEF AnswersAreStored
  <2>4. IngestInv'
    BY <2>1 DEF IngestInv
  <2> QED  BY <2>1, <2>3, <2>4, NothingJudged DEF Stepped
<1>2. ASSUME NEW years, NEW bls \in BlsBodies, NEW bea \in BeaBodies, ImportHistory(years, bls, bea)
      PROVE  Stepped
  BY <1>2, ImportKeeps, ImportReceived, CommandKeeps
<1>3. ASSUME NEW series \in FredSeries, NEW body \in FredBodies, SyncSeries(series, body) PROVE Stepped
  BY <1>3, SeriesKeeps, SeriesReceived, CommandKeeps
<1>4. ASSUME NEW row \in ReleaseRows, ReleaseCheck(row) PROVE Stepped
  <2> DEFINE done == {Answer(row.series, row)}
             command == <<"release", row>>
  <2>1. Completed(command, done) /\ Received(command) = {row}
    BY <1>4, ReleaseKeeps, ReleaseReceived
  <2> HIDE DEF command
  <2>2. /\ IngestInv' /\ JudgedByBefore(store'.versions, stamp, store.rows)
        /\ last'.command = command /\ Ended(last'.raised, store'.rows, done)
    BY <2>1 DEF Completed
  <2>3. Answer(row.series, row).series = row.series /\ Answer(row.series, row).period = row.period
        /\ Answer(row.series, row).value = row.value
    BY DEF Answer
  <2>4. CASE last'.raised
    <3>1. ~SameValue(row.value, row.value)
      BY <2>2, <2>3, <2>4 DEF Ended, Conflict
    <3> QED  BY <2>1, <2>2, <2>4, <3>1 DEF AnswersAreStored, Stepped
  <2>5. CASE ~last'.raised
    <3>1. row.period \in DOMAIN store'.rows[row.series] /\ store'.rows[row.series][row.period] = row.value
      BY <2>2, <2>3, <2>5 DEF Ended, Answered
    <3> QED  BY <2>1, <2>2, <2>5, <3>1 DEF AnswersAreStored, Stepped, HasRow
  <2> QED  BY <2>4, <2>5
<1>5. ASSUME NEW nominal \in NominalBodies, NEW real \in RealBodies, SyncRates(nominal, real) PROVE Stepped
  BY <1>5, RatesKeep, RatesReceived, CommandKeeps
<1>6. ASSUME NEW body \in CensusBodies, SyncHousing(body) PROVE Stepped
  BY <1>6, HousingKeeps, HousingReceivedIs, CommandKeeps
<1> QED  BY <1>1, <1>2, <1>3, <1>4, <1>5, <1>6 DEF IngestNext, FirstPartyNext, RatesNext, HousingNext

\* The steps of ingestion, in the system.
LEMMA IngestSteps == Spec => IngestionInit /\ [][IngestNext]_ingestionVars
<1>1. Init => IngestionInit
  BY DEF Init
<1>2. [Next]_vars => [IngestNext]_ingestionVars
  BY DEF Next, vars, IngestNext
<1> QED  BY <1>1, <1>2, PTL DEF Spec

\* The invariant of ingestion: rows, versions, provenance rows and recorded runs
\* agree after every command, and so do the rows with what the last one was answered.
THEOREM IngestInvInductive == Spec => [](IngestInv /\ AnswersAreStored)
<1>1. IngestInv /\ AnswersAreStored /\ [IngestNext]_ingestionVars => (IngestInv /\ AnswersAreStored)'
  <2>1. CASE UNCHANGED ingestionVars
    BY <2>1 DEF IngestInv, AnswersAreStored, HasRow, ingestionVars
  <2>2. CASE IngestNext
    BY <2>2, IngestKeeps DEF Stepped
  <2> QED  BY <2>1, <2>2
<1> QED  BY <1>1, IngestStarts, IngestSteps, PTL

---------------------------------------------------------------------------
(* The properties *)

\* As many images as elements, when no two share one.
LEMMA ImageSize ==
    ASSUME NEW S, IsFiniteSet(S), NEW f, DOMAIN f = S, f = [x \in S |-> f[x]],
           \A x, y \in S : f[x] = f[y] => x = y
    PROVE  Cardinality({f[x] : x \in S}) = Cardinality(S)
<1> DEFINE T == {f[x] : x \in S}
<1>1. f \in [S -> T]
  OBVIOUS
<1>2. f \in Surjection(S, T)
  BY <1>1 DEF Surjection
<1>3. f \in Injection(S, T)
  BY <1>1 DEF Injection, IsInjective
<1> HIDE DEF T
<1> QED  BY <1>2, <1>3, FS_Surjection DEF T

\* The types of the ingestion state hold, and each stored row has exactly one
\* open version, which holds its value: save_observation of
\* app/repositories/canonical_observation_writer.py.
THEOREM IngestionTypesHold == Spec => []IngestionTypeOK
<1>1. IngestInv => IngestionTypeOK
  <2> SUFFICES ASSUME IngestInv PROVE IngestionTypeOK
    OBVIOUS
  <2> DEFINE rows == store.rows
             versions == store.versions
  <2>1. VersionsOK(versions, stamp) /\ RowsOK(rows, versions)
    BY DEF IngestInv
  <2>2. stamp \in Nat /\ DOMAIN rows = StoredSeries
    BY <2>1 DEF IngestInv, RowsOK, BySeries
  <2>3. \A key \in DOMAIN store.provenance : HasRow(store, key[1], key[2])
    BY DEF IngestInv, ProvenanceOK, HasRow
  <2>4. ASSUME NEW s \in StoredSeries, NEW m \in DOMAIN rows[s]
        PROVE  \E v \in versions : /\ {u \in versions : u.series = s /\ u.period = m /\ u.to = Null} = {v}
                                   /\ v.value = rows[s][m]
    <3> HIDE DEF versions, rows
    <3>1. PICK v \in versions : v.series = s /\ v.period = m /\ v.to = Null /\ v.value = rows[s][m]
      BY <2>1, <2>4 DEF RowsOK
    <3>2. \A u \in versions : u.series = s /\ u.period = m /\ u.to = Null => u = v
      BY <2>1, <3>1, OneOpenVersion DEF SameKey
    <3> QED  BY <3>1, <3>2
  <2>5. \A i \in DOMAIN runsDone : runsDone[i].status \in {"SUCCEEDED", "PARTIAL_FAILURE", "FAILED"}
    <3>1. runsDone \in Seq(RunRecords)
      BY DEF IngestInv, RunsOK, RunsTell
    <3>2. \A i \in DOMAIN runsDone : runsDone[i] \in RunRecords
      BY <3>1
    <3> QED  BY <3>2 DEF RunRecords
  <2> QED  BY <2>2, <2>3, <2>4, <2>5 DEF IngestionTypeOK
<1> QED  BY <1>1, IngestInvInductive, PTL

\* A command that answered stores what it was answered: import_first_party and
\* the syncs, app/services/first_party_ingestion.py:149.
THEOREM AnswersStay == Spec => []AnswersAreStored
BY IngestInvInductive, PTL

\* An imported value is a baseline iff it was history when the import began:
\* app/domain/housing.py:159.
THEOREM HistoryIsTold == Spec => BaselineIsHistory
<1>1. IngestInv /\ [IngestNext]_ingestionVars =>
        [\A v \in store'.versions : v.at > stamp =>
           (v.backfilled <=>
              /\ v.type = "NEW"
              /\ v.origin \in {"FIRST_PARTY", "HOUSING"}
              /\ \/ DOMAIN store.rows[v.series] = {}
                 \/ \E m \in DOMAIN store.rows[v.series] : m > v.period)]_ingestionVars
  <2> SUFFICES ASSUME IngestInv, IngestNext
               PROVE  \A v \in store'.versions : v.at > stamp =>
                        (v.backfilled <=>
                           /\ v.type = "NEW"
                           /\ v.origin \in {"FIRST_PARTY", "HOUSING"}
                           /\ \/ DOMAIN store.rows[v.series] = {}
                              \/ \E m \in DOMAIN store.rows[v.series] : m > v.period)
    OBVIOUS
  <2>1. JudgedByBefore(store'.versions, stamp, store.rows)
    BY IngestKeeps DEF Stepped
  <2> QED  BY <2>1 DEF JudgedByBefore, IsHistory
<1> QED  BY <1>1, IngestInvInductive, IngestSteps, PTL DEF BaselineIsHistory

\* What the recorded runs say they inserted and revised is what the version
\* history says their origin wrote: app/services/rates_ingestion.py:118.
THEOREM RunsAreAccountedFor == Spec => []RunsAccountForVersions
<1>1. IngestInv => RunsAccountForVersions
  <2> SUFFICES ASSUME IngestInv, NEW origin \in IngestionOrigins
               PROVE  /\ MapThenSumSet(LAMBDA i : runsDone[i].inserted, RunsOf(runsDone, origin))
                           = Cardinality(VersionsBy(origin, "NEW"))
                      /\ MapThenSumSet(LAMBDA i : runsDone[i].revised, RunsOf(runsDone, origin))
                           = Cardinality(VersionsBy(origin, "REVISED"))
    BY DEF RunsAccountForVersions, RunsOf
  <2>1. RunsOK(runsDone, store.versions) /\ VersionsOK(store.versions, stamp)
    BY DEF IngestInv
  <2>2. IsFiniteSet(DOMAIN runsDone)
    <3>1. runsDone \in Seq(RunRecords)
      BY <2>1 DEF RunsOK, RunsTell
    <3>2. Len(runsDone) \in Nat /\ DOMAIN runsDone = 1..Len(runsDone)
      BY <3>1
    <3> QED  BY <3>2, FiniteInterval
  <2>3. RunsOf(runsDone, origin) \subseteq DOMAIN runsDone
    BY DEF RunsOf
  <2>4. PICK T : /\ Adds(T, Inserted(runsDone))
                 /\ T[RunsOf(runsDone, origin)] = Counted(store.versions, origin, "NEW")
    BY <2>1 DEF RunsOK, RunsTell, Tells, NewCounts
  <2>5. PICK U : /\ Adds(U, Revised(runsDone))
                 /\ U[RunsOf(runsDone, origin)] = Counted(store.versions, origin, "REVISED")
    BY <2>1 DEF RunsOK, RunsTell, Tells, RevisedCounts
  <2>6. ASSUME NEW type PROVE Counted(store.versions, origin, type) = Cardinality(VersionsBy(origin, type))
    <3> DEFINE S == {u \in store.versions : u.origin = origin /\ u.type = type}
               f == [v \in S |-> <<v.series, v.period, v.at>>]
    <3>1. IsFiniteSet(S)
      BY <2>1, FS_Subset DEF VersionsOK
    <3>2. \A x, y \in S : f[x] = f[y] => x = y
      BY <2>1 DEF VersionsOK, SameKey
    <3>3. DOMAIN f = S /\ f = [x \in S |-> f[x]] /\ {f[x] : x \in S} = Ids(store.versions, origin, type)
      BY DEF Ids
    <3>4. VersionsBy(origin, type) = S
      BY DEF VersionsBy
    <3> HIDE DEF f, S
    <3>5. Cardinality({f[x] : x \in S}) = Cardinality(S)
      BY <3>1, <3>2, <3>3, ImageSize
    <3> QED  BY <3>3, <3>4, <3>5 DEF Counted
  <2>7. MapThenSumSet(LAMBDA i : runsDone[i].inserted, RunsOf(runsDone, origin)) = T[RunsOf(runsDone, origin)]
    BY <2>2, <2>3, <2>4, InsertedSum
  <2>8. MapThenSumSet(LAMBDA i : runsDone[i].revised, RunsOf(runsDone, origin)) = U[RunsOf(runsDone, origin)]
    BY <2>2, <2>3, <2>5, RevisedSum
  <2> QED  BY <2>4, <2>5, <2>6, <2>7, <2>8
<1> QED  BY <1>1, IngestInvInductive, PTL

\* A provenance row counts the revisions since it was first seen, and dates the
\* last of them: app/repositories/first_party_repository.py:129.
THEOREM RevisionsAreCounted == Spec => []ProvenanceCountsRevisions
<1>1. IngestInv => ProvenanceCountsRevisions
  <2> SUFFICES ASSUME IngestInv, NEW key \in DOMAIN store.provenance
               PROVE  LET p == store.provenance[key]
                          revisions == {v \in store.versions : /\ v.series = key[1] /\ v.period = key[2]
                                                              /\ v.type = "REVISED" /\ v.at >= p.first_seen
                                                              /\ v.origin \in IngestionOrigins}
                      IN  \E counted \in {revisions, {v \in revisions : v.at > p.first_seen}} :
                            /\ p.revisions = Cardinality(counted)
                            /\ p.revised_at = IF counted = {} THEN Null ELSE Max({v.at : v \in counted})
    BY DEF ProvenanceCountsRevisions
  <2> DEFINE versions == store.versions
             p == store.provenance[key]
             first == p.first_seen
             revisions == {v \in versions : /\ v.series = key[1] /\ v.period = key[2]
                                            /\ v.type = "REVISED" /\ v.at >= first
                                            /\ v.origin \in IngestionOrigins}
  <2>1. /\ VersionsOK(versions, stamp) /\ IsProvenance(p, stamp)
        /\ \E same \in BOOLEAN : Counts(p, versions, key, same)
    BY DEF IngestInv, ProvenanceOK
  <2>2. PICK same \in BOOLEAN : Counts(p, versions, key, same)
    BY <2>1
  <2> DEFINE counted == {w \in versions : CountsFor(w, key, first, same)}
             f == [v \in counted |-> v.at]
             times == CountedAt(versions, key, first, same)
  <2>3. counted \in {revisions, {v \in revisions : v.at > first}}
    <3>1. first \in Nat /\ \A v \in versions : v.at \in Nat
      BY <2>1 DEF IsProvenance, VersionsOK, IsVersion
    <3>2. CASE same
      <4>1. counted = revisions
        BY <3>1, <3>2 DEF CountsFor
      <4> QED  BY <4>1
    <3>3. CASE ~same
      <4>1. counted = {v \in revisions : v.at > first}
        BY <3>1, <3>3 DEF CountsFor
      <4> QED  BY <4>1
    <3> QED  BY <3>2, <3>3
  <2>4. p.revisions = Cardinality(times) /\ IsLast(p.revised_at, times)
    BY <2>2 DEF Counts
  <2>5. IsFiniteSet(counted) /\ times \subseteq Int /\ times = {v.at : v \in counted}
    BY <2>1, FS_Subset DEF VersionsOK, IsVersion, CountedAt
  <2>6. \A x, y \in counted : f[x] = f[y] => x = y
    BY <2>1 DEF VersionsOK, SameKey, CountsFor
  <2>7. /\ DOMAIN f = counted /\ f = [x \in counted |-> f[x]] /\ {f[x] : x \in counted} = times
        /\ times = {} <=> counted = {}
    BY DEF CountedAt
  <2>8. IsFiniteSet(times)
    BY <2>1, CountedIsFinite DEF VersionsOK
  <2> HIDE DEF f, counted, times
  <2>9. p.revisions = Cardinality(counted)
    <3>1. Cardinality({f[x] : x \in counted}) = Cardinality(counted)
      BY <2>5, <2>6, <2>7, ImageSize
    <3> QED  BY <2>4, <2>7, <3>1
  <2>10. p.revised_at = IF counted = {} THEN Null ELSE Max(times)
    <3>1. CASE times = {}
      BY <2>4, <2>7, <3>1 DEF IsLast
    <3>2. CASE times # {}
      <4> DEFINE t == p.revised_at
      <4>1. t \in times /\ \A u \in times : u =< t
        BY <2>4, <3>2 DEF IsLast
      <4>2. Max(times) \in times /\ \A y \in times : y =< Max(times)
        BY <2>5, <2>8, <3>2, LastIsIn
      <4> HIDE DEF t
      <4>3. t \in Int /\ Max(times) \in Int /\ t =< Max(times) /\ Max(times) =< t
        BY <2>5, <4>1, <4>2
      <4>4. t = Max(times)
        BY <4>3
      <4> QED  BY <2>7, <3>2, <4>4 DEF t
    <3> QED  BY <3>1, <3>2
  <2> HIDE DEF revisions, p
  <2>11. \E c \in {revisions, {v \in revisions : v.at > first}} :
           /\ p.revisions = Cardinality(c)
           /\ p.revised_at = IF c = {} THEN Null ELSE Max({v.at : v \in c})
    BY <2>3, <2>5, <2>9, <2>10
  <2> QED  BY <2>11 DEF revisions, p, versions, first
<1> QED  BY <1>1, IngestInvInductive, PTL

\* The first of some times.
LEMMA FirstIsIn ==
    ASSUME NEW S, IsFiniteSet(S), S \subseteq Int, S # {}
    PROVE  \E x \in S : \A y \in S : x =< y
<1>1. /\ Cardinality(S) \in Nat
      /\ \A d \in S : RankIn(S, d) \in 1..Cardinality(S)
      /\ \A d, e \in S : d < e => RankIn(S, d) < RankIn(S, e)
      /\ \A i \in 1..Cardinality(S) : \E d \in S : RankIn(S, d) = i
  BY RankedDates
<1>2. Cardinality(S) # 0
  BY FS_EmptySet
<1>3. 1 \in 1..Cardinality(S)
  BY <1>1, <1>2
<1>4. PICK x \in S : RankIn(S, x) = 1
  BY <1>1, <1>3
<1>5. ASSUME NEW y \in S PROVE x =< y
  <2>1. x \in Int /\ y \in Int
    OBVIOUS
  <2>2. ~(y < x)
    <3>1. RankIn(S, y) \in Nat /\ 1 =< RankIn(S, y)
      BY <1>1
    <3> QED  BY <1>1, <1>4, <3>1
  <2> QED  BY <2>1, <2>2
<1> QED  BY <1>5

\* What a revision replaced is the version before it.
LEMMA RevisionReplaces ==
    ASSUME NEW versions, NEW now, VersionsOK(versions, now),
           NEW v \in versions, v.type = "REVISED"
    PROVE  LET timeline == ListVersions(versions, v.series, v.period)
           IN  {u.value : u \in {w \in timeline : w.to = v.at}} = {PreviousVersionValue(timeline, v)}
<1> DEFINE timeline == ListVersions(versions, v.series, v.period)
           earlier == {w \in timeline : w.at < v.at}
           latest == CHOOSE w \in earlier : \A x \in earlier : x.at =< w.at
<1>1. \A w \in timeline : w \in versions /\ SameKey(w, v)
  BY DEF ListVersions, SameKey
<1>2. PICK u \in versions : SameKey(u, v) /\ u.to = v.at
  BY DEF VersionsOK
<1>3. u \in timeline
  BY <1>2 DEF ListVersions, SameKey
<1>4. \A w \in versions : w.at \in Nat /\ (w.to # Null => w.at < w.to)
  BY DEF VersionsOK, IsVersion
<1>5. v.at # Null
  BY <1>4, NullIsNoNumber
<1>6. \A x \in timeline : x.to = v.at => x \in earlier
  BY <1>1, <1>4, <1>5
<1>7. \A x, y \in timeline : SameKey(x, y)
  BY <1>1 DEF SameKey
<1>8. \A x, y \in timeline : /\ x.at = y.at => x = y
                             /\ x.at < y.at => x.to # Null /\ x.to =< y.at
  BY <1>1, <1>7 DEF VersionsOK
<1>9. u \in earlier
  BY <1>2, <1>3, <1>6
<1>10. \A x \in earlier : x.at =< u.at
  <2> SUFFICES ASSUME NEW x \in earlier PROVE x.at =< u.at
    OBVIOUS
  <2>1. x \in timeline /\ x.at \in Nat /\ u.at \in Nat /\ v.at \in Nat /\ x.at < v.at
    BY <1>1, <1>4, <1>2
  <2>2. ~(u.at < x.at)
    BY <1>2, <1>3, <1>8, <2>1
  <2> QED  BY <2>1, <2>2
<1>11. latest = u
  <2>1. latest \in earlier /\ u.at =< latest.at
    BY <1>9, <1>10
  <2> HIDE DEF latest
  <2>2. latest \in timeline /\ latest.at \in Nat /\ u.at \in Nat /\ latest.at =< u.at
    BY <1>1, <1>4, <1>10, <2>1
  <2> QED  BY <1>3, <1>8, <2>1, <2>2
<1>12. \A x \in timeline : x.to = v.at => x = u
  <2> SUFFICES ASSUME NEW x \in timeline, x.to = v.at PROVE x = u
    OBVIOUS
  <2>1. x \in earlier /\ x.at =< u.at
    BY <1>6, <1>10
  <2>2. x.at \in Nat /\ u.at \in Nat /\ v.at \in Nat /\ u.at < v.at
    BY <1>1, <1>4, <1>9
  <2>3. ~(x.at < u.at)
    BY <1>3, <1>8, <2>2
  <2> QED  BY <1>3, <1>8, <2>1, <2>2, <2>3
<1>13. PreviousVersionValue(timeline, v) = u.value
  BY <1>9, <1>11 DEF PreviousVersionValue
<1>14. {w \in timeline : w.to = v.at} = {u}
  BY <1>2, <1>3, <1>12
<1> HIDE DEF timeline
<1>15. {w.value : w \in {x \in timeline : x.to = v.at}} = {PreviousVersionValue(timeline, v)}
  BY <1>13, <1>14
<1> QED  BY <1>15 DEF timeline

\* A revision that was watched has no imported version before it.
LEMMA WatchedFromTheFirst ==
    ASSUME NEW versions, NEW now, VersionsOK(versions, now), NEW v \in versions,
           RevisionKnowledge(v.type, ListVersions(versions, v.series, v.period)) = "PROSPECTIVE_REVISION"
    PROVE  \A u \in ListVersions(versions, v.series, v.period) : ~u.backfilled
<1> DEFINE timeline == ListVersions(versions, v.series, v.period)
           times == {w.at : w \in timeline}
           earliest == CHOOSE w \in timeline : \A x \in timeline : w.at =< x.at
<1>1. \A w \in timeline : w \in versions /\ SameKey(w, v)
  BY DEF ListVersions, SameKey
<1>2. \A w \in timeline : w.at \in Nat /\ w.type \in {"NEW", "REVISED"}
  BY <1>1 DEF VersionsOK, IsVersion
<1>3. v \in timeline
  BY DEF ListVersions
<1>4. IsFiniteSet(times)
  <2>1. IsFiniteSet(timeline)
    BY FS_Subset DEF VersionsOK, ListVersions
  <2> DEFINE f == [w \in timeline |-> w.at]
  <2>2. f \in Surjection(timeline, times)
    BY DEF Surjection
  <2> HIDE DEF f, timeline, times
  <2> QED  BY <2>1, <2>2, FS_Surjection
<1>5. PICK t \in times : \A y \in times : t =< y
  <2>1. times \subseteq Int /\ times # {}
    BY <1>2, <1>3
  <2> HIDE DEF times
  <2> QED  BY <1>4, <2>1, FirstIsIn
<1>6. earliest \in timeline /\ \A x \in timeline : earliest.at =< x.at
  BY <1>5
<1> HIDE DEF earliest
<1>7. ~earliest.backfilled
  BY <1>3 DEF RevisionKnowledge, earliest
<1>8. ASSUME NEW u \in timeline PROVE ~u.backfilled
  <2>1. CASE u.type = "REVISED"
    BY <1>1, <2>1 DEF VersionsOK
  <2>2. CASE u.type # "REVISED"
    <3>1. u \in versions /\ earliest \in versions /\ SameKey(earliest, u) /\ u.type = "NEW"
      BY <1>1, <1>2, <1>6, <2>2 DEF SameKey
    <3>2. u.at =< earliest.at /\ earliest.at =< u.at /\ u.at \in Nat /\ earliest.at \in Nat
      BY <1>2, <1>6, <3>1 DEF VersionsOK
    <3>3. u.at = earliest.at
      BY <3>2
    <3>4. u = earliest
      BY <3>1, <3>3 DEF VersionsOK
    <3> QED  BY <1>7, <3>4
  <2> QED  BY <2>1, <2>2
<1> QED  BY <1>8

\* Housing news is never an imported baseline, a revision in it names the value it
\* replaced, and an original value is called known only if every version held was
\* watched: app/services/intelligence/builder.py:563.
THEOREM NewsIsWatched == Spec => []HousingNewsIsWatched
<1>1. IngestInv => HousingNewsIsWatched
  <2> SUFFICES ASSUME IngestInv, NEW news \in HousingNews
               PROVE  \E v \in store.versions :
                        LET timeline == ListVersions(store.versions, v.series, v.period)
                            replaced == {u \in timeline : u.to = v.at}
                        IN  /\ news.id = ObservationChangeId(v.series, v.period, v.at)
                            /\ ~v.backfilled
                            /\ v.type = "REVISED" => {u.value : u \in replaced} = {news.previous_value}
                            /\ news.original_value_known => \A u \in timeline : ~u.backfilled
    BY DEF HousingNewsIsWatched
  <2>1. VersionsOK(store.versions, stamp)
    BY DEF IngestInv
  <2>2. PICK v \in ListObservedVersions(store.versions, HousingSeries, HousingLimit) :
          news = HousingObservationChange(store.versions, v)
    BY DEF HousingNews, HousingIntelligence
  <2>3. v \in store.versions /\ ~v.backfilled
    BY <2>2 DEF ListObservedVersions, ObservedVersions
  <2> DEFINE timeline == ListVersions(store.versions, v.series, v.period)
  <2>4. /\ news.id = ObservationChangeId(v.series, v.period, v.at)
        /\ v.type = "REVISED" => news.previous_value = PreviousVersionValue(timeline, v)
        /\ news.original_value_known => RevisionKnowledge(v.type, timeline) = "PROSPECTIVE_REVISION"
    BY <2>2 DEF HousingObservationChange, ObservationChange
  <2>5. v.type = "REVISED" =>
          {u.value : u \in {w \in timeline : w.to = v.at}} = {news.previous_value}
    BY <2>1, <2>3, <2>4, RevisionReplaces
  <2>6. news.original_value_known => \A u \in timeline : ~u.backfilled
    BY <2>1, <2>3, <2>4, WatchedFromTheFirst
  <2> QED  BY <2>3, <2>4, <2>5, <2>6
<1> QED  BY <1>1, IngestInvInductive, PTL

---------------------------------------------------------------------------
(* The pages of rates and of housing *)

\* The sessions of a series are numbered from its first to its latest.
LEMMA SessionsAreRanked ==
    ASSUME NEW obs, IsFiniteSet(Usable(obs)), Usable(obs) \subseteq Int
    PROVE  /\ Cardinality(Usable(obs)) \in Nat
           /\ \A i \in 1..Cardinality(Usable(obs)) :
                Session(obs, i) \in Usable(obs) /\ RankIn(Usable(obs), Session(obs, i)) = i
<1> DEFINE U == Usable(obs)
           n == Cardinality(U)
<1>1. n \in Nat /\ \A i \in 1..n : \E d \in U : RankIn(U, d) = i
  <2>1. IsFiniteSet(U) /\ U \subseteq Int
    OBVIOUS
  <2> HIDE DEF U
  <2> QED  BY <2>1, RankedDates
<1>2. ASSUME NEW i \in 1..n PROVE Session(obs, i) \in U /\ RankIn(U, Session(obs, i)) = i
  <2>1. \E d \in U : Cardinality({e \in U : e =< d}) = i
    BY <1>1 DEF RankIn
  <2>2. Session(obs, i) = CHOOSE d \in U : Cardinality({e \in U : e =< d}) = i
    BY DEF Session
  <2> QED  BY <2>1, <2>2 DEF RankIn
<1> QED  BY <1>1, <1>2

\* The latest session is the greatest.
LEMMA LatestSessionIs ==
    ASSUME NEW obs, IsFiniteSet(Usable(obs)), Usable(obs) \subseteq Int
    PROVE  /\ Usable(obs) = {} <=> LatestSession(obs) = Null
           /\ Usable(obs) = {} <=> Cardinality(Usable(obs)) = 0
           /\ Usable(obs) # {} => /\ LatestSession(obs) = Session(obs, Cardinality(Usable(obs)))
                                  /\ LatestSession(obs) \in Usable(obs)
                                  /\ \A d \in Usable(obs) : d =< LatestSession(obs)
<1> DEFINE U == Usable(obs)
           n == Cardinality(U)
<1>1. n \in Nat /\ (U = {} <=> n = 0)
  BY SessionsAreRanked, FS_EmptySet
<1>2. CASE U = {}
  BY <1>1, <1>2 DEF LatestSession
<1>3. CASE U # {}
  <2> DEFINE l == Session(obs, n)
  <2>1. LatestSession(obs) = l
    BY <1>3 DEF LatestSession
  <2>2. n \in 1..n
    BY <1>1, <1>3
  <2>3. l \in U /\ RankIn(U, l) = n
    BY <2>2, SessionsAreRanked
  <2>4. l # Null
    BY <2>3, NullIsNoNumber
  <2>5. /\ \A d, e \in U : d < e => RankIn(U, d) < RankIn(U, e)
        /\ \A d \in U : RankIn(U, d) \in 1..n
    <3>1. IsFiniteSet(U) /\ U \subseteq Int
      OBVIOUS
    <3> HIDE DEF U
    <3> QED  BY <3>1, RankedDates
  <2> HIDE DEF l, n, U
  <2>7. ASSUME NEW d \in U PROVE d =< l
    <3>1. d \in Int /\ l \in Int
      BY <2>3 DEF U
    <3>2. RankIn(U, d) \in Nat /\ RankIn(U, d) =< n
      BY <1>1, <2>5
    <3>3. ~(l < d)
      BY <1>1, <2>3, <2>5, <3>2
    <3> QED  BY <3>1, <3>3
  <2> QED  BY <1>1, <1>3, <2>1, <2>3, <2>4, <2>7 DEF U, n, l
<1> QED  BY <1>2, <1>3

\* The dates of stored rows.
LEMMA UsableDates ==
    ASSUME NEW obs, History(obs)
    PROVE  IsFiniteSet(Usable(obs)) /\ Usable(obs) \subseteq Int
<1>1. Usable(obs) \subseteq DOMAIN obs
  BY DEF Usable
<1> QED  BY <1>1, FS_Subset DEF History

\* The chart that ends at the latest session shows the last sessions.
LEMMA ChartIs ==
    ASSUME NEW obs, IsFiniteSet(Usable(obs)), Usable(obs) \subseteq Int, Usable(obs) # {},
           NEW shown \in Nat,
           shown = IF Cardinality(Usable(obs)) < ChartSessions
                   THEN Cardinality(Usable(obs)) ELSE ChartSessions
    PROVE  RecentSessionObservations(obs, ChartSessions, LatestSession(obs))
             = [i \in 1..shown |-> Session(obs, Cardinality(Usable(obs)) - shown + i)]
<1> DEFINE latest == LatestSession(obs)
           upTo == [d \in {e \in Usable(obs) : e =< latest} |-> obs[d]]
<1>1. {e \in Usable(obs) : e =< latest} = Usable(obs)
  BY LatestSessionIs
<1>2. Usable(upTo) = Usable(obs)
  BY <1>1 DEF Usable
<1>3. \A i : Session(upTo, i) = Session(obs, i)
  BY <1>2 DEF Session
<1> QED  BY <1>2, <1>3 DEF RecentSessionObservations

\* A level that speaks of one list of sessions: its numbers, its chart, its ranking.
LevelAgrees(l, obs) ==
    LET history == HistoricalSessionChanges(obs, ContextWindow)
    IN  /\ l.chart # <<>> /\ l.chart[Len(l.chart)] = l.latest_date
        /\ \A w \in Windows : l.changes[w].available =>
             /\ w < ChartSessions => l.chart[Len(l.chart) - w] = l.changes[w].from_date
             /\ l.changes[w].change = l.latest_value - obs[l.changes[w].from_date]
        /\ l.changes[ContextWindow].available <=> history # <<>>
        /\ history # <<>> =>
             /\ history[Len(history)].change = l.changes[ContextWindow].change
             /\ l.historical_context.observation_count + 1 = Len(history)
             /\ l.historical_context.below + 1 =< Len(history)

\* What is ranked: all changes but the latest.
LEMMA RankedChanges ==
    ASSUME NEW obs, NEW n \in Nat, n # 0,
           HistoricalSessionChanges(obs, ContextWindow) = [i \in 1..n |->
             [end_date |-> Session(obs, i + ContextWindow),
              change |-> obs[Session(obs, i + ContextWindow)] - obs[Session(obs, i)]]]
    PROVE  /\ HistoricalContext(obs).observation_count = n - 1
           /\ HistoricalContext(obs).below \in Nat /\ HistoricalContext(obs).below =< n - 1
<1> DEFINE history == HistoricalSessionChanges(obs, ContextWindow)
           population == [i \in 1..(Len(history) - 1) |-> history[i].change]
           value == history[Len(history)].change
           below == {i \in DOMAIN population : population[i] < value}
<1>1. Len(history) = n /\ history # <<>>
  OBVIOUS
<1>2. HistoricalContext(obs) = RankAgainst(population, value)
  BY <1>1 DEF HistoricalContext
<1>3. n - 1 \in Nat /\ DOMAIN population = 1..(n - 1) /\ Len(population) = n - 1
  <2>1. n - 1 \in Nat
    OBVIOUS
  <2>2. population = [i \in 1..(n - 1) |-> history[i].change]
    BY <1>1
  <2> HIDE DEF history, population
  <2> QED  BY <2>1, <2>2
<1>4. below \subseteq 1..(n - 1)
  BY <1>3
<1> HIDE DEF history, population, value
<1>5. Cardinality(below) \in Nat /\ Cardinality(below) =< n - 1
  <2> HIDE DEF below
  <2>1. IsFiniteSet(1..(n - 1)) /\ Cardinality(1..(n - 1)) = n - 1
    BY <1>3, FiniteInterval
  <2> QED  BY <1>4, <2>1, FS_Subset, FS_CardinalityType
<1> QED  BY <1>2, <1>3, <1>5 DEF RankAgainst

\* The level built from a series is one.
LEMMA LevelsAgree ==
    ASSUME NEW series, NEW obs, NEW provenance,
           IsFiniteSet(Usable(obs)), Usable(obs) \subseteq Int, Usable(obs) # {}
    PROVE  LevelAgrees(BuildLevel(series, obs, provenance), obs)
<1> DEFINE U == Usable(obs)
           n == Cardinality(U)
           l == BuildLevel(series, obs, provenance)
           latest == LatestSession(obs)
           shown == IF n < ChartSessions THEN n ELSE ChartSessions
           history == HistoricalSessionChanges(obs, ContextWindow)
           c == ContextWindow
<1>1. n \in Nat /\ n # 0 /\ latest = Session(obs, n) /\ latest # Null
  BY SessionsAreRanked, LatestSessionIs
<1>2. shown \in Nat /\ shown # 0 /\ shown =< n
  <2> HIDE DEF n
  <2> QED  BY <1>1, PagesAssumption
<1>3. /\ l.latest_date = latest /\ l.latest_value = obs[latest]
      /\ l.changes = Changes(obs) /\ l.historical_context = HistoricalContext(obs)
      /\ l.chart = RecentSessionObservations(obs, ChartSessions, latest)
  BY <1>1 DEF BuildLevel
<1>4. l.chart = [i \in 1..shown |-> Session(obs, n - shown + i)]
  BY <1>2, <1>3, ChartIs
<1>5. \A w \in Windows : /\ l.changes[w].available <=> n >= w + 1
                         /\ n >= w + 1 => /\ l.changes[w].from_date = Session(obs, n - w)
                                          /\ l.changes[w].change = obs[latest] - obs[Session(obs, n - w)]
  <2> SUFFICES ASSUME NEW w \in Windows
               PROVE  /\ l.changes[w].available <=> n >= w + 1
                      /\ n >= w + 1 => /\ l.changes[w].from_date = Session(obs, n - w)
                                       /\ l.changes[w].change = obs[latest] - obs[Session(obs, n - w)]
    OBVIOUS
  <2>1. l.changes[w] = ChangeOverSessions(obs, w)
    BY <1>3 DEF Changes
  <2>2. w \in Nat
    BY PagesAssumption
  <2>3. n < w + 1 <=> ~(n >= w + 1)
    BY <1>1, <2>2
  <2> HIDE DEF n
  <2> QED  BY <1>1, <2>1, <2>3 DEF ChangeOverSessions, NoChange, n, U
<1>6. history = [i \in 1..(IF n > c THEN n - c ELSE 0) |->
                   [end_date |-> Session(obs, i + c),
                    change |-> obs[Session(obs, i + c)] - obs[Session(obs, i)]]]
  BY DEF HistoricalSessionChanges
<1>7. c \in Nat /\ c \in Windows
  BY PagesAssumption
<1> HIDE DEF U, n, l, latest, shown, c
<1>8. l.chart # <<>> /\ Len(l.chart) = shown /\ l.chart[shown] = latest
  <2>1. l.chart \in Seq({Session(obs, n - shown + i) : i \in 1..shown}) /\ Len(l.chart) = shown
    BY <1>2, <1>4
  <2>2. n - shown + shown = n /\ shown \in 1..shown
    BY <1>1, <1>2
  <2> QED  BY <1>1, <1>2, <1>4, <2>1, <2>2
<1>9. ASSUME NEW w \in Windows, l.changes[w].available, w < ChartSessions
      PROVE  l.chart[shown - w] = l.changes[w].from_date
  <2>1. w \in Nat /\ ChartSessions \in Nat
    BY PagesAssumption
  <2>2. n >= w + 1 /\ l.changes[w].from_date = Session(obs, n - w)
    BY <1>5, <1>9
  <2>3. shown - w \in 1..shown /\ n - shown + (shown - w) = n - w
    BY <1>1, <1>2, <1>9, <2>1, <2>2 DEF shown
  <2> QED  BY <1>4, <2>2, <2>3
<1>10. l.changes[c].available <=> history # <<>>
  <2>1. CASE n > c
    <3>1. n - c \in Nat /\ 1 \in 1..(n - c) /\ n >= c + 1
      BY <1>1, <1>7, <2>1
    <3>2. DOMAIN history = 1..(n - c)
      BY <1>6, <2>1
    <3>3. DOMAIN history # {}
      BY <3>1, <3>2
    <3>4. history # <<>>
      BY <3>3
    <3> QED  BY <1>5, <1>7, <3>1, <3>4
  <2>2. CASE ~(n > c)
    <3>1. ~(n >= c + 1) /\ 1..0 = {}
      BY <1>1, <1>7, <2>2
    <3>2. history = <<>>
      BY <1>6, <2>2, <3>1
    <3> QED  BY <1>5, <1>7, <3>1, <3>2
  <2> QED  BY <2>1, <2>2
<1>11. ASSUME history # <<>>
       PROVE  /\ history[Len(history)].change = l.changes[c].change
              /\ l.historical_context.observation_count + 1 = Len(history)
              /\ l.historical_context.below + 1 =< Len(history)
  <2>1. n >= c + 1
    BY <1>5, <1>7, <1>10, <1>11
  <2> DEFINE h == n - c
  <2>2. h \in Nat /\ h # 0 /\ h \in 1..h /\ n > c /\ h + c = n /\ n - c = h
    BY <1>1, <1>7, <2>1
  <2> HIDE DEF h
  <2>3. history = [i \in 1..h |-> [end_date |-> Session(obs, i + c),
                                   change |-> obs[Session(obs, i + c)] - obs[Session(obs, i)]]]
    BY <1>6, <2>2
  <2>4. Len(history) = h
    <3> HIDE DEF history
    <3> QED  BY <2>2, <2>3
  <2>5. history[h].change = obs[Session(obs, n)] - obs[Session(obs, h)]
    BY <2>2, <2>3
  <2>6. l.changes[c].change = obs[latest] - obs[Session(obs, h)]
    BY <1>5, <1>7, <2>1, <2>2
  <2>7. /\ HistoricalContext(obs).observation_count = h - 1
        /\ HistoricalContext(obs).below \in Nat /\ HistoricalContext(obs).below =< h - 1
    BY <2>2, <2>3, RankedChanges DEF c
  <2> HIDE DEF history
  <2>8. /\ HistoricalContext(obs).observation_count + 1 = h
        /\ HistoricalContext(obs).below + 1 =< h
    BY <2>2, <2>7
  <2> QED  BY <1>1, <1>3, <2>4, <2>5, <2>6, <2>8
<1>12. \A w \in Windows : l.changes[w].available =>
         l.changes[w].change = l.latest_value - obs[l.changes[w].from_date]
  BY <1>3, <1>5
<1>13. l.chart[Len(l.chart)] = l.latest_date
  BY <1>3, <1>8
<1> HIDE DEF history
<1> QED
  BY <1>3, <1>8, <1>9, <1>10, <1>11, <1>12, <1>13 DEF LevelAgrees, history, c, l

\* The rates page, of any rows that some provenance covers.
LEMMA RatesPageIs ==
    ASSUME IngestInv
    PROVE  RatesPageAgrees(RatesPage)
<1> DEFINE observations == [s \in TreasurySeries |-> store.rows[s]]
           dates(s) == {k[2] : k \in {j \in DOMAIN store.provenance : j[1] = s}}
           provenance == [s \in TreasurySeries |->
                            [d \in dates(s) |-> store.provenance[<<s, d>>].retrieved]]
           page == RatesPage
           level(s) == BuildLevel(s, store.rows[s], provenance[s])
           latest(s) == LatestSession(store.rows[s])
<1>1. /\ page.as_of_date = RatesAsOf(observations)
      /\ page.levels = {level(s) : s \in TreasurySeries}
      /\ page.spreads = {BuildSpread(store.rows[p.long], store.rows[p.short]) : p \in Spreads}
  <2>1. page = RatesResult(observations, provenance)
    BY DEF RatesPage
  <2>2. \A p \in Spreads : p.long \in TreasurySeries /\ p.short \in TreasurySeries
    BY PagesAssumption
  <2> HIDE DEF page, provenance
  <2>3. page.spreads = {BuildSpread(observations[p.long], observations[p.short]) : p \in Spreads}
    BY <2>1 DEF RatesResult
  <2>4. page.levels = {BuildLevel(s, observations[s], provenance[s]) : s \in TreasurySeries}
    BY <2>1 DEF RatesResult
  <2>5. page.as_of_date = RatesAsOf(observations)
    BY <2>1 DEF RatesResult
  <2> QED  BY <2>2, <2>3, <2>4, <2>5
<1>2. TreasurySeries \subseteq StoredSeries /\ IsFiniteSet(TreasurySeries)
  <2>1. TreasurySeries \subseteq StoredSeries
    BY DEF StoredSeries
  <2> QED  BY <2>1, SeriesAssumption, FS_Subset
<1>3. \A s \in TreasurySeries : /\ History(store.rows[s])
                                /\ IsFiniteSet(Usable(store.rows[s])) /\ Usable(store.rows[s]) \subseteq Int
  <2>1. \A s \in TreasurySeries : History(store.rows[s])
    BY <1>2 DEF IngestInv, RowsOK
  <2> QED  BY <2>1, UsableDates
<1>4. \A s \in TreasurySeries : /\ Usable(store.rows[s]) = {} <=> latest(s) = Null
                                /\ latest(s) # Null => latest(s) \in Usable(store.rows[s])
  BY <1>3, LatestSessionIs
<1>5. ASSUME NEW s \in TreasurySeries, latest(s) # Null
      PROVE  level(s).provenance # Null
  <2> DEFINE d == latest(s)
  <2>1. d \in DOMAIN store.rows[s]
    BY <1>4, <1>5 DEF Usable
  <2>2. <<s, d>> \in DOMAIN store.provenance
    BY <2>1 DEF IngestInv, Sourced
  <2>3. d \in dates(s)
    BY <2>2
  <2>4. store.provenance[<<s, d>>].retrieved \in Nat
    BY <2>2 DEF IngestInv, ProvenanceOK, IsProvenance
  <2>5. provenance[s][d] # Null /\ d \in DOMAIN provenance[s]
    BY <2>3, <2>4, NullIsNoNumber
  <2> HIDE DEF provenance
  <2> QED  BY <1>5, <2>5 DEF BuildLevel
<1>6. \A s \in TreasurySeries : /\ level(s).available <=> latest(s) # Null
                                /\ level(s).series = s /\ level(s).latest_date = latest(s)
  BY DEF BuildLevel
<1>7. ASSUME NEW s \in TreasurySeries, latest(s) # Null
      PROVE  /\ page.as_of_date # Null
             /\ latest(s) =< page.as_of_date
  <2> DEFINE L == {latest(q) : q \in TreasurySeries} \ {Null}
  <2>1. L \subseteq Int /\ latest(s) \in L
    BY <1>3, <1>4, <1>7
  <2>2. IsFiniteSet(L)
    <3> DEFINE all == {latest(q) : q \in TreasurySeries}
               f == [q \in TreasurySeries |-> latest(q)]
    <3>1. f \in Surjection(TreasurySeries, all)
      BY DEF Surjection
    <3> HIDE DEF f, all
    <3>2. IsFiniteSet(all)
      BY <1>2, <3>1, FS_Surjection
    <3>3. all \ {Null} \subseteq all
      OBVIOUS
    <3>4. IsFiniteSet(all \ {Null})
      BY <3>2, <3>3, FS_Subset
    <3> QED  BY <3>4 DEF all
  <2>3. L = {LatestSession(observations[q]) : q \in DOMAIN observations} \ {Null}
    OBVIOUS
  <2>4. \E d \in L : \A e \in L : e =< d
    <3> HIDE DEF L
    <3> QED  BY <2>1, <2>2, LastIsIn
  <2>5. page.as_of_date = CHOOSE d \in L : \A e \in L : e =< d
    <3> HIDE DEF observations
    <3> QED  BY <1>1, <2>1, <2>3 DEF RatesAsOf
  <2>6. page.as_of_date \in L /\ \A e \in L : e =< page.as_of_date
    <3> HIDE DEF L, page
    <3> QED  BY <2>4, <2>5
  <2> HIDE DEF page, latest
  <2> QED  BY <2>1, <2>6, NullIsNoNumber
<1>8. \A s \in TreasurySeries : latest(s) # Null => LevelAgrees(level(s), store.rows[s])
  BY <1>3, <1>4, LevelsAgree
<1> HIDE DEF page, level, latest, observations, provenance
<1>9. ASSUME NEW l \in {x \in page.levels : x.available}
      PROVE  /\ l.provenance # Null /\ l.latest_date =< page.as_of_date
             /\ LevelAgrees(l, store.rows[l.series])
             /\ l.chart # <<>> /\ l.chart[Len(l.chart)] = l.latest_date
  <2>1. PICK s \in TreasurySeries : l = level(s)
    BY <1>1
  <2>2. latest(s) # Null /\ l.series = s /\ l.latest_date = latest(s)
    BY <1>6, <2>1
  <2>3. LevelAgrees(l, store.rows[s])
    BY <1>8, <2>1, <2>2
  <2> QED  BY <1>5, <1>7, <2>1, <2>2, <2>3 DEF LevelAgrees
<1>10. ASSUME NEW x \in page.spreads, x.available
       PROVE  x.spread = x.long_value - x.short_value
  <2>1. PICK p \in Spreads : x = BuildSpread(store.rows[p.long], store.rows[p.short])
    BY <1>1
  <2> DEFINE a == store.rows[p.long]
             b == store.rows[p.short]
             difference == AlignedDifference(a, b)
             d == LatestSession(difference)
  <2>2. p.long \in TreasurySeries /\ p.short \in TreasurySeries
    BY PagesAssumption
  <2>3. IsFiniteSet(Usable(a)) /\ Usable(a) \subseteq Int
    BY <1>3, <2>2
  <2>4. DOMAIN difference = Usable(a) \cap Usable(b)
    BY DEF AlignedDifference
  <2>5. Usable(difference) \subseteq Usable(a)
    BY <2>4 DEF Usable
  <2>6. IsFiniteSet(Usable(difference)) /\ Usable(difference) \subseteq Int
    <3> HIDE DEF difference, a
    <3> QED  BY <2>3, <2>5, FS_Subset
  <2>7. d # Null
    BY <1>10, <2>1 DEF BuildSpread
  <2>8. d \in Usable(difference)
    <3> HIDE DEF difference
    <3> QED  BY <2>6, <2>7, LatestSessionIs
  <2>9. d \in DOMAIN difference
    BY <2>8 DEF Usable
  <2>10. difference[d] = a[d] - b[d]
    <3> HIDE DEF d
    <3> QED  BY <2>4, <2>9 DEF AlignedDifference
  <2>11. x.spread = difference[d] /\ x.long_value = a[d] /\ x.short_value = b[d]
    BY <2>1, <2>7 DEF BuildSpread
  <2> QED  BY <2>10, <2>11
<1>11. ASSUME NEW x \in RatesIntelligence(page)
       PROVE  x.visual_evidence[Len(x.visual_evidence)] = x.effective_period
  <2>1. PICK l \in {y \in page.levels : y.available} : x = RatesMovement(l, page.as_of_date)
    BY DEF RatesIntelligence
  <2>2. l.chart # <<>> /\ l.chart[Len(l.chart)] = l.latest_date
    BY <1>9
  <2>3. x.visual_evidence = l.chart /\ x.effective_period = l.latest_date
    BY <2>1, <2>2 DEF RatesMovement
  <2> QED  BY <2>2, <2>3
<1>12. \A l \in {x \in page.levels : x.available} :
         LET obs == store.rows[l.series]
             history == HistoricalSessionChanges(obs, ContextWindow)
         IN  /\ l.provenance # Null /\ l.chart[Len(l.chart)] = l.latest_date
             /\ l.latest_date =< page.as_of_date
             /\ \A w \in Windows : l.changes[w].available =>
                  /\ w < ChartSessions => l.chart[Len(l.chart) - w] = l.changes[w].from_date
                  /\ l.changes[w].change = l.latest_value - obs[l.changes[w].from_date]
             /\ l.changes[ContextWindow].available <=> history # <<>>
             /\ history # <<>> =>
                  /\ history[Len(history)].change = l.changes[ContextWindow].change
                  /\ l.historical_context.observation_count + 1 = Len(history)
                  /\ l.historical_context.below + 1 =< Len(history)
  BY <1>9 DEF LevelAgrees
<1> QED  BY <1>10, <1>11, <1>12 DEF RatesPageAgrees, page

\* The figures of a housing measure, of any rows.
LEMMA MeasuresAreNeighbours ==
    ASSUME NEW obs, History(obs)
    PROVE  HousingFiguresAreNeighbours(obs, HousingMeasure(obs))
<1> DEFINE P == Published(obs)
           measure == HousingMeasure(obs)
           newest == LatestOf(P)
           rest == P \ {newest}
<1> SUFFICES ASSUME measure.available PROVE HousingFiguresAreNeighbours(obs, measure)
  BY DEF HousingFiguresAreNeighbours
<1>1. IsFiniteSet(P) /\ P \subseteq Int
  <2>1. P \subseteq DOMAIN obs
    BY DEF Published
  <2> HIDE DEF P
  <2> QED  BY <2>1, FS_Subset DEF History
<1>2. P # {}
  BY DEF HousingMeasure
<1>3. /\ measure.period = newest
      /\ measure.previous = PrecedingComparison(obs) /\ measure.year_ago = YearAgoComparison(obs)
      /\ measure.trend = RecentWindow(obs, TrendMonths)
  <2>1. DOMAIN obs # {}
    BY <1>2 DEF Published
  <2> QED  BY <1>2, <2>1 DEF HousingMeasure
<1>4. newest \in P /\ \A m \in P : m =< newest
  <2> HIDE DEF P
  <2> QED  BY <1>1, <1>2, LastIsIn
<1>5. /\ IsFiniteSet(rest) /\ rest \subseteq Int /\ Cardinality(rest) = Cardinality(P) - 1
      /\ Cardinality(P) \in Nat /\ Cardinality(P) # 0
      /\ rest = {} <=> Cardinality(P) = 1
  <2> HIDE DEF P, newest
  <2>1. IsFiniteSet(rest) /\ Cardinality(rest) = Cardinality(P) - 1 /\ Cardinality(P) \in Nat
    BY <1>1, <1>4, FS_RemoveElement, FS_CardinalityType
  <2>2. Cardinality(P) # 0 /\ (Cardinality(rest) = 0 <=> rest = {})
    BY <1>1, <1>2, <2>1, FS_EmptySet
  <2>3. rest \subseteq Int
    BY <1>1
  <2> HIDE DEF rest
  <2> QED  BY <2>1, <2>2, <2>3
<1>6. measure.previous.period = IF rest = {} THEN Null ELSE LatestOf(rest)
  <2>1. Cardinality(P) < 2 <=> rest = {}
    <3> HIDE DEF P, rest
    <3> QED  BY <1>5
  <2> QED  BY <1>3, <2>1 DEF PrecedingComparison, NoComparison, Compare
<1>7. rest # {} => LatestOf(rest) \in rest /\ \A m \in rest : m =< LatestOf(rest)
  <2> HIDE DEF rest
  <2> QED  BY <1>5, LastIsIn
<1>8. measure.year_ago.period \in {Null, newest - YearMonths}
  BY <1>3 DEF YearAgoComparison, NoComparison, Compare
<1> DEFINE previous == measure.previous.period
<1>9. previous = Null <=> Cardinality(P) = 1
  <2>1. rest # {} => LatestOf(rest) # Null
    BY <1>5, <1>7, NullIsNoNumber
  <2> HIDE DEF measure, rest, P
  <2> QED  BY <1>5, <1>6, <2>1
<1>10. ASSUME previous # Null
       PROVE  /\ previous \in P /\ previous # newest
              /\ \A m \in P : m > previous <=> m = newest
  <2>1. previous \in rest /\ \A m \in rest : m =< previous
    <3> HIDE DEF measure, rest
    <3> QED  BY <1>6, <1>7, <1>10
  <2> HIDE DEF measure, newest, previous
  <2>2. previous \in P /\ previous # newest
    BY <2>1
  <2> HIDE DEF P
  <2>3. previous \in Int /\ newest \in Int /\ previous =< newest
    BY <1>1, <1>4, <2>2
  <2>4. ASSUME NEW m \in P PROVE m > previous <=> m = newest
    <3>1. m # newest => m =< previous
      BY <2>1
    <3>2. m \in Int
      BY <1>1
    <3> QED  BY <2>2, <2>3, <3>1, <3>2
  <2> QED  BY <2>2, <2>4
<1>11. ASSUME TrendMonths > 1 PROVE {previous} \ {Null} \subseteq measure.trend
  <2> SUFFICES ASSUME previous # Null PROVE previous \in measure.trend
    OBVIOUS
  <2>1. {n \in P : n > previous} = {newest}
    <3> HIDE DEF P, newest, previous
    <3> QED  BY <1>4, <1>10
  <2>2. Cardinality({newest}) = 1
    BY FS_Singleton
  <2> HIDE DEF newest, previous
  <2>3. previous \in P /\ Cardinality({n \in P : n > previous}) < TrendMonths
    BY <1>10, <1>11, <2>1, <2>2, PagesAssumption
  <2> HIDE DEF measure
  <2> QED  BY <1>3, <2>3 DEF RecentWindow
<1> HIDE DEF measure, newest, rest
<1> QED
  BY <1>3, <1>4, <1>8, <1>9, <1>10, <1>11 DEF HousingFiguresAreNeighbours

\* The figures of the rates page and of the housing page are each drawn from one
\* set of stored observations, and their parts cannot contradict each other:
\* app/services/rates.py:74, app/domain/housing.py:94.
THEOREM FiguresAgree == Spec => []PagesAgree
<1>1. IngestInv => PagesAgree
  <2> SUFFICES ASSUME IngestInv PROVE PagesAgree
    OBVIOUS
  <2>1. RatesPageAgrees(RatesPage)
    BY RatesPageIs
  <2>2. \A s \in HousingSeries : History(store.rows[s])
    BY DEF IngestInv, RowsOK, StoredSeries
  <2>3. \A s \in HousingSeries : HousingFiguresAreNeighbours(store.rows[s], HousingMeasure(store.rows[s]))
    BY <2>2, MeasuresAreNeighbours
  <2> QED  BY <2>1, <2>3 DEF PagesAgree
<1> QED  BY <1>1, IngestInvInductive, PTL
=============================================================================
