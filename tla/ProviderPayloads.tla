-------------------------- MODULE ProviderPayloads --------------------------
(***************************************************************************)
(* What each client makes of a response body: observations, or the class of  *)
(* the error it raises.  A body is a record of the parts the parsers look    *)
(* at; a raw value is a number, or one of the model values below.            *)
(***************************************************************************)
EXTENDS Values, Sequences, SequencesExt

CONSTANTS
    Blank,      \* no value, the provider's own sign for it
    NotNumeric, \* text that is not a number
    NaN,        \* text that reads as not-a-number
    Malformed   \* an item, a period or a body of the wrong shape

Good(data) == [error |-> Null, data |-> data]
Bad(error) == [error |-> error, data |-> Null]

---------------------------------------------------------------------------
(* BLS: a JSON object that must name every requested series; the last entry  *)
(* of a series stands, an item that is not monthly is left out, and one bad   *)
(* item refuses the whole body.                                               *)

BlsMonthly(item) == item # Malformed /\ item.period # Malformed

BlsMalformed(item) ==
    \/ item = Malformed
    \/ item.period # Malformed /\ item.value \in {NotNumeric, NaN}

BlsObservations(items) ==
    LET monthly == Selected(items, {i \in DOMAIN items : BlsMonthly(items[i])})
    IN  SortedByPeriod([i \in DOMAIN monthly |->
                          [period |-> monthly[i].period,
                           value |-> IF monthly[i].value = Blank THEN Null ELSE monthly[i].value]])

ParseBls(body, ids) ==
    LET entries(id) == {i \in DOMAIN body.series : body.series[i].id = id}
        last(id) == CHOOSE i \in entries(id) : \A j \in entries(id) : j =< i
    IN  CASE body = Malformed -> Bad("ProviderResponseError")
          [] body # Malformed /\ body.status = "REQUEST_NOT_PROCESSED" ->
               Bad("ProviderRateLimitedError")
          [] body # Malformed /\ body.status \notin {"REQUEST_NOT_PROCESSED", "REQUEST_SUCCEEDED"} ->
               Bad("ProviderResponseError")
          [] OTHER ->
               IF \/ \E id \in ids : entries(id) = {}
                  \/ \E id \in ids : \E i \in entries(id) :
                       \E k \in DOMAIN body.series[i].items : BlsMalformed(body.series[i].items[k])
               THEN Bad("ProviderResponseError")
               ELSE Good([id \in ids |-> BlsObservations(body.series[last(id)].items)])

---------------------------------------------------------------------------
(* BEA: one flat file of rows.  Rows of other series are not looked at, and   *)
(* rows before the start are read no further than their period.               *)

BeaMalformed(row, start) ==
    \/ row.period = Malformed
    \/ row.period >= start /\ row.value \in {NotNumeric, NaN, Blank}

ParseBea(body, ids, start) ==
    LET rowsOf(id) == {i \in DOMAIN body.rows : body.rows[i].id = id}
        kept(id) == Selected(body.rows, {i \in rowsOf(id) : body.rows[i].period >= start})
    IN  IF \/ body = Malformed
           \/ \E i \in DOMAIN body.rows : body.rows[i].id \in ids /\ BeaMalformed(body.rows[i], start)
           \/ \E id \in ids : rowsOf(id) = {}
        THEN Bad("ProviderResponseError")
        ELSE Good([id \in ids |->
               SortedByPeriod([i \in DOMAIN kept(id) |->
                                 [period |-> kept(id)[i].period, value |-> kept(id)[i].value]])])

---------------------------------------------------------------------------
(* Treasury: one entry for each session, with the fields it published.  An    *)
(* unreadable value leaves its field out; what reads as not-a-number stays.   *)

ParseTreasury(body) ==
    LET dated == Selected(body.entries, {i \in DOMAIN body.entries : body.entries[i].period # Blank})
        present(e) == {f \in DOMAIN e.values : e.values[f] \notin {Blank, NotNumeric}}
    IN  IF \/ body = Malformed
           \/ \E i \in DOMAIN body.entries : body.entries[i].period = Malformed
           \/ body.entries # <<>> /\ dated = <<>>
        THEN Bad("TreasuryUpstreamError")
        ELSE Good(SortedByPeriod([i \in DOMAIN dated |->
                     [period |-> dated[i].period,
                      values |-> [f \in present(dated[i]) |-> dated[i].values[f]]]]))

---------------------------------------------------------------------------
(* Census: a row is accepted or rejected with a reason; one bad row refuses   *)
(* nothing else (another program, geography or time slot is one more reason). *)
(* A value that is no number is accepted as none.                             *)

RejectionReason(row) ==
    CASE row = Malformed -> "MALFORMED_ROW"
      [] row # Malformed /\ row.series = Blank -> "MISSING_IDENTITY"
      [] row # Malformed /\ row.series # Blank /\ row.flag = Blank -> "UNRECOGNISED_FLAG"
      [] OTHER -> IF row.period = Malformed THEN "UNPARSEABLE_PERIOD" ELSE Null

ParseCensus(body) ==
    LET accepted == Selected(body.rows, {i \in DOMAIN body.rows : RejectionReason(body.rows[i]) = Null})
    IN  IF body = Malformed THEN Bad("CensusUpstreamError")
        ELSE Good([accepted |-> SortedByPeriod([i \in DOMAIN accepted |->
                     [series |-> accepted[i].series, period |-> accepted[i].period,
                      is_error_measure |-> accepted[i].flag = "yes",
                      value |-> IF accepted[i].value \in {Blank, NotNumeric} THEN Null
                                ELSE accepted[i].value]]),
                   rejected |-> Len(body.rows) - Len(accepted)])

---------------------------------------------------------------------------
(* FRED: the metadata, then the latest observations newest first; a period    *)
(* is always a date, "." is the sign for no value.                            *)

ParseFred(body) ==
    IF \/ body = Malformed
       \/ \E i \in DOMAIN body.observations : body.observations[i].value = NotNumeric
    THEN Bad("FREDUpstreamError")
    ELSE Good([i \in DOMAIN body.observations |->
                 [period |-> Reverse(body.observations)[i].period,
                  value |-> IF Reverse(body.observations)[i].value = Blank THEN Null
                            ELSE Reverse(body.observations)[i].value]])
=============================================================================
