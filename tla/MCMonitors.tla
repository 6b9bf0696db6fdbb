----------------------------- MODULE MCMonitors -----------------------------
(***************************************************************************)
(* Fifteen months of data at small levels.  PIO brings a revision and the    *)
(* first value of a month, or fails as a whole; ES brings both its series, or *)
(* one of them; CPI brings a revision and a month no other series has.       *)
(***************************************************************************)
EXTENDS ReleaseIntelligence, TLC

Flat(months, level) == [m \in months |-> level]

AllFlat == [s \in Series |-> IF s \in LaborSeries THEN Flat(-1..14, 4) ELSE Flat(0..13, 4)]

\* Complete data, and data with a gap, a missing level and an empty series,
\* which already holds what the importer would write.
MCBaseRows ==
    {[AllFlat EXCEPT !["PAYEMS"] = Overlay(Flat(-1..14, 4), Flat({13}, 6))],
     [AllFlat EXCEPT !["PCEPI"] = Flat((0..13) \ {9}, 4),
                     !["UNRATE"] = Flat({}, 4),
                     !["PAYEMS"] = Flat(-1..13, 4),
                     !["PCEPILFE"] = Overlay(Flat(1..13, 4), Flat({2}, 1)),
                     !["CPILFESL"] = Overlay(Flat(0..14, 4), Flat({6}, Null))]}

MCAnswers(release) ==
    CASE release = "CPI" -> {[CPILFESL |-> Flat({6}, 5), CPIAUCSL |-> Flat({14}, 5)]}
      [] release = "PIO" -> {[PCEPI |-> Flat({9}, 5), PCEPILFE |-> Flat({14}, 6)],
                             [PCEPI |-> Failed, PCEPILFE |-> Failed]}
      [] release = "ES"  -> {[PAYEMS |-> Flat({14}, 6), UNRATE |-> Flat({2}, 6)],
                             [PAYEMS |-> Flat({14}, 6), UNRATE |-> Failed]}

MCImportRow == [series |-> "PCEPILFE", month |-> 2, value |-> 1]

Symmetry == Permutations(Workers)

---------------------------------------------------------------------------
(* A missing month of payrolls arrives after six later ones.               *)

GapRows == {[AllFlat EXCEPT !["PAYEMS"] = Flat((-1..14) \ {7}, 4)]}
GapAnswers(release) == {[PAYEMS |-> Flat({7}, 4), UNRATE |-> Flat({}, 4)]}

\* One revision of payrolls, within the deadbands, is the first thing recorded.
FirstRows == {AllFlat}
FirstAnswers(release) == {[PAYEMS |-> Flat({14}, 5), UNRATE |-> Flat({}, 4)]}

\* A checked release brings nothing the second time.
SilentAnswers(release) == {[CPILFESL |-> Flat({13}, 4), CPIAUCSL |-> Flat({13}, 6)]}
=============================================================================
