---------------------------- MODULE PortfolioReco ----------------------------
(***************************************************************************)
(* The portfolio-recommendation workflow: an agent names the sectors that  *)
(* a market event affects, portfolio_impact_analyzer drafts alternatives   *)
(* for the investors exposed to them, product_universe_filter checks the   *)
(* drafts, and an agent writes and publishes the notes.  The analyzer and  *)
(* the filter read the catalogue each for itself: it may change between.   *)
(***************************************************************************)
EXTENDS AlertPublisher, Integers, FiniteSets, FiniteSetsExt

CONSTANTS
    Fund,        \* fund_id -> its category and primary_sectors, a sequence
    Investor,    \* investor_id -> risk profile and weight of each fund held, in 1/100 %
    Sectors,     \* sector names
    PartOf,      \* the pairs of sectors whose first name occurs in the second
    Targets,     \* _RECO_TARGETS: <<risk, sentiment>> -> categories
    Threshold,   \* _MATERIAL_THRESHOLD_PCT, in 1/100 %
    TopN,        \* the number of alternatives drafted
    Catalogues,  \* what product_catalogue.csv may hold: sequences of fund_ids
    Notes        \* the texts the agent may write: where each note ends

ASSUME TopNAssumption == TopN \in Nat \ {0}
ASSUME NotesAssumption == \A notes \in Notes : notes \in Seq(Nat)
ASSUME CataloguesAssumption == \A c \in Catalogues : c \in Seq(DOMAIN Fund)

VARIABLES
    stage,      \* the node that comes next
    affected,   \* ALL_AFFECTED_SECTORS, and
    sentiment,  \* SENTIMENT of the agent's output
    catalogue,  \* product_catalogue.csv
    impact,     \* portfolio_impact: exposed investors -> alternatives
    validated,  \* validated_impact
    edits       \* history: the stages at which the catalogue changed, once each

recoVars == <<stage, affected, sentiment, catalogue, impact, validated, edits>>

RecoInit ==
    /\ AlertInit
    /\ stage = "signal"
    /\ affected = {} /\ sentiment = "none"
    /\ catalogue \in Catalogues
    /\ impact = <<>> /\ validated = <<>>
    /\ edits = {}

Universe == Range(catalogue)

-----------------------------------------------------------------------------
(* A mistake, see the definition it is named after.                        *)

\* An investor without an alternative is left out of the report.
FilterSkipsEmpty ==
    /\ stage = "filter" /\ stage' = "write"
    /\ validated' = [i \in {j \in DOMAIN impact : impact[j] \cap Universe # {}}
                        |-> impact[i] \cap Universe]
    /\ UNCHANGED <<affected, sentiment, catalogue, impact, edits, alertVars>>

-----------------------------------------------------------------------------

\* fetch_rss_signal and the agent: the sectors it names, none if its output cannot
\* be parsed; a sentiment that is not negative counts as positive.
Signal ==
    /\ stage = "signal" /\ stage' = "impact"
    /\ affected' \in SUBSET Sectors
    /\ sentiment' \in {"negative", "positive"}
    /\ UNCHANGED <<catalogue, impact, validated, edits, alertVars>>

\* _sector_overlap: primary sectors of a fund that an affected one's name is a
\* part of, or the other way round.
Hits(f, sectors) ==
    {k \in 1..Len(Fund[f].sectors) :
        \E a \in sectors : LET s == Fund[f].sectors[k]
                           IN  a = s \/ {<<a, s>>, <<s, a>>} \cap PartOf # {}}

\* The fund's weight by that fraction of its sectors, rounded.
NetExposure(i, f, sectors) ==
    LET n == Len(Fund[f].sectors)
    IN  (2 * Investor[i].holdings[f] * Cardinality(Hits(f, sectors)) + n) \div (2 * n)

Held(i) == DOMAIN Investor[i].holdings

\* The investors with a material exposure to the sectors, by funds of a universe.
Exposed(sectors, funds) ==
    LET Exposure(i) == MapThenSumSet(LAMBDA f : NetExposure(i, f, sectors), Held(i) \cap funds)
    IN  {i \in DOMAIN Investor : sectors # {} /\ Exposure(i) >= Threshold}

Suits(i, f) ==
    /\ f \notin Held(i)
    /\ Fund[f].category \in Targets[<<Investor[i].risk, sentiment>>]

\* The first in the order of the catalogue.
Drafts(i) ==
    LET Fits(k) == Suits(i, catalogue[k])
        First   == {k \in DOMAIN catalogue : /\ Fits(k)
                                             /\ Cardinality({j \in 1..k-1 : Fits(j)}) < TopN}
    IN  {catalogue[k] : k \in First}

\* portfolio_impact_analyzer: a block for every investor exposed enough.
Analyze ==
    /\ stage = "impact" /\ stage' = "filter"
    /\ impact' = [i \in Exposed(affected, Universe) |-> Drafts(i)]
    /\ UNCHANGED <<affected, sentiment, catalogue, validated, edits, alertVars>>

\* product_universe_filter: alternatives that are not in the catalogue are cut out.
\* A block without any gets a flag.
Filter ==
    /\ stage = "filter" /\ stage' = "write"
    /\ validated' = [i \in DOMAIN impact |-> impact[i] \cap Universe]
    /\ UNCHANGED <<affected, sentiment, catalogue, impact, edits, alertVars>>

\* The agent writes a note for each block, or that there is none, for the tool.
Write ==
    /\ stage = "write" /\ stage' = "publish"
    /\ LET n == IF DOMAIN validated = {} THEN 1 ELSE Cardinality(DOMAIN validated)
       IN  blocks' \in {notes \in Notes : Len(notes) = n}
    /\ UNCHANGED <<affected, sentiment, catalogue, impact, validated, edits,
                   messages, posted, result>>

\* The files are maintained by others.
EditCatalogue ==
    /\ stage \in {"impact", "filter"} \ edits /\ edits' = edits \cup {stage}
    /\ catalogue' \in Catalogues
    /\ UNCHANGED <<stage, affected, sentiment, impact, validated, alertVars>>

RecoNext ==
    \/ Signal \/ Analyze \/ Filter \/ Write \/ EditCatalogue
    \/ stage = "publish" /\ AlertNext /\ UNCHANGED recoVars

RecoSpec == RecoInit /\ [][RecoNext]_<<recoVars, alertVars>>

-----------------------------------------------------------------------------
(* Properties                                                              *)

\* The filter's report names every exposed investor, only funds of the universe
\* that the investor does not hold, and says that there is none only if so: with a
\* catalogue that changed after the drafts, a suitable fund may not be among them.
ValidatedIsSafe ==
    stage \in {"write", "publish"} =>
        /\ "filter" \notin edits => DOMAIN validated = Exposed(affected, Universe)
        /\ \A i \in DOMAIN validated :
              /\ \A f \in validated[i] : f \in Universe /\ Suits(i, f)
              /\ validated[i] = {} /\ (\E f \in Universe : Suits(i, f)) => "filter" \in edits
=============================================================================
