------------------------- MODULE MCInvoiceNumbering -------------------------
(* Small instances of InvoiceNumbering.  One run takes two of them in turn: two
   series that share a prefix within one year, and one series over two years. *)
EXTENDS InvoiceNumbering, TLC

\* Every series has the same normalised prefix.
SharedPrefix == [s \in Series |-> "none"]

\* One series has a year in its stored prefix, as an import leaves it.
OneSpelled ==
  LET one == CHOOSE s \in Series : TRUE
  IN  [s \in Series |-> IF s = one THEN 2026 ELSE Absent]

Symmetry == Permutations(Invoice) \cup Permutations(Request)

VARIABLE instance     \* which of the two

MainYear == CHOOSE y \in Year : \A z \in Year : z <= y
MainSeries == CHOOSE s \in Series : Spelled[s] # Absent

\* The two sizes: the years, series and counters a state may speak of.
OneYear ==
  /\ \A i \in Invoice : number[i] \in Drafts => number[i] = Draft(MainYear)
  /\ \A i \in Invoice : number[i] \in Number => number[i].year = MainYear
  /\ \A s \in Series : series[s].year = MainYear
  /\ \A r \in Request : req[r] # Idle => req[r].year = MainYear

OneSeries ==
  /\ \A s \in Series \ {MainSeries} :
       lock[s] = Nobody /\ series[s] = [counter |-> 0, year |-> MainYear]
  /\ \A i \in Invoice : number[i] \in Number => number[i].counter <= 1
  /\ \A r \in Request : req[r] # Idle /\ req[r].number \in Number => req[r].number.counter <= 1

InInstance == CASE instance = "series" -> OneYear
                [] instance = "years"  -> OneSeries

MCInit == instance \in {"series", "years"} /\ Init /\ InInstance

MCNext == Next /\ UNCHANGED instance /\ InInstance'

MCSpec == MCInit /\ [][MCNext]_<<vars, instance>>

=============================================================================
