------------------------------- MODULE Verdict -------------------------------
(***************************************************************************)
(* evaluate_verdict (runtime/verdict.py) as operators.  A run was to have  *)
(* the ticks 1 .. last; rows is the set of tick indices that were          *)
(* retained, dropped the count the sink reports, and marked the ticks at   *)
(* which the condition an assertion looks at holds: the reserve alert      *)
(* fires, the demand exceeds its threshold, the SoC is below its own, the  *)
(* fuel-cell deficit matches, the array delivers the expected peak.        *)
(***************************************************************************)
EXTENDS Integers, FiniteSets, FiniteSetsExt

Status == {"PASS", "FAIL", "INCONCLUSIVE"}

\* The assertions of _eval_one that read the rows, by the rule they follow.
Checks == {"universal", "existential", "final", "persistent", "peak"}

\* _count_gaps: the positions where the index jumps by more than one.
CountGaps(rows) ==
    Cardinality({i \in rows : i - 1 \notin rows /\ \E j \in rows : j < i})

\* (mutant: the drops the sink reports are ignored)
BugHasGaps(rows, dropped) == CountGaps(rows) > 0
HasGaps(rows, dropped) == CountGaps(rows) > 0 \/ dropped > 0

\* no_insufficient_reserve_alert, max_p_total_mw, no_cold_warming_..., and
\* fuel_cell_commanded_and_achieved_reported.
Universal(rows, dropped, marked) ==
    CASE rows \cap marked # {} -> "FAIL"
      [] rows \cap marked = {} /\ HasGaps(rows, dropped) -> "INCONCLUSIVE"
      [] OTHER -> "PASS"

\* alert_fires, declining_fuel_cell_reserve_alert_fires, fuel_cell_output_nonzero.
Existential(rows, dropped, marked) ==
    CASE rows \cap marked # {} -> "PASS"
      [] rows \cap marked = {} /\ HasGaps(rows, dropped) -> "INCONCLUSIVE"
      [] OTHER -> "FAIL"

\* min_final_bess_soc.
Final(rows, last, marked) ==
    CASE rows = {} -> "INCONCLUSIVE"
      [] rows # {} /\ Max(rows) < last -> "INCONCLUSIVE"
      [] rows # {} /\ Max(rows) >= last /\ Max(rows) \in marked -> "FAIL"
      [] OTHER -> "PASS"

\* k tick intervals in a row, from adjacent retained ticks only.
Stretch(ticks, k) == \E i \in ticks : i .. (i + k) \subseteq ticks

\* persistent_fuel_cell_deficit.
Persistent(rows, dropped, marked, k) ==
    CASE Stretch(rows \cap marked, k) -> "PASS"
      [] ~Stretch(rows \cap marked, k) /\ HasGaps(rows, dropped) -> "INCONCLUSIVE"
      [] OTHER -> "FAIL"

\* peak_fuel_cell_array_output looks at no gaps.
Peak(rows, marked) ==
    CASE rows = {} -> "INCONCLUSIVE"
      [] rows \cap marked # {} -> "PASS"
      [] OTHER -> "FAIL"

Evaluate(check, rows, dropped, last, marked, k) ==
    CASE check = "universal" -> Universal(rows, dropped, marked)
      [] check = "existential" -> Existential(rows, dropped, marked)
      [] check = "final" -> Final(rows, last, marked)
      [] check = "persistent" -> Persistent(rows, dropped, marked, k)
      [] check = "peak" -> Peak(rows, marked)

\* What a status says of the ticks the run really had, 1 .. had: a reference
\* that does not know which of them were retained.
Truthful(status, check, had, last, marked, k) ==
    LET happened == marked \cap 1 .. had
        holds == CASE check = "universal" -> happened = {}
                   [] check \in {"existential", "peak"} -> happened # {}
                   [] check = "final" -> had = last /\ last \notin marked
                   [] check = "persistent" -> Stretch(happened, k)
    IN  /\ status = "PASS" => holds
        /\ status = "FAIL" => ~holds
=============================================================================
