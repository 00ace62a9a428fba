-------------------------- MODULE AdaptiveSparsity --------------------------
(* The controller of rfsn_v10/adaptive_sparsity.py: one profile per model,  *)
(* layer, length bucket and skill says what share of the blocks attention    *)
(* keeps and whether sparse attention or the quantised cache is off.  The    *)
(* audited steps move it.  Ratios are counted in shares of 1 / Full.         *)
EXTENDS Naturals

CONSTANTS
    Profile,
    Full,                   \* a top-k ratio of 1.0, also max_top_k_ratio
    InitialRatio, MinRatio, \* initial_top_k_ratio, min_top_k_ratio
    Increase, Decrease,     \* increase_step_size, decrease_step_size
    Stabilization           \* stabilization_steps

ASSUME SparsityAssumption ==
    /\ Full \in Nat \ {0}
    /\ InitialRatio \in 1..Full
    /\ MinRatio \in 1..Full
    /\ Increase \in Nat
    /\ Decrease \in Nat
    /\ Stabilization \in Nat \ {0}

VARIABLE profiles           \* _profiles

SparsityInit ==
    profiles = [p \in Profile |->
                    [ratio |-> InitialRatio, clean |-> 0, sparseOff |-> FALSE, quantOff |-> FALSE]]

\* A mutant of Raised: the ratio has no upper limit.
RaisedUncapped(ratio) == ratio + Increase
Raised(ratio) == IF ratio + Increase < Full THEN ratio + Increase ELSE Full
Lowered(ratio) == IF ratio > Decrease + MinRatio THEN ratio - Decrease ELSE MinRatio

\* What an audit finds of sparse attention, and of quantisation: below no
\* threshold, beyond a warning, or below the failure threshold.
Quality == {"good", "warn", "fail"}

FellBack(s) == [s EXCEPT !.ratio = Raised(@), !.sparseOff = TRUE, !.clean = 0]
SparseDegraded(s, quality) ==
    [s EXCEPT !.ratio = Raised(@), !.sparseOff = (quality = "fail"), !.clean = 0]
QuantDegraded(s, quality) == [s EXCEPT !.quantOff = (quality = "fail"), !.clean = 0]
Clean(s) ==
    IF s.clean + 1 >= Stabilization
    THEN [ratio |-> Lowered(s.ratio), clean |-> 0, sparseOff |-> FALSE, quantOff |-> FALSE]
    ELSE [s EXCEPT !.clean = @ + 1]

\* A mutant of Updated: a step that fell back counts by its audit alone.
UpdatedByQuality(s, success, fellBack, sparse, quant) ==
    CASE sparse # "good" -> SparseDegraded(s, sparse)
      [] sparse = "good" /\ quant # "good" -> QuantDegraded(s, quant)
      [] sparse = "good" /\ quant = "good" -> Clean(s)

\* update
Updated(s, success, fellBack, sparse, quant) ==
    CASE ~success \/ fellBack -> FellBack(s)
      [] success /\ ~fellBack /\ sparse # "good" -> SparseDegraded(s, sparse)
      [] success /\ ~fellBack /\ sparse = "good" /\ quant # "good" -> QuantDegraded(s, quant)
      [] success /\ ~fellBack /\ sparse = "good" /\ quant = "good" -> Clean(s)

Update(p, success, fellBack, sparse, quant) ==
    profiles' = [profiles EXCEPT ![p] = Updated(@, success, fellBack, sparse, quant)]
=============================================================================
