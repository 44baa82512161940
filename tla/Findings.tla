------------------------------ MODULE Findings ------------------------------
(***************************************************************************)
(* The accumulator of one analysis (struct Findings, lib.rs).  The walk of *)
(* the script calls add once per rule that fires, in an order fixed by the *)
(* traversal, and resolve once at the end.  Only the best finding is kept. *)
(*                                                                         *)
(* Every accumulator receives the same findings, each in an order of its   *)
(* own: this is how the model states that the answer does not depend on    *)
(* the traversal.                                                          *)
(***************************************************************************)
EXTENDS Verdicts, FiniteSets

CONSTANTS
  Detail,       \* justification texts, told apart but never read
  Accumulator,  \* one per traversal order being compared
  Firings       \* the sets of <<rule, detail>> findings considered

(* The rules some call of Findings::add names; MALFORMED_INPUT, PARSE_ERROR *)
(* and OK only ever come from Verdict::of and Verdict::allow.               *)
Fireable == ForkBomb .. Obfuscation

ASSUME FiringsAssumption == Firings \subseteq SUBSET (Fireable \X Detail)
ASSUME NoMatchAssumption == NoMatch \notin Detail

VARIABLES
  fired,    \* the findings of this analysis
  added,    \* added[a]: those already passed to accumulator a
  best,     \* best[a]: {} for None, {v} for Some(v)
  verdict   \* verdict[a]: {} until resolve has returned, then {v}

vars == <<fired, added, best, verdict>>

(* Findings::new *)
Init ==
  /\ fired \in Firings
  /\ added   = [a \in Accumulator |-> {}]
  /\ best    = [a \in Accumulator |-> {}]
  /\ verdict = [a \in Accumulator |-> {}]

(* Findings::add *)
Add(a, rule, detail) ==
  /\ verdict[a] = {}
  /\ <<rule, detail>> \in fired \ added[a]
  /\ added' = [added EXCEPT ![a] = @ \cup {<<rule, detail>>}]
  /\ LET candidate == VerdictOf(rule, detail)
     IN  best' = [best EXCEPT ![a] =
                    IF Replaces(candidate, @) THEN {candidate} ELSE @]
  /\ UNCHANGED <<fired, verdict>>

(* Findings::resolve, which consumes the accumulator *)
Resolve(a) ==
  /\ verdict[a] = {}
  /\ added[a] = fired
  /\ verdict' = [verdict EXCEPT ![a] =
                   IF best[a] = {} THEN {AllowVerdict} ELSE best[a]]
  /\ UNCHANGED <<fired, added, best>>

Done ==
  /\ \A a \in Accumulator : verdict[a] # {}
  /\ UNCHANGED vars

Next ==
  \/ \E a \in Accumulator, f \in fired : Add(a, f[1], f[2])
  \/ \E a \in Accumulator : Resolve(a)
  \/ Done

Spec == Init /\ [][Next]_vars

-----------------------------------------------------------------------------

Verdict == [decision : Decision, rule : Rule, detail : Detail \cup {NoMatch}]

VerdictsAdded(a) == {VerdictOf(f[1], f[2]) : f \in added[a]}

(* Every variable stays in its range, and an accumulator holds at most one  *)
(* verdict, one it was given.                                               *)
TypeOK ==
  /\ fired \in SUBSET (Fireable \X Detail)
  /\ added \in [Accumulator -> SUBSET fired]
  /\ best \in [Accumulator -> SUBSET Verdict]
  /\ \A a \in Accumulator : \A v, w \in best[a] : v = w
  /\ verdict \in [Accumulator -> SUBSET Verdict]

(* The running best is the maximum of everything added so far in the order  *)
(* severity first, declaration order second: no finding is lost to one that *)
(* came earlier or later (Findings::add).                                   *)
BestIsMaximum ==
  \A a \in Accumulator :
    /\ best[a] = {} <=> added[a] = {}
    /\ best[a] \subseteq VerdictsAdded(a)
    /\ \A v \in best[a] : \A w \in VerdictsAdded(a) : ~Outranks(w, v)

(* Two traversals that meet the same findings answer with the same decision *)
(* and the same rule, in whatever order they met them (Findings::resolve;   *)
(* test insertion_order_does_not_matter).                                   *)
OrderIndependent ==
  \A a, b \in Accumulator :
    \A v \in verdict[a], w \in verdict[b] :
      v.decision = w.decision /\ v.rule = w.rule

(* ALLOW is the answer of an analysis in which nothing fired, and of no     *)
(* other: a finding can be outranked but never silenced.                    *)
AllowIffSilent ==
  \A a \in Accumulator :
    \A v \in verdict[a] : v.decision = Allow <=> fired = {}
=============================================================================
