--------------------------- MODULE FindingsProofs ---------------------------
(***************************************************************************)
(* Machine-checked proofs about Findings, for every set of findings, every *)
(* set of justification texts and any number of traversal orders.          *)
(***************************************************************************)
EXTENDS Findings, TLAPS

(* Rule::severity is total, and fixed by the position in the declaration:   *)
(* eight denying rules, then the asking ones, then OK.                      *)
LEMMA SeverityByPosition ==
  \A rule \in Rule :
    /\ Severity(rule) \in Decision
    /\ Severity(rule) = Deny <=> rule <= ContainerEscape
    /\ Severity(rule) = Allow <=> rule = OkRule
BY DEF Rule, Severity, Decision, Allow, Ask, Deny, ForkBomb, ReverseShell,
       RemoteExec, FsDestructive, DeviceOverwrite, SystemFileWrite,
       Exfiltration, ContainerEscape, OkRule

(* The comparison in Findings::add is a strict order on verdicts that       *)
(* leaves two of them unranked only when decision and rule coincide.        *)
LEMMA OutranksIsOrder ==
  ASSUME NEW u \in Verdict, NEW v \in Verdict, NEW w \in Verdict
  PROVE  /\ ~Outranks(u, u)
         /\ Outranks(u, v) => ~Outranks(v, u)
         /\ Outranks(u, v) /\ ~Outranks(w, v) => ~Outranks(w, u)
         /\ ~Outranks(u, v) /\ ~Outranks(v, u)
              => u.decision = v.decision /\ u.rule = v.rule
BY DEF Verdict, Outranks, Decision, Rule, Allow, Deny, ForkBomb, OkRule

(* Every fireable rule yields a well-formed verdict that is not ALLOW.      *)
LEMMA FiredVerdict ==
  ASSUME NEW rule \in Fireable, NEW detail \in Detail
  PROVE  /\ VerdictOf(rule, detail) \in Verdict
         /\ VerdictOf(rule, detail).decision # Allow
<1>1. rule \in Rule /\ rule # OkRule
  BY DEF Fireable, Rule, ForkBomb, Obfuscation, OkRule
<1>2. QED
  BY <1>1, SeverityByPosition DEF VerdictOf, Verdict

(* Verdict::allow is well formed.                                           *)
LEMMA AllowIsVerdict ==
  AllowVerdict \in Verdict /\ AllowVerdict.decision = Allow
<1>1. OkRule \in Rule
  BY DEF Rule, ForkBomb, OkRule
<1>2. QED
  BY <1>1, SeverityByPosition DEF AllowVerdict, VerdictOf, Verdict

(* What resolve returned is what the accumulator held when every finding    *)
(* had been added.                                                          *)
ResolvedFromBest ==
  \A a \in Accumulator :
    verdict[a] # {} =>
      /\ added[a] = fired
      /\ verdict[a] = IF best[a] = {} THEN {AllowVerdict} ELSE best[a]

Inv == TypeOK /\ BestIsMaximum /\ ResolvedFromBest

(* In a state of Inv, what an accumulator was given are verdicts and none   *)
(* of them is ALLOW.                                                        *)
LEMMA AddedAreVerdicts ==
  ASSUME TypeOK, NEW a \in Accumulator, NEW v \in VerdictsAdded(a)
  PROVE  v \in Verdict /\ v.decision # Allow
<1>1. PICK f \in added[a] : v = VerdictOf(f[1], f[2])
  BY DEF VerdictsAdded
<1>2. f[1] \in Fireable /\ f[2] \in Detail
  BY DEF TypeOK
<1>3. QED
  BY <1>1, <1>2, FiredVerdict

(* The initial state satisfies the invariant.                               *)
LEMMA InvInit == Init => Inv
BY FiringsAssumption
   DEF Init, Inv, TypeOK, BestIsMaximum, ResolvedFromBest, VerdictsAdded

(* Findings::add keeps the best finding the maximum of those added.         *)
LEMMA AddKeepsInv ==
  ASSUME Inv, NEW a \in Accumulator, NEW f \in fired, Add(a, f[1], f[2])
  PROVE  Inv'
<1> DEFINE cand == VerdictOf(f[1], f[2])
<1>1. f \in Fireable \X Detail /\ f = <<f[1], f[2]>> /\ f \notin added[a]
  BY DEF Inv, TypeOK, Add
<1>2. cand \in Verdict
  BY <1>1, FiredVerdict
<1>3. /\ added' = [added EXCEPT ![a] = @ \cup {f}]
      /\ best' = [best EXCEPT ![a] = IF Replaces(cand, @) THEN {cand} ELSE @]
      /\ fired' = fired /\ verdict' = verdict /\ verdict[a] = {}
  BY <1>1 DEF Add
<1>4. TypeOK'
  BY <1>1, <1>2, <1>3 DEF Inv, TypeOK
<1>5. VerdictsAdded(a)' = VerdictsAdded(a) \cup {cand}
  BY <1>3 DEF VerdictsAdded, Inv, TypeOK
<1>6. \A b \in Accumulator : b # a => /\ VerdictsAdded(b)' = VerdictsAdded(b)
                                      /\ best'[b] = best[b]
                                      /\ added'[b] = added[b]
  BY <1>3 DEF VerdictsAdded, Inv, TypeOK
<1>7. /\ best'[a] # {} /\ added'[a] # {}
      /\ best'[a] \subseteq VerdictsAdded(a)'
      /\ \A v \in best'[a] : \A w \in VerdictsAdded(a)' : ~Outranks(w, v)
  <2>1. best[a] \subseteq Verdict /\ added'[a] # {}
    BY <1>3 DEF Inv, TypeOK
  <2>2. \A w \in VerdictsAdded(a) : w \in Verdict
    BY AddedAreVerdicts DEF Inv
  <2>3. /\ best[a] \subseteq VerdictsAdded(a)
        /\ \A v \in best[a] : \A w \in VerdictsAdded(a) : ~Outranks(w, v)
        /\ best[a] = {} <=> added[a] = {}
    BY DEF Inv, BestIsMaximum
  <2>4. CASE Replaces(cand, best[a])
    <3>1. best'[a] = {cand}
      BY <1>3, <2>4 DEF Inv, TypeOK
    <3>2. ~Outranks(cand, cand)
      BY <1>2, OutranksIsOrder
    <3>3. ASSUME NEW w \in VerdictsAdded(a)
          PROVE  ~Outranks(w, cand)
      <4>1. added[a] # {}
        BY <3>3 DEF VerdictsAdded
      <4>2. PICK v \in best[a] : Outranks(cand, v) /\ ~Outranks(w, v)
        BY <4>1, <2>3, <2>4, <3>3 DEF Replaces
      <4>3. v \in Verdict /\ w \in Verdict
        BY <2>1, <2>2, <3>3
      <4>4. ~Outranks(w, v) /\ Outranks(cand, v)
        BY <4>2
      <4>5. QED
        BY <4>3, <4>4, <1>2, OutranksIsOrder
    <3>4. QED
      BY <3>1, <3>2, <3>3, <1>5, <2>1
  <2>5. CASE ~Replaces(cand, best[a])
    <3>1. best'[a] = best[a] /\ best[a] # {}
      BY <1>3, <2>5 DEF Inv, TypeOK, Replaces
    <3>2. PICK c \in best[a] : ~Outranks(cand, c)
      BY <2>5 DEF Replaces
    <3>3. ASSUME NEW v \in best[a]
          PROVE  ~Outranks(cand, v)
      <4>1. ~Outranks(v, c) /\ ~Outranks(c, v) /\ v \in Verdict /\ c \in Verdict
        BY <2>1, <2>3, <3>2, <3>3
      <4>2. v.decision = c.decision /\ v.rule = c.rule
        BY <4>1, OutranksIsOrder
      <4>3. QED
        BY <4>2, <3>2 DEF Outranks
    <3>4. QED
      BY <3>1, <3>3, <1>5, <2>1, <2>3
  <2>6. QED
    BY <2>4, <2>5
<1>8. BestIsMaximum'
  BY <1>6, <1>7 DEF Inv, BestIsMaximum
<1>9. ResolvedFromBest'
  <2>1. ASSUME NEW b \in Accumulator, verdict[b] # {}
        PROVE  b # a
    BY <1>3, <2>1
  <2>2. QED
    BY <1>3, <1>6, <2>1 DEF Inv, ResolvedFromBest
<1>10. QED
  BY <1>4, <1>8, <1>9 DEF Inv

(* Findings::resolve returns what the accumulator holds.                    *)
LEMMA ResolveKeepsInv ==
  ASSUME Inv, NEW a \in Accumulator, Resolve(a)
  PROVE  Inv'
<1>1. TypeOK'
  BY AllowIsVerdict DEF Inv, TypeOK, Resolve
<1>2. BestIsMaximum'
  BY DEF Inv, BestIsMaximum, Resolve, VerdictsAdded
<1>3. ResolvedFromBest'
  BY DEF Inv, TypeOK, ResolvedFromBest, Resolve
<1>4. QED
  BY <1>1, <1>2, <1>3 DEF Inv

(* Inv is an invariant of the accumulator.                                  *)
THEOREM InvInvariant == Spec => []Inv
<1>1. Inv /\ [Next]_vars => Inv'
  <2> SUFFICES ASSUME Inv, [Next]_vars PROVE Inv'
    OBVIOUS
  <2>1. CASE \E a \in Accumulator, f \in fired : Add(a, f[1], f[2])
    BY <2>1, AddKeepsInv
  <2>2. CASE \E a \in Accumulator : Resolve(a)
    BY <2>2, ResolveKeepsInv
  <2>3. CASE UNCHANGED vars
    BY <2>3 DEF vars, Inv, TypeOK, BestIsMaximum, ResolvedFromBest,
       VerdictsAdded
  <2>4. QED
    BY <2>1, <2>2, <2>3 DEF Next, Done
<1>2. QED
  BY InvInit, <1>1, PTL DEF Spec

(* The running best is the maximum of the findings added so far, for every  *)
(* instance.                                                                *)
THEOREM BestIsMaximumAlways == Spec => []BestIsMaximum
<1>1. Inv => BestIsMaximum
  BY DEF Inv
<1>2. QED
  BY InvInvariant, <1>1, PTL

(* Two accumulators that have resolved the same findings agree on decision  *)
(* and rule, whatever the order in which each was given them.               *)
THEOREM OrderIndependentAlways == Spec => []OrderIndependent
<1>1. Inv => OrderIndependent
  <2> SUFFICES ASSUME Inv,
                      NEW a \in Accumulator, NEW b \in Accumulator,
                      NEW v \in verdict[a], NEW w \in verdict[b]
               PROVE  v.decision = w.decision /\ v.rule = w.rule
    BY DEF OrderIndependent
  <2>1. /\ added[a] = fired /\ added[b] = fired
        /\ VerdictsAdded(a) = VerdictsAdded(b)
    BY DEF Inv, ResolvedFromBest, VerdictsAdded
  <2>2. /\ verdict[a] = IF best[a] = {} THEN {AllowVerdict} ELSE best[a]
        /\ verdict[b] = IF best[b] = {} THEN {AllowVerdict} ELSE best[b]
    BY DEF Inv, ResolvedFromBest
  <2>3. CASE fired = {}
    BY <2>1, <2>2, <2>3 DEF Inv, BestIsMaximum
  <2>4. CASE fired # {}
    <3>1. v \in best[a] /\ w \in best[b]
      BY <2>1, <2>2, <2>4 DEF Inv, BestIsMaximum
    <3>2. ~Outranks(v, w) /\ ~Outranks(w, v)
      BY <2>1, <3>1 DEF Inv, BestIsMaximum
    <3>3. v \in Verdict /\ w \in Verdict
      BY <3>1 DEF Inv, TypeOK
    <3>4. QED
      BY <3>2, <3>3, OutranksIsOrder
  <2>5. QED
    BY <2>3, <2>4
<1>2. QED
  BY InvInvariant, <1>1, PTL

(* ALLOW comes out exactly when nothing fired.                              *)
THEOREM AllowIffSilentAlways == Spec => []AllowIffSilent
<1>1. Inv => AllowIffSilent
  <2> SUFFICES ASSUME Inv, NEW a \in Accumulator, NEW v \in verdict[a]
               PROVE  v.decision = Allow <=> fired = {}
    BY DEF AllowIffSilent
  <2>1. /\ added[a] = fired
        /\ verdict[a] = IF best[a] = {} THEN {AllowVerdict} ELSE best[a]
    BY DEF Inv, ResolvedFromBest
  <2>2. CASE fired = {}
    BY <2>1, <2>2, AllowIsVerdict DEF Inv, BestIsMaximum
  <2>3. CASE fired # {}
    <3>1. v \in VerdictsAdded(a)
      BY <2>1, <2>3 DEF Inv, BestIsMaximum
    <3>2. QED
      BY <3>1, <2>3, AddedAreVerdicts DEF Inv
  <2>4. QED
    BY <2>2, <2>3
<1>2. QED
  BY InvInvariant, <1>1, PTL
=============================================================================
