----------------------------- MODULE NeedLedger -----------------------------
(***************************************************************************)
(* The relation of a need to the earlier needs of its session              *)
(* (needle-core/src/multi_need.rs, and the ledgers of mcp.rs and           *)
(* supervised_main.rs), and the reuse of an answer that covers it.         *)
(***************************************************************************)
EXTENDS NeedCompilation

\* obligations_contradict: both state a polarity, and not the same one.
Contradict(left, right) ==
  /\ left.predicate = right.predicate /\ left.subject = right.subject
  /\ \E f \in left.facets : \E g \in right.facets :
       f[1] = "polarity" /\ g[1] = "polarity" /\ f[2] # g[2]

\* obligations_compatible: no facet with two values.
Compatible(left, right) ==
  /\ left.predicate = right.predicate /\ left.subject = right.subject
  /\ \A f \in left.facets : \A g \in right.facets : f[1] = g[1] => f[2] = g[2]

CompatibleWithSome(obligation, obligations) ==
  \E other \in obligations : Compatible(other, obligation)

\* classify_need_step, with the obligations of the previous need that were
\* satisfied.
Classify(previous, current, satisfied) ==
  LET contradicts == \E l \in previous.required : \E r \in current.required : Contradict(l, r)
      covered == \A o \in current.required : CompatibleWithSome(o, previous.required)
      open == \E o \in current.required :
                ~CompatibleWithSome(o, previous.required \cap satisfied)
      extends == \A o \in previous.required : CompatibleWithSome(o, current.required)
      overlaps == \E o \in previous.required : CompatibleWithSome(o, current.required)
  IN  CASE previous.id = current.id -> "repeat"
        [] previous.id # current.id /\ previous.world # current.world -> "incompatible"
        [] previous.id # current.id /\ previous.world = current.world
             /\ previous.subjects # current.subjects -> "independent"
        [] OTHER -> IF contradicts THEN "incompatible"
                    ELSE IF covered /\ open THEN "residual"
                    ELSE IF extends THEN "extension"
                    ELSE IF overlaps THEN "overlap" ELSE "independent"

\* relation_rank.
RelationRank(relation) ==
  CASE relation = "independent" -> 0 [] relation = "incompatible" -> 1
    [] relation = "overlap" -> 2 [] relation = "extension" -> 3
    [] relation = "residual" -> 4 [] relation = "repeat" -> 5

\* relation_against_ledger and classify_against_ledger: the closest relation.
RelationToLedger(ledger, current) ==
  LET relations == {"independent"} \cup
                   {Classify(ledger[k].need, current, ledger[k].satisfied) : k \in DOMAIN ledger}
  IN  CHOOSE r \in relations : \A q \in relations : RelationRank(q) <= RelationRank(r)

\* fully_satisfied_ledger_entry: the answer of the entry is the current need's.
FullySatisfiedEntry(entry, current) ==
  /\ entry.need.required \subseteq entry.satisfied
  /\ ~current.residual
  /\ \/ entry.need.id = current.id
     \/ /\ entry.need.world = current.world /\ entry.need.constraints = current.constraints
        /\ entry.need.subjects = current.subjects
        /\ current.required \subseteq entry.satisfied
=============================================================================
