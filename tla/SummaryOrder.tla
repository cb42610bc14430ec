---------------------------- MODULE SummaryOrder ----------------------------
(* The sort of summarize (internal/reconcile/release.go), as the insertion  *)
(* sort that sort.SliceStable is for lists this short, over the conditions  *)
(* the release reconciler really produces.  Conditions.Foremost states its  *)
(* outcome; the order that is sorted by is not transitive, so what comes    *)
(* first also depends on the order the conditions are listed in.            *)
EXTENDS AtomicRelease

Ext == INSTANCE SequencesExt

\* The conditions that are summarized, in the order of their priority.
sumConds == IF TestsCount THEN <<"Remediated", "TestSuccess", "Released">>
                          ELSE <<"Remediated", "Released">>
Position(t) == CHOOSE p \in DOMAIN sumConds : sumConds[p] = t
InSummary(t) == \E p \in DOMAIN sumConds : sumConds[p] = t

\* The comparison of summarize.
Less(c, t, u) ==
  /\ InSummary(t)
  /\ InSummary(u) => c[t].gen >= c[u].gen /\ Position(t) < Position(u)

\* The next condition moves to the front while it is less than its neighbour.
Insert(c, sorted, t) ==
  LET at == CHOOSE p \in 1..(Len(sorted) + 1) :
              /\ \A q \in p..Len(sorted) : Less(c, t, sorted[q])
              /\ p > 1 => ~Less(c, t, sorted[p - 1])
  IN Ext!InsertAt(sorted, at, t)

SortedConditions(c) ==
  Ext!FoldLeft(LAMBDA sorted, t : Insert(c, sorted, t), <<>>,
               SelectSeq(ListOrder, LAMBDA t : Has(c, t)))

\* What summarize looks at: TestSuccess is gone once tests are disabled.
Summarizable == IF TestEnable THEN mem.conds ELSE Delete(mem.conds, "TestSuccess")

\* Ready is made from the condition that the sort of summarize puts first.
ForemostIsSorted ==
  (\E t \in CondTypes : Has(Summarizable, t)) =>
     Foremost(Summarizable) = SortedConditions(Summarizable)[1]

=============================================================================
