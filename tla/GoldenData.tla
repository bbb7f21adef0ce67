----------------------------- MODULE GoldenData -----------------------------
(***************************************************************************)
(* How a golden dataset is made (src/evaluation/golden: tier_a, tier_b,     *)
(* tier_c, builder) before GoldenPublish publishes it: three tiers of rows  *)
(* are labelled from the questions and the corpus files, linked dialogues   *)
(* are put into one split, leaking queries are rewritten and the multi-hop  *)
(* rows judged.  Each stage reads messages.jsonl or near_dup_clusters.jsonl *)
(* again; the corpus may be built anew in between.                         *)
(*                                                                         *)
(* A question is [ch, s, kind, image, about, score, text, grounds, needs]:  *)
(* about is the media row of its image, score counts the chart words,      *)
(* grounds are the messages that share answer words, best first, and needs *)
(* those its answer cannot do without.  A query is [text, version]; Ranking *)
(* is BM25.  Wording and provenance are left out.                          *)
(***************************************************************************)
EXTENDS Corpus, UnionFind

CONSTANTS QuestionSets, ClusterFiles, ReviewFiles,  \* the other inputs
          Multiparty,            \* the channels of several people
          Ranking, Rewritable,   \* BM25 order of a query; texts a synonym changes
          Quotable,              \* messages of sessions 1 to 14 with a first sentence of 20 to 120 letters
          CuratedB, CuratedC,    \* the fixed rows of tiers B and C
          QuotaA, QuotaC,        \* stratum |-> rows
          Refusals, Conflicts, PerChannel, Metadata,  \* 70, 60, 3, 70 in the code
          TierACount, TierBCount, TotalQueries, TotalDev,   \* 618, 210, 1039, 416
          DevQuota, MinTolerance, MaxCluster,               \* -, 8, 10
          ControlEvery, LeakPercent, SaturationPercent      \* 20, 15, 70

ASSUME GoldenAssumption ==
    /\ QuotaA \in [{"vlm_dependent", "visual_plus_context", "direct_visual", "long_range",
                    "referential", "interleaved", "context_only"} -> Nat]
    /\ SumFunction(QuotaA) = TierACount
    /\ \A s \in DOMAIN DevQuota : DevQuota[s] \in Nat
    /\ {Refusals, Conflicts, Metadata, MinTolerance} \subseteq Nat
    /\ TotalDev \in Nat \ {0} /\ ControlEvery \in Nat \ {0}
    /\ \A qs \in QuestionSets \cup {CuratedB, CuratedC} : qs \in Seq(Range(qs))
    /\ \A file \in ClusterFiles : \A c \in file : IsFiniteSet(c)

VARIABLES gold,      \* the builder: pc, questions, rows, clusters and messages it read
          clusters   \* near_dup_clusters.jsonl: sets of media ids (see VisualBuild)
goldVars == <<gold, clusters>>

Messages == DOMAIN disk.messages
RowsOf(rows, stratum) == {i \in DOMAIN rows : rows[i].stratum = stratum}
UpTo(n, s) == SubSeq(s, 1, IF n < Len(s) THEN n ELSE Len(s))
\* The questions at these places, in their order.
Chosen(qs, places) == LET at == InOrder(places, <) IN [k \in DOMAIN at |-> qs[at[k]]]

\* output_hash stands for the values it is computed from.
Hashed(r) == [query |-> r.query, split |-> r.split, control |-> r.control]
Row(split, stratum, group, action, text, evidence) ==
    LET values == [query |-> [text |-> text, version |-> 0], split |-> split, control |-> FALSE]
    IN  [stratum |-> stratum, group |-> group, action |-> action, evidence |-> evidence,
         query |-> values.query, split |-> split, control |-> FALSE, hash |-> values, outcome |-> "none"]
Draft(stratum, group, action, text, evidence) == Row("dev", stratum, group, action, text, evidence)

-----------------------------------------------------------------------------
\* Tier A: one row per question with an image, in the first stratum with room
\* of those it prefers; the questions with the most chart words come first in
\* vlm_dependent, which also takes what fits nowhere.

TopScored(qs, n) ==
    {i \in DOMAIN qs : Cardinality({j \in DOMAIN qs : qs[j].score > qs[i].score
                                        \/ (qs[j].score = qs[i].score /\ j < i)}) < n}
Wishes(q, top) ==
    << <<top, "vlm_dependent">>, <<q.kind = "causal", "visual_plus_context">>,
       <<q.kind = "retrieval", "direct_visual">>, <<q.kind = "evolution", "long_range">>,
       <<q.ch \in Multiparty, "referential">>, <<q.ch \in Multiparty, "interleaved">>,
       <<TRUE, "context_only">>, <<TRUE, "visual_plus_context">>, <<TRUE, "direct_visual">>,
       <<TRUE, "long_range">>, <<TRUE, "referential">>, <<TRUE, "interleaved">> >>
Stratum(q, top, rows) ==
    LET w == Wishes(q, top)
        room == {k \in DOMAIN w : w[k][1] /\ Cardinality(RowsOf(rows, w[k][2])) < QuotaA[w[k][2]]}
    IN  IF room = {} THEN "vlm_dependent" ELSE w[Min(room)][2]

InSession(ch, s) == {id \in Messages : id[1] = ch /\ id[2] = s}
FirstTwo(S) == {id \in S : Cardinality({o \in S : LexLess(o, id)}) < 2}
SessionEvidence(q) ==
    FirstTwo(IF InSession(q.ch, q.s) # {} THEN InSession(q.ch, q.s) ELSE InSession(q.ch, 1))
TierA(qs) ==
    LET top == TopScored(qs, QuotaA["vlm_dependent"])
        Add(rows, i) == Append(rows, Draft(Stratum(qs[i], i \in top, rows), qs[i].ch,
                                           "return_result", qs[i].text, SessionEvidence(qs[i])))
    IN  FoldLeft(Add, <<>>, [i \in DOMAIN qs |-> i])

\* Tier B: refusals, ambiguous questions, messages quoted by sender and date,
\* at most PerChannel of a channel, and a few fixed rows.
TextOnly(qs, kind) == Chosen(qs, {i \in DOMAIN qs : ~qs[i].image /\ qs[i].kind = kind})
Quoted ==
    LET few == {id \in Messages \cap Quotable :
                   Cardinality({o \in Messages \cap Quotable : o[1] = id[1] /\ LexLess(o, id)}) < PerChannel}
    IN  UpTo(Metadata, InOrder(few, LexLess))
TierB(qs) ==
    LET refusals == UpTo(Refusals, TextOnly(qs, "refusal"))
        conflicts == UpTo(Conflicts, TextOnly(qs, "conflict"))
    IN  [i \in DOMAIN refusals |-> Draft("unanswerable", refusals[i].ch, "no_result", refusals[i].text, {})]
        \o [i \in DOMAIN conflicts |->
              Draft("ambiguous_clarification", conflicts[i].ch, "clarify", conflicts[i].text, {})]
        \o [i \in DOMAIN Quoted |-> Draft("metadata_only", Quoted[i][1], "return_result", "quote", {Quoted[i]})]
        \o CuratedB

\* Tier C: the curated multi-hop rows, and grounded questions while there is
\* room.  A fourth message is taken only from a session not seen before.
TakeGround(acc, id) ==
    IF id \notin Messages \/ acc.full THEN acc
    ELSE IF id[2] \notin acc.seen
    THEN [ids |-> acc.ids \cup {id}, seen |-> acc.seen \cup {id[2]},
          full |-> Cardinality(acc.ids) >= 2]
    ELSE IF Cardinality(acc.ids) < 3 THEN [acc EXCEPT !.ids = @ \cup {id}] ELSE acc
Grounds(q) == FoldLeft(TakeGround, [ids |-> {}, seen |-> {}, full |-> FALSE], q.grounds).ids
GroundedStratum(q, rows) ==
    LET room == {s \in DOMAIN QuotaC : Cardinality(RowsOf(rows, s)) < QuotaC[s]}
    IN  IF ~q.image /\ "context_only" \in room THEN "context_only"
        ELSE IF "visual_plus_context" \in room THEN "visual_plus_context" ELSE "none"
AddGrounded(rows, q) ==
    IF Grounds(q) = {} \/ ~(q.needs \subseteq Grounds(q)) \/ GroundedStratum(q, rows) = "none" THEN rows
    ELSE Append(rows, Draft(GroundedStratum(q, rows), q.ch, "return_result", q.text, Grounds(q)))
TierC(qs) == FoldLeft(AddGrounded, CuratedC, qs)

-----------------------------------------------------------------------------
\* The split.

\* Media of one small cluster link their dialogues; a large cluster is an
\* artifact of the perceptual hash.
Edges_Below(file) ==
    UNION {{<<a[1], b[1]>> : a, b \in c} : c \in {d \in file : 1 < Cardinality(d) /\ Cardinality(d) < MaxCluster}}
Edges(file) ==
    UNION {{<<a[1], b[1]>> : a, b \in c} : c \in {d \in file : 1 < Cardinality(d) /\ Cardinality(d) <= MaxCluster}}
SplitComponents(rows, file) == Components({rows[i].group : i \in DOMAIN rows}, Edges(file))

RowsIn(rows, comps) == {i \in DOMAIN rows : rows[i].group \in UNION comps}
Tolerance(quota) == Max({MinTolerance, (15 * quota) \div 100})
WithinTolerance(rows, dev) ==
    \A s \in DOMAIN DevQuota :
        LET n == Cardinality(RowsIn(rows, dev) \cap RowsOf(rows, s))
        IN  n - DevQuota[s] <= Tolerance(DevQuota[s]) /\ DevQuota[s] - n <= Tolerance(DevQuota[s])

\* search: with or without the next component; {} if there is no way.
Search(rows, order) ==
    LET size(comps) == Cardinality(RowsIn(rows, comps))
        rest(i) == {order[j] : j \in i..Len(order)}
        found[i \in 1..(Len(order) + 1)] == [dev \in SUBSET Range(order) |->
            IF size(dev) = TotalDev THEN IF WithinTolerance(rows, dev) THEN {dev} ELSE {}
            ELSE IF i > Len(order) \/ size(dev) > TotalDev \/ size(dev) + size(rest(i)) < TotalDev THEN {}
            ELSE IF found[i + 1][dev \cup {order[i]}] # {} THEN found[i + 1][dev \cup {order[i]}]
            ELSE found[i + 1][dev]]
    IN  found[1][{}]
\* Every row as it was made, but for its split and the hash of it.
Assigned(rows, dev) ==
    [i \in DOMAIN rows |->
        LET r == rows[i]
        IN  Row(IF r.group \in UNION dev THEN "dev" ELSE "test",
                r.stratum, r.group, r.action, r.query.text, r.evidence)]

-----------------------------------------------------------------------------
\* The anti-leak gate: a query whose best message is its own evidence is
\* rewritten, and kept as it was if that does not help.  Every 20th answer
\* is a control that is measured and never rewritten.

Answerable(rows) == {i \in DOMAIN rows : rows[i].action = "return_result"}
Control(rows) ==
    {i \in Answerable(rows) : Cardinality({j \in Answerable(rows) : j < i}) % ControlEvery = 0}
Best(query, ids) == LET known == SelectSeq(Ranking[query], LAMBDA id : id \in ids)
                    IN  IF known = <<>> THEN InOrder(ids, LexLess)[1] ELSE known[1]
Leaks(r, ids) == Best(r.query, ids) \in r.evidence
Rewritten(r) == [r EXCEPT !.query.version = IF r.query.text \in Rewritable THEN 1 ELSE @]
Gated_Unverified(r, ids) ==
    IF ~Leaks(r, ids) THEN [r EXCEPT !.outcome = "clean"]
    ELSE IF Rewritten(r) = r THEN [r EXCEPT !.outcome = "unrewritable"]
    ELSE [Rewritten(r) EXCEPT !.hash = Hashed(Rewritten(r)), !.outcome = "rewritten"]
Gated(r, ids) ==
    IF ~Leaks(r, ids) THEN [r EXCEPT !.outcome = "clean"]
    ELSE IF Rewritten(r) = r \/ Leaks(Rewritten(r), ids) THEN [r EXCEPT !.outcome = "unrewritable"]
    ELSE [Rewritten(r) EXCEPT !.hash = Hashed(Rewritten(r)), !.outcome = "rewritten"]
GatedRows(rows, ids) ==
    [i \in DOMAIN rows |->
        IF i \notin Answerable(rows) THEN rows[i]
        ELSE IF i \in Control(rows) THEN [rows[i] EXCEPT !.control = TRUE, !.outcome = "control"]
        ELSE Gated(rows[i], ids)]

LeakingRows(rows, ids) == {i \in Answerable(rows) : Leaks(rows[i], ids)}
TooLeaky(rows, ids) ==
    100 * Cardinality(LeakingRows(rows, ids)) > LeakPercent * Cardinality(Answerable(rows))
Saturated(rows, ids) ==
    LET dev == {i \in RowsOf(rows, "visual_plus_context") : rows[i].split = "dev"}
    IN  dev # {} /\ 100 * Cardinality(dev \cap LeakingRows(rows, ids)) >= SaturationPercent * Cardinality(dev)

-----------------------------------------------------------------------------
GoldenInit ==
    /\ gold \in [pc : {"start"}, questions : QuestionSets, rows : {<<>>}, file : {{}}, read : {{}}]
    /\ clusters \in ClusterFiles

Pass(to, rows) == gold' = [gold EXCEPT !.pc = to, !.rows = rows]
Refuse == gold' = [gold EXCEPT !.pc = "refused"]

\* A visual build replaces its clusters.
ReplaceClusters ==
    /\ edits < MaxEdits /\ edits' = edits + 1
    /\ clusters' \in ClusterFiles \ {clusters}
    /\ UNCHANGED <<raw, disk, norm, crashes, gold>>

BuildTierA ==
    /\ gold.pc = "start"
    /\ LET images == Chosen(gold.questions, {i \in DOMAIN gold.questions : gold.questions[i].image})
       IN  IF Len(images) = TierACount /\ \A i \in DOMAIN images : images[i].about \in DOMAIN disk.media
           THEN Pass("tier_b", TierA(images)) ELSE Refuse
    /\ UNCHANGED <<corpusVars, clusters>>
\* A message to quote that has no sender has no name to ask for: the build ends.
BuildTierB ==
    /\ gold.pc = "tier_b"
    /\ IF /\ \A i \in DOMAIN Quoted : disk.messages[Quoted[i]].sender # NoSender
          /\ Len(TierB(gold.questions)) = TierBCount
       THEN Pass("tier_c", gold.rows \o TierB(gold.questions)) ELSE Refuse
    /\ UNCHANGED <<corpusVars, clusters>>
BuildTierC ==
    /\ gold.pc = "tier_c"
    /\ LET rows == gold.rows \o TierC(gold.questions)
       IN  IF Len(rows) = TotalQueries THEN Pass("split", rows) ELSE Refuse
    /\ UNCHANGED <<corpusVars, clusters>>

\* The components are tried in the order of a salted hash, which may be any.
Orders(S) == {o \in [1..Cardinality(S) -> S] : Range(o) = S}
AssignSplits ==
    /\ gold.pc = "split"
    /\ \E order \in Orders(SplitComponents(gold.rows, clusters)) :
         LET found == Search(gold.rows, order)
         IN  gold' = [gold EXCEPT !.file = clusters,
                                  !.pc = IF found = {} THEN "infeasible" ELSE "gate",
                                  !.rows = IF found = {} THEN @ ELSE Assigned(@, CHOOSE dev \in found : TRUE)]
    /\ UNCHANGED <<corpusVars, clusters>>

AntiLeakGate ==
    /\ gold.pc = "gate"
    /\ LET rows == GatedRows(gold.rows, Messages)
           ok == Messages # {} /\ ~TooLeaky(rows, Messages) /\ ~Saturated(rows, Messages)
       IN  gold' = [gold EXCEPT !.pc = IF ok THEN "judge" ELSE "refused",
                                !.rows = IF ok THEN rows ELSE @, !.read = Messages]
    /\ UNCHANGED <<corpusVars, clusters>>

\* The reviews must be those of exactly the multi-hop rows, all sufficient,
\* and the evidence must still be in the corpus.
Sufficient(review) == \A n \in DOMAIN review : review[n] = "sufficient"
JudgeMultiHop ==
    /\ gold.pc = "judge"
    /\ \E review \in ReviewFiles :
         LET hops == RowsOf(gold.rows, "multi_hop_evidence")
         IN  IF /\ DOMAIN review = 1..Cardinality(hops) /\ Sufficient(review)
                /\ \A i \in hops : gold.rows[i].evidence \subseteq Messages
             THEN Pass("done", gold.rows) ELSE Refuse
    /\ UNCHANGED <<corpusVars, clusters>>

GoldenNext ==
    \/ ReplaceClusters \/ BuildTierA \/ BuildTierB \/ BuildTierC \/ AssignSplits \/ AntiLeakGate \/ JudgeMultiHop

\* Corpus builds beside the making of one dataset.
datasetVars == <<corpusVars, goldVars>>
BuildOrLabel == GoldenNext \/ (CorpusNext /\ UNCHANGED goldVars)
GoldenSpec == CorpusInit /\ GoldenInit /\ [][BuildOrLabel]_datasetVars

-----------------------------------------------------------------------------
\* Properties.

\* A dialogue is in one split with all its rows (builder.py:353).
Together(rows) ==
    \A i, j \in DOMAIN rows : rows[i].group = rows[j].group => rows[i].split = rows[j].split

\* A split that is accepted (builder.py:288) has tiers whose strata have just
\* their quotas, whatever the order and the preferences of the questions, the
\* right number of dev rows within the tolerance of every stratum, and no
\* small cluster of near duplicates with images in both splits; one that is
\* refused has no partition of the linked dialogues that would have done.
SplitSound ==
    /\ gold.pc \in {"gate", "judge", "done"} =>
         /\ \A s \in DOMAIN QuotaA :
               Cardinality({i \in 1..TierACount : gold.rows[i].stratum = s}) = QuotaA[s]
         /\ LET dev == {i \in DOMAIN gold.rows : gold.rows[i].split = "dev"}
            IN  /\ Cardinality(dev) = TotalDev
                /\ \A s \in DOMAIN DevQuota :
                      Cardinality(dev \cap RowsOf(gold.rows, s)) - DevQuota[s]
                          \in -Tolerance(DevQuota[s])..Tolerance(DevQuota[s])
         /\ \A i, j \in DOMAIN gold.rows : gold.rows[i].split # gold.rows[j].split =>
               \A c \in gold.file : ~(/\ Cardinality(c) <= MaxCluster
                                      /\ \E a, b \in c : a[1] = gold.rows[i].group /\ b[1] = gold.rows[j].group)
         /\ Together(gold.rows)
    /\ gold.pc = "infeasible" =>
         \A dev \in SUBSET SplitComponents(gold.rows, gold.file) :
             Cardinality(RowsIn(gold.rows, dev)) = TotalDev => ~WithinTolerance(gold.rows, dev)

Accounted(rows, ids) ==
    /\ ~TooLeaky(rows, ids)
    /\ \A i \in Answerable(rows) :
         LET r == rows[i]
         IN  /\ Leaks(r, ids) => r.outcome \in {"control", "unrewritable"}
             /\ r.outcome = "unrewritable" =>
                    Leaks(r, ids) /\ (r.query.text \notin Rewritable \/ Leaks(Rewritten(r), ids))
             /\ (r.hash = Hashed(r)) = (r.outcome # "control")

\* What the gate releases (builder.py:478): the queries that still find their
\* own evidence are controls or could not be rewritten, and they are few; the
\* rows that were counted as rewritten or clean do not leak; and an
\* output_hash is the row's own, except on the controls, which are marked
\* after their hash was computed.
GateAccounts == gold.pc \in {"judge", "done"} => Accounted(gold.rows, gold.read)
=============================================================================
