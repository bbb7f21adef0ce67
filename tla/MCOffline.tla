------------------------------ MODULE MCOffline ------------------------------
(***************************************************************************)
(* The offline tools on small inputs.  The readers of the corpus files -    *)
(* the server's seed, the visual build and the golden builder - change      *)
(* nothing another one or the corpus build reads, so they are checked one   *)
(* at a time beside it: reader says which.  "split" is the golden builder   *)
(* over one whole corpus and many questions.                                *)
(***************************************************************************)
EXTENDS Seeding, VisualBuild, GoldenData, TLC

CONSTANT Readers  \* the readers of this run
VARIABLE reader
vars == <<corpusVars, seedVars, visualVars, goldVars, reader>>

T(who, at, img) == [who |-> who, at |-> at, img |-> img]
S(ch, n, date, turns) == [ch |-> ch, n |-> n, date |-> date, turns |-> turns]

\* Channel 1 has three sessions, whose dates run backwards between the second
\* and the third one; channels 2 and 3 have one each.  "Ann" and "Anna" both
\* match "@anna".
Long == <<T("ann", NoMention, NoImage), T("all", "anna", NoImage)>>
Short == <<T("bo", NoMention, NoImage)>>
Sessions(first, date, last, image) ==
    {S(1, 1, 4, first), S(1, 2, date, <<T("A_Bo", "bo", NoImage)>>), S(1, 3, 3, last),
     S(2, 1, 4, <<T("anna", "eve", image)>>), S(3, 1, 4, <<T("bo", NoMention, "c1")>>)}
Base     == [sessions |-> Sessions(Long, 5, Short, "c2"), orphans |-> {}]
Replaced == [sessions |-> Sessions(Long, 5, Short, "c1"), orphans |-> {}]
\* Channel 1's third session grows, and channel 3's becomes its second one.
Renumbered ==
    [sessions |-> {t \in Sessions(Long, 5, Append(Short, T("ann", NoMention, "c1")), "c2") : t.ch # 3}
                      \cup {S(3, 2, 6, <<T("bo", NoMention, "c1")>>)}, orphans |-> {}]
Lacking  == [sessions |-> Sessions(Long, 5, <<T("ann", NoMention, Missing)>>, "c2"), orphans |-> {"c1"}]
Undated  == [sessions |-> Sessions(Long, Unmapped, Short, "c2"), orphans |-> {}]
VisualCorpora == {Base, Replaced}
GoldenCorpora == {Base, Renumbered}
\* Smaller ones with the same reversed dates, and two empty sessions, for the
\* server, which also meets every part of every file.
Few(first, last, other, another) ==
    {S(1, 1, 4, first), S(1, 2, 3, last), S(2, 1, 4, other), S(2, 2, 6, another), S(2, 3, 7, <<>>)}
With(img) == <<T("anna", "anna", img)>>
Small   == [sessions |-> Few(Short, <<T("A_Bo", "bo", NoImage)>>, With("c2"), <<>>), orphans |-> {}]
Longer  == [sessions |-> Few(Append(Short, T("ann", NoMention, "c2")), Short, With("c1"), <<>>), orphans |-> {}]
\* Channel 2's message comes in its second session, after channel 1's last one.
Later   == [sessions |-> Few(Short, <<T("A_Bo", "bo", NoImage)>>, <<>>, With("c2")), orphans |-> {"c1"}]
SeedCorpora == {Small, Longer, Later}
CorporaOf == [seed |-> SeedCorpora, visual |-> VisualCorpora, golden |-> GoldenCorpora, split |-> {Base, Lacking, Undated}]
MCCorpora == UNION {CorporaOf[r] : r \in DOMAIN CorporaOf}
MCFirst   == {Base, Lacking, Undated, Small}
MCAliases == "A_Bo" :> "bo"
MCSenderId == "ann" :> 1 @@ "anna" :> 2 @@ "bo" :> 3
MCMatches == "anna" :> <<"anna", "ann">> @@ "bo" :> <<"bo">> @@ "eve" :> <<>>
MCSimilar == {<<"c1", "c1">>, <<"c2", "c2">>}

\* Four questions with an image, in channels 2 and 3; a refusal, an ambiguous
\* one and two that the messages answer.  t2 and t4 leak, and a synonym helps
\* t2 only; t3 leaks and has no synonym.
Q(ch, kind, score, text) ==
    [ch |-> ch, s |-> 1, kind |-> kind, image |-> TRUE, about |-> <<ch, 1, 0>>, score |-> score,
     text |-> text, grounds |-> <<>>, needs |-> {}]
P(ch, kind, text, grounds) ==
    [ch |-> ch, s |-> 1, kind |-> kind, image |-> FALSE, about |-> <<ch, 1, 0>>, score |-> 0,
     text |-> text, grounds |-> grounds, needs |-> {grounds[i] : i \in DOMAIN grounds}]
Plain(ch) ==
    << P(ch, "refusal", "r", <<>>), P(3, "conflict", "r", <<>>),
       P(1, "other", "g", << <<1, 1, 0>>, <<1, 1, 1>>, <<1, 2, 0>> >>), P(1, "other", "h", << <<1, 3, 0>> >>) >>
Kinds == {<<2, "causal">>, <<3, "causal">>, <<2, "retrieval">>, <<3, "other">>}
ManyQuestions ==
    { << Q(a[1], a[2], 1, "t1"), Q(b[1], b[2], 3, "t2"), Q(c[1], c[2], 2, "t4"), Q(d[1], d[2], 3, "t3") >> \o Plain(ch) :
        a, b, c, d \in Kinds, ch \in {1, 2} }
One == << Q(2, "causal", 1, "t1"), Q(3, "causal", 3, "t2"), Q(2, "retrieval", 2, "t4"), Q(3, "other", 3, "t3") >> \o Plain(2)
TooFew == << Q(2, "causal", 1, "t1"), Q(3, "causal", 3, "t2"), Q(2, "retrieval", 2, "t4") >> \o Plain(2)
MCQuestions == ManyQuestions \cup {One, TooFew}
Texts == {"t1", "t2", "t3", "t4", "r", "g", "h", "quote", "inter", "hop"}
Found(text, version) ==
    CASE text \in {"t2", "t3", "t4"} /\ version = 0 -> << <<2, 1, 0>>, <<3, 1, 0>> >>
      [] text = "t4" -> << <<2, 1, 0>>, <<3, 1, 0>> >>
      [] text = "g" -> << <<1, 2, 0>> >>
      [] OTHER -> << <<1, 1, 1>> >>
MCRanking == [q \in [text : Texts, version : 0..1] |-> Found(q.text, q.version)]
MCCuratedB == << Draft("interleaved", 2, "return_result", "inter", {<<2, 1, 0>>}) >>
MCCuratedC == << Draft("multi_hop_evidence", 1, "return_result", "hop", {<<1, 1, 0>>, <<1, 2, 0>>}) >>
MCQuotable == {<<1, 1, 0>>, <<1, 1, 1>>, <<2, 1, 0>>}
MCClusters == { {}, {{<<2, 1, 0>>, <<3, 1, 0>>}}, {{<<1, 3, 1>>, <<3, 1, 0>>}}, {{<<1, 3, 1>>, <<2, 1, 0>>, <<3, 1, 0>>}} }
MCReviews == {<<"sufficient">>, <<"insufficient">>}
MCQuotaA == [s \in {"vlm_dependent", "visual_plus_context", "direct_visual", "referential"} |-> 1]
              @@ [s \in {"long_range", "interleaved", "context_only"} |-> 0]
MCQuotaC == [s \in {"visual_plus_context", "context_only"} |-> 1]
MCDevQuota == [s \in {"visual_plus_context", "long_range"} |-> 0]
                @@ [s \in {"referential", "vlm_dependent", "direct_visual", "multi_hop_evidence", "context_only", "metadata_only",
                           "unanswerable", "interleaved", "ambiguous_clarification"} |-> 1]

Interchangeable == Permutations(Operators)

Init ==
    /\ CorpusInit /\ SeedingInit /\ VisualInit /\ GoldenInit
    /\ reader \in Readers /\ raw \in CorporaOf[reader]
    /\ \/ reader \in {"seed", "visual"} /\ gold.questions = One /\ clusters = {}
       \/ reader = "golden" /\ gold.questions = One
       \/ reader = "split" /\ gold.questions \in MCQuestions
\* Parts of a file that the reader does not read are left out.
Seen == [r \in {"seed", "visual", "golden", "split"} |->
            CASE r = "seed" -> Contents \cup DOMAIN NextFile
              [] r = "visual" -> Contents \cup {"media"}
              [] r = "golden" -> {"messages", "media"}
              [] r = "split" -> {}]
Built == norm.pc = "idle" /\ disk.made
\* The artifact and golden builders read neither channels, senders nor members,
\* so they wait for the writes of these, which change nothing for them.
Unread == norm.pc \in {"channels", "senders", "members"}
Step ==
    \/ CorpusNext /\ UNCHANGED <<seedVars, visualVars, goldVars, reader>>
       /\ raw' \in CorporaOf[reader] /\ norm'.open \subseteq Seen[reader]
       /\ (reader = "split" => ~Built /\ edits' = 0 /\ crashes' = 0)
    \/ reader = "seed" /\ SeedingNext /\ UNCHANGED <<corpusVars, visualVars, goldVars, reader>>
    \/ reader = "visual" /\ ~Unread /\ VisualNext /\ UNCHANGED <<seedVars, goldVars, reader>>
    \/ reader \in {"golden", "split"} /\ ~Unread /\ GoldenNext /\ UNCHANGED <<seedVars, visualVars, reader>>
       /\ (reader = "split" => Built /\ edits' = 0)

Spec == Init /\ [][Step]_vars

\* A history in which an artifact was mixed up is followed no further:
\* VectorsAreTheirMedia holds in all of it, and no other reader spoils one.
Unmixed == spoiled = {}
Next == Unmixed /\ Step
UnmixedSpec == Init /\ [][Next]_vars
=============================================================================
