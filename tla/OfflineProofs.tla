--------------------------- MODULE OfflineProofs ---------------------------
(***************************************************************************)
(* Theorems about VisualBuild, GoldenData and the operators the split is    *)
(* made of, for any corpora, builds, encoders, interruptions and questions. *)
(***************************************************************************)
EXTENDS VisualBuild, GoldenData, CorpusProofs, OrderFacts, FiniteSetTheorems, SequenceTheorems, TLAPS

-----------------------------------------------------------------------------
(* The visual artifacts.                                                    *)

Whole(manifest) == manifest \notin {NoFile, Torn}
IdsOf(rows) == [i \in DOMAIN rows |-> rows[i].id]

\* One content for each media id.
OneContentEach(rows) ==
    \A i, j \in DOMAIN rows : rows[i].id = rows[j].id => rows[i].of = rows[j].of

VisualShape ==
    /\ DOMAIN art = {"matrix", "index", "clusters", "manifest"}
    /\ DOMAIN ops = Operators
    /\ \A o \in Operators : DOMAIN ops[o] = {"pc", "rows", "enc", "next", "matrix"}

\* What a build has written of its files, another one with the same input has
\* not changed.
OwnFiles ==
    \A o \in Operators :
        /\ OneContentEach(ops[o].rows)
        /\ ops[o].pc \in {"index", "clusters", "manifest"} =>
              art.matrix \in {Torn, Encoded(ops[o].rows, ops[o].enc)}
        /\ ops[o].pc \in {"clusters", "manifest"} => art.index \in {Torn, IdsOf(ops[o].rows)}

\* A manifest says what its matrix was computed from, and the index is of the
\* same rows, unless a build is about to write the manifest of another one.
ManifestTells ==
    Whole(art.manifest) =>
        /\ OneContentEach(art.manifest.input)
        /\ art.manifest.matrix \in {Torn, Encoded(art.manifest.input, art.manifest.version)}
        /\ \/ art.index \in {NoFile, Torn, IdsOf(art.manifest.input)}
           \/ \E o \in Operators : ops[o].pc \in {"clusters", "manifest"}

\* What the import validated.
ValidatedWhole ==
    imp.pc = "load" =>
        LET m == imp.art.manifest
        IN  /\ Whole(m) /\ m.input = imp.rows /\ OneContentEach(imp.rows)
            /\ imp.art.matrix = Encoded(imp.rows, m.version)

ArtifactInv ==
    /\ VisualShape
    /\ spoiled = {} => OwnFiles /\ ManifestTells /\ ValidatedWhole /\ VectorsAreTheirMedia

(* The media rows come from a file that is keyed by the media id.             *)
LEMMA MediaRowsOneContent == OneContentEach(MediaRows)
<1> DEFINE ids == InOrder(DOMAIN disk.media, LexLess)
<1>1. MediaRows = [i \in DOMAIN ids |-> [id |-> ids[i], of |-> disk.media[ids[i]]]]
  BY DEF MediaRows
<1> HIDE DEF ids
<1>2. \A i \in DOMAIN MediaRows : MediaRows[i].of = disk.media[MediaRows[i].id]
  BY <1>1
<1> QED
  BY <1>2 DEF OneContentEach

(* What an operator's step leaves alone.                                    *)
LEMMA OthersRest ==
  ASSUME VisualShape, NEW o \in Operators, NEW build, DOMAIN build = {"pc", "rows", "enc", "next", "matrix"},
         ops' = [ops EXCEPT ![o] = build], DOMAIN art' = DOMAIN art
  PROVE  /\ VisualShape' /\ ops'[o] = build
         /\ \A p \in Operators \ {o} : ops'[p] = ops[p]
BY DEF VisualShape

(* A step that at most cuts files of the artifact short, and takes its build *)
(* to a place where it has written none.                                    *)
LEMMA NothingWritten ==
  ASSUME ArtifactInv, NEW o \in Operators, NEW build, DOMAIN build = {"pc", "rows", "enc", "next", "matrix"},
         ops' = [ops EXCEPT ![o] = build], UNCHANGED <<imp, emb>>, spoiled \subseteq spoiled',
         DOMAIN art' = DOMAIN art,
         art'.matrix \in {art.matrix, Torn}, art'.index \in {art.index, Torn},
         art'.manifest \in {art.manifest, Torn},
         build.rows = ops[o].rows \/ OneContentEach(build.rows),
         build.pc \notin {"index", "clusters", "manifest"},
         \/ ops[o].pc \notin {"clusters", "manifest"}
         \/ spoiled' = {} => ~Whole(art.manifest) \/ art.index = IdsOf(art.manifest.input)
  PROVE  ArtifactInv'
<1>1. /\ VisualShape' /\ ops'[o] = build
      /\ \A p \in Operators \ {o} : ops'[p] = ops[p]
  BY OthersRest DEF ArtifactInv
<1> SUFFICES ASSUME spoiled' = {}
             PROVE  OwnFiles' /\ ManifestTells' /\ ValidatedWhole' /\ VectorsAreTheirMedia'
  BY <1>1 DEF ArtifactInv
<1>2. spoiled = {} /\ OwnFiles /\ ManifestTells /\ ValidatedWhole /\ VectorsAreTheirMedia
  BY DEF ArtifactInv
<1>3. OwnFiles'
  <2> SUFFICES ASSUME NEW p \in Operators
               PROVE  (/\ OneContentEach(ops[p].rows)
                       /\ ops[p].pc \in {"index", "clusters", "manifest"} =>
                            art.matrix \in {Torn, Encoded(ops[p].rows, ops[p].enc)}
                       /\ ops[p].pc \in {"clusters", "manifest"} => art.index \in {Torn, IdsOf(ops[p].rows)})'
    BY DEF OwnFiles
  <2>1. CASE p = o
    BY <1>1, <1>2, <2>1 DEF OwnFiles, OneContentEach
  <2>2. CASE p # o
    BY <1>1, <1>2, <2>2 DEF OwnFiles, OneContentEach, Encoded, IdsOf
  <2> QED
    BY <2>1, <2>2
<1>4. ManifestTells'
  BY <1>1, <1>2 DEF ManifestTells, Whole, OneContentEach, Encoded, IdsOf
<1>5. ValidatedWhole' /\ VectorsAreTheirMedia'
  BY <1>2 DEF ValidatedWhole, Whole, OneContentEach, Encoded, VectorsAreTheirMedia, EmbeddingsNeverStale
<1> QED
  BY <1>3, <1>4, <1>5

(* A step that writes one of the files: what it writes is right for its own *)
(* input, which is everybody's who is writing too.                          *)
LEMMA ArtifactWritten ==
  ASSUME ArtifactInv, NEW o \in Operators, NEW build, DOMAIN build = {"pc", "rows", "enc", "next", "matrix"},
         ops' = [ops EXCEPT ![o] = build], UNCHANGED <<imp, emb>>, DOMAIN art' = DOMAIN art,
         Overlap(o) \subseteq spoiled',
         build.rows = ops[o].rows, build.enc = ops[o].enc,
         spoiled' = {} =>
           /\ art'.matrix \in {art.matrix, Encoded(ops[o].rows, ops[o].enc)}
           /\ art'.index \in {art.index, IdsOf(ops[o].rows)}
           /\ build.pc \in {"index", "clusters", "manifest"} =>
                 art'.matrix \in {Torn, Encoded(ops[o].rows, ops[o].enc)}
           /\ build.pc \in {"clusters", "manifest"} => art'.index \in {Torn, IdsOf(ops[o].rows)}
           /\ ManifestTells'
  PROVE  ArtifactInv'
<1>1. /\ VisualShape' /\ ops'[o] = build
      /\ \A p \in Operators \ {o} : ops'[p] = ops[p]
  BY OthersRest DEF ArtifactInv
<1> SUFFICES ASSUME spoiled' = {}
             PROVE  OwnFiles' /\ ManifestTells' /\ ValidatedWhole' /\ VectorsAreTheirMedia'
  BY <1>1 DEF ArtifactInv
<1>2. spoiled = {} /\ \A p \in Operators \ {o} : ops[p].pc # "idle" => SameInput(o, p)
  BY DEF Overlap
<1>3. OwnFiles /\ ManifestTells /\ ValidatedWhole /\ VectorsAreTheirMedia
  BY <1>2 DEF ArtifactInv
<1>4. OwnFiles'
  <2> SUFFICES ASSUME NEW p \in Operators
               PROVE  (/\ OneContentEach(ops[p].rows)
                       /\ ops[p].pc \in {"index", "clusters", "manifest"} =>
                            art.matrix \in {Torn, Encoded(ops[p].rows, ops[p].enc)}
                       /\ ops[p].pc \in {"clusters", "manifest"} => art.index \in {Torn, IdsOf(ops[p].rows)})'
    BY DEF OwnFiles
  <2>1. CASE p = o
    BY <1>1, <1>3, <2>1 DEF OwnFiles, OneContentEach, Encoded, IdsOf
  <2>2. CASE p # o
    <3>1. ops'[p] = ops[p] /\ OneContentEach(ops[p].rows)
      BY <1>1, <1>3, <2>2 DEF OwnFiles
    <3>2. OneContentEach(ops[p].rows)'
      BY <3>1 DEF OneContentEach
    <3>3. CASE ops[p].pc \in {"index", "clusters", "manifest"}
      <4>1. ops[p].rows = ops[o].rows /\ ops[p].enc = ops[o].enc
        BY <1>2, <2>2, <3>3 DEF SameInput
      <4>2. /\ art.matrix \in {Torn, Encoded(ops[o].rows, ops[o].enc)}
            /\ ops[p].pc \in {"clusters", "manifest"} => art.index \in {Torn, IdsOf(ops[o].rows)}
        BY <1>3, <3>3, <4>1 DEF OwnFiles
      <4>3. /\ art'.matrix \in {Torn, Encoded(ops[o].rows, ops[o].enc)}
            /\ ops[p].pc \in {"clusters", "manifest"} => art'.index \in {Torn, IdsOf(ops[o].rows)}
        BY <4>2
      <4>4. /\ Encoded(ops[p].rows, ops[p].enc)' = Encoded(ops[o].rows, ops[o].enc)
            /\ IdsOf(ops[p].rows)' = IdsOf(ops[o].rows)
        BY <3>1, <4>1 DEF Encoded, IdsOf
      <4> QED
        BY <3>1, <3>2, <4>3, <4>4
    <3>4. CASE ops[p].pc \notin {"index", "clusters", "manifest"}
      BY <3>1, <3>2, <3>4
    <3> QED
      BY <3>3, <3>4
  <2> QED
    BY <2>1, <2>2
<1>5. ValidatedWhole' /\ VectorsAreTheirMedia'
  BY <1>2, <1>3 DEF ValidatedWhole, Whole, OneContentEach, Encoded, VectorsAreTheirMedia, EmbeddingsNeverStale
<1> QED
  BY <1>4, <1>5

(* Every step of a build keeps the invariant of the artifact.                 *)
LEMMA BuildSteps ==
  ASSUME ArtifactInv, NEW o \in Operators, BuildStep(o)
  PROVE  ArtifactInv'
<1>1. /\ DOMAIN ops[o] = {"pc", "rows", "enc", "next", "matrix"} /\ DOMAIN ops = Operators
      /\ DOMAIN Idle = {"pc", "rows", "enc", "next", "matrix"}
      /\ Idle.pc = "idle" /\ Idle.rows = <<>> /\ OneContentEach(Idle.rows)
      /\ DOMAIN art = {"matrix", "index", "clusters", "manifest"}
  BY DEF ArtifactInv, VisualShape, Idle, OneContentEach
<1>2. CASE BeginBuild(o)
  <2> DEFINE build == [Idle EXCEPT !.pc = "batch", !.rows = MediaRows, !.enc = encoder]
  <2>1. /\ DOMAIN build = {"pc", "rows", "enc", "next", "matrix"}
        /\ build.pc = "batch" /\ build.rows = MediaRows
    BY <1>1
  <2>2. /\ ops' = [ops EXCEPT ![o] = build] /\ ops[o].pc = "idle"
        /\ UNCHANGED <<art, imp, emb, spoiled>>
    BY <1>2 DEF BeginBuild, At
  <2> HIDE DEF build
  <2> QED
    BY <2>1, <2>2, MediaRowsOneContent, NothingWritten
<1>3. CASE TakeBatch(o)
  <2>1. /\ ops[o].pc = "batch" /\ UNCHANGED <<art, imp, emb>> /\ spoiled \subseteq spoiled'
    BY <1>3 DEF TakeBatch, At
  <2>2. \/ Fail(o) \/ Goto(o, "encode")
        \/ ops' = [ops EXCEPT ![o].next = ops[o].next + BatchSize]
    BY <1>3 DEF TakeBatch
  <2>3. CASE Fail(o)
    BY <1>1, <2>1, <2>3, NothingWritten DEF Fail
  <2>4. CASE Goto(o, "encode")
    <3> DEFINE build == [ops[o] EXCEPT !.pc = "encode"]
    <3>1. /\ ops' = [ops EXCEPT ![o] = build]
          /\ DOMAIN build = {"pc", "rows", "enc", "next", "matrix"} /\ build.pc = "encode" /\ build.rows = ops[o].rows
      BY <1>1, <2>4 DEF Goto
    <3> HIDE DEF build
    <3> QED
      BY <2>1, <3>1, NothingWritten
  <2>5. CASE ops' = [ops EXCEPT ![o].next = ops[o].next + BatchSize]
    <3> DEFINE build == [ops[o] EXCEPT !.next = ops[o].next + BatchSize]
    <3>1. /\ ops' = [ops EXCEPT ![o] = build]
          /\ DOMAIN build = {"pc", "rows", "enc", "next", "matrix"} /\ build.pc = "batch" /\ build.rows = ops[o].rows
      BY <1>1, <2>1, <2>5
    <3> HIDE DEF build
    <3> QED
      BY <2>1, <3>1, NothingWritten
  <2> QED
    BY <2>2, <2>3, <2>4, <2>5
<1>4. CASE OpenChunk(o)
  <2>1. /\ ops[o].pc = "encode" /\ UNCHANGED <<art, imp, emb, spoiled>>
        /\ Fail(o) \/ Goto(o, "save")
    BY <1>4 DEF OpenChunk, At
  <2>2. CASE Fail(o)
    BY <1>1, <2>1, <2>2, NothingWritten DEF Fail
  <2>3. CASE Goto(o, "save")
    <3> DEFINE build == [ops[o] EXCEPT !.pc = "save"]
    <3>1. /\ ops' = [ops EXCEPT ![o] = build]
          /\ DOMAIN build = {"pc", "rows", "enc", "next", "matrix"} /\ build.pc = "save" /\ build.rows = ops[o].rows
      BY <1>1, <2>3 DEF Goto
    <3> HIDE DEF build
    <3> QED
      BY <2>1, <3>1, NothingWritten
  <2> QED
    BY <2>1, <2>2, <2>3
<1>5. CASE SaveChunk(o)
  <2> DEFINE build == [ops[o] EXCEPT !.pc = "batch", !.next = ops[o].next + BatchSize]
  <2>1. /\ ops[o].pc = "save" /\ UNCHANGED <<art, imp, emb, spoiled>>
        /\ ops' = [ops EXCEPT ![o].pc = "batch", ![o].next = ops[o].next + BatchSize]
    BY <1>5 DEF SaveChunk, At
  <2>2. /\ ops' = [ops EXCEPT ![o] = build]
        /\ DOMAIN build = {"pc", "rows", "enc", "next", "matrix"} /\ build.pc = "batch" /\ build.rows = ops[o].rows
    BY <1>1, <2>1
  <2> HIDE DEF build
  <2> QED
    BY <2>1, <2>2, NothingWritten
<1>6. CASE StackChunks(o)
  <2> DEFINE starts == InOrder(Starts(ops[o].rows), <)
             matrix == FlattenSeq([i \in DOMAIN starts |-> chunks[starts[i]]])
  <2>1. /\ ops[o].pc = "batch" /\ UNCHANGED <<imp, emb>>
        /\ \/ Fail(o) /\ UNCHANGED <<art, spoiled>>
           \/ /\ ops' = [ops EXCEPT ![o].pc = "index", ![o].matrix = matrix]
              /\ art' = [art EXCEPT !.matrix = matrix]
              /\ spoiled' = Overlap(o) \cup (IF matrix = Encoded(ops[o].rows, ops[o].enc) THEN {} ELSE {"chunk"})
    BY <1>6 DEF StackChunks, At
  <2> HIDE DEF matrix, starts
  <2>2. CASE Fail(o) /\ UNCHANGED <<art, spoiled>>
    BY <1>1, <2>1, <2>2, NothingWritten DEF Fail
  <2>3. CASE /\ ops' = [ops EXCEPT ![o].pc = "index", ![o].matrix = matrix]
             /\ art' = [art EXCEPT !.matrix = matrix]
             /\ spoiled' = Overlap(o) \cup (IF matrix = Encoded(ops[o].rows, ops[o].enc) THEN {} ELSE {"chunk"})
    <3> DEFINE build == [ops[o] EXCEPT !.pc = "index", !.matrix = matrix]
    <3>1. /\ ops' = [ops EXCEPT ![o] = build]
          /\ DOMAIN build = {"pc", "rows", "enc", "next", "matrix"}
          /\ build.pc = "index" /\ build.rows = ops[o].rows /\ build.enc = ops[o].enc
      BY <1>1, <2>3
    <3> HIDE DEF build
    <3>2. /\ DOMAIN art' = DOMAIN art /\ art'.matrix = matrix
          /\ art'.index = art.index /\ art'.manifest = art.manifest
      BY <1>1, <2>3
    <3>3. Overlap(o) \subseteq spoiled' /\ (spoiled' = {} => matrix = Encoded(ops[o].rows, ops[o].enc))
      BY <2>3
    <3>4. spoiled' = {} => ManifestTells'
      <4> SUFFICES ASSUME spoiled' = {} PROVE ManifestTells'
        OBVIOUS
      <4>1. ManifestTells
        BY <3>3 DEF ArtifactInv, Overlap
      <4>2. \A p \in Operators : ops[p].pc \in {"clusters", "manifest"} => ops'[p].pc \in {"clusters", "manifest"}
        BY <1>1, <2>1, <3>1
      <4> QED
        BY <3>2, <4>1, <4>2 DEF ManifestTells, Whole, OneContentEach, Encoded, IdsOf
    <3> QED
      BY <2>1, <3>1, <3>2, <3>3, <3>4, ArtifactWritten
  <2> QED
    BY <2>1, <2>2, <2>3
<1>7. CASE WriteIndex(o)
  <2> DEFINE build == [ops[o] EXCEPT !.pc = "clusters"]
  <2>1. /\ ops' = [ops EXCEPT ![o] = build] /\ ops[o].pc = "index"
        /\ DOMAIN build = {"pc", "rows", "enc", "next", "matrix"}
        /\ build.pc = "clusters" /\ build.rows = ops[o].rows /\ build.enc = ops[o].enc
    BY <1>1, <1>7 DEF WriteIndex, Goto, At
  <2> HIDE DEF build
  <2>2. /\ DOMAIN art' = DOMAIN art /\ art'.matrix = art.matrix
        /\ art'.index = IdsOf(ops[o].rows) /\ art'.manifest = art.manifest
    BY <1>1, <1>7 DEF WriteIndex, IdsOf
  <2>3. UNCHANGED <<imp, emb>> /\ spoiled' = Overlap(o)
    BY <1>7 DEF WriteIndex
  <2>4. spoiled' = {} => ManifestTells' /\ art.matrix \in {Torn, Encoded(ops[o].rows, ops[o].enc)}
    <3> SUFFICES ASSUME spoiled' = {} PROVE ManifestTells' /\ art.matrix \in {Torn, Encoded(ops[o].rows, ops[o].enc)}
      OBVIOUS
    <3>1. ManifestTells /\ OwnFiles
      BY <2>3 DEF ArtifactInv, Overlap
    <3>2. ops'[o].pc = "clusters"
      BY <1>1, <2>1
    <3> QED
      BY <2>1, <2>2, <3>1, <3>2 DEF ManifestTells, Whole, OneContentEach, Encoded, OwnFiles
  <2> QED
    BY <2>1, <2>2, <2>3, <2>4, ArtifactWritten
<1>8. CASE WriteClusters(o)
  <2>1. ops[o].pc = "clusters" /\ UNCHANGED <<imp, emb>>
    BY <1>8 DEF WriteClusters, At
  <2>2. CASE Fail(o) /\ spoiled' = LeftIndex /\ UNCHANGED art
    <3>1. spoiled \subseteq spoiled' /\ (spoiled' = {} => ~Whole(art.manifest) \/ art.index = IdsOf(art.manifest.input))
      BY <2>2 DEF LeftIndex, Whole, IdsOf
    <3> QED
      BY <1>1, <2>1, <2>2, <3>1, NothingWritten DEF Fail
  <2>3. CASE /\ Goto(o, "manifest") /\ spoiled' = Overlap(o)
             /\ art' = [art EXCEPT !.clusters = NearDupClusters(ops[o].rows, ops[o].matrix)]
    <3> DEFINE build == [ops[o] EXCEPT !.pc = "manifest"]
    <3>1. /\ ops' = [ops EXCEPT ![o] = build]
          /\ DOMAIN build = {"pc", "rows", "enc", "next", "matrix"}
          /\ build.pc = "manifest" /\ build.rows = ops[o].rows /\ build.enc = ops[o].enc
      BY <1>1, <2>3 DEF Goto
    <3> HIDE DEF build
    <3>2. /\ DOMAIN art' = DOMAIN art /\ art'.matrix = art.matrix
          /\ art'.index = art.index /\ art'.manifest = art.manifest
      BY <1>1, <2>3
    <3>3. spoiled' = {} => /\ ManifestTells' /\ art.matrix \in {Torn, Encoded(ops[o].rows, ops[o].enc)}
                           /\ art.index \in {Torn, IdsOf(ops[o].rows)}
      <4> SUFFICES ASSUME spoiled' = {}
                   PROVE  /\ ManifestTells' /\ art.matrix \in {Torn, Encoded(ops[o].rows, ops[o].enc)}
                          /\ art.index \in {Torn, IdsOf(ops[o].rows)}
        OBVIOUS
      <4>1. ManifestTells /\ OwnFiles
        BY <2>3 DEF ArtifactInv, Overlap
      <4>2. ops'[o].pc = "manifest"
        BY <1>1, <3>1
      <4> QED
        BY <2>1, <3>2, <4>1, <4>2 DEF ManifestTells, Whole, OneContentEach, Encoded, OwnFiles
    <3> QED
      BY <2>1, <2>3, <3>1, <3>2, <3>3, ArtifactWritten
  <2> QED
    BY <1>8, <2>2, <2>3 DEF WriteClusters
<1>9. CASE WriteManifest(o)
  <2> DEFINE build == [ops[o] EXCEPT !.pc = "clean"]
  <2>1. /\ ops' = [ops EXCEPT ![o] = build] /\ ops[o].pc = "manifest"
        /\ DOMAIN build = {"pc", "rows", "enc", "next", "matrix"}
        /\ build.pc = "clean" /\ build.rows = ops[o].rows /\ build.enc = ops[o].enc
    BY <1>1, <1>9 DEF WriteManifest, Goto, At
  <2> HIDE DEF build
  <2>2. /\ DOMAIN art' = DOMAIN art /\ art'.matrix = art.matrix /\ art'.index = art.index
        /\ art'.manifest.input = ops[o].rows /\ art'.manifest.version = ops[o].enc
        /\ art'.manifest.matrix = art.matrix
    BY <1>1, <1>9 DEF WriteManifest
  <2>3. UNCHANGED <<imp, emb>> /\ spoiled' = Overlap(o)
    BY <1>9 DEF WriteManifest
  <2>4. spoiled' = {} => ManifestTells'
    <3> SUFFICES ASSUME spoiled' = {} PROVE ManifestTells'
      OBVIOUS
    <3>1. OwnFiles
      BY <2>3 DEF ArtifactInv, Overlap
    <3>2. /\ OneContentEach(ops[o].rows)
          /\ art.matrix \in {Torn, Encoded(ops[o].rows, ops[o].enc)} /\ art.index \in {Torn, IdsOf(ops[o].rows)}
      BY <2>1, <3>1 DEF OwnFiles
    <3> QED
      BY <2>2, <3>2 DEF ManifestTells, OneContentEach, Encoded, IdsOf
  <2> QED
    BY <2>1, <2>2, <2>3, <2>4, ArtifactWritten
<1>10. CASE RemoveChunks(o)
  <2>1. ops[o].pc = "clean" /\ UNCHANGED <<art, imp, emb, spoiled>> /\ Fail(o)
    BY <1>10 DEF RemoveChunks, At
  <2> QED
    BY <1>1, <2>1, NothingWritten DEF Fail
<1>11. CASE InterruptBuild(o)
  <2>1. Fail(o) /\ UNCHANGED <<imp, emb>>
    BY <1>11 DEF InterruptBuild
  <2>2. /\ DOMAIN art' = DOMAIN art
        /\ art'.matrix \in {art.matrix, Torn} /\ art'.index \in {art.index, Torn}
        /\ art'.manifest \in {art.manifest, Torn}
    BY <1>1, <1>11 DEF InterruptBuild
  <2>3. /\ spoiled \subseteq spoiled'
        /\ \/ ops[o].pc \notin {"clusters", "manifest"}
           \/ spoiled' = {} => ~Whole(art.manifest) \/ art.index = IdsOf(art.manifest.input)
    BY <1>11 DEF InterruptBuild, LeftIndex, Whole, IdsOf, At
  <2> QED
    BY <1>1, <2>1, <2>2, <2>3, NothingWritten DEF Fail
<1> QED
  BY <1>2, <1>3, <1>4, <1>5, <1>6, <1>7, <1>8, <1>9, <1>10, <1>11 DEF BuildStep

(* The import's validation: the manifest is of these rows, and the matrix is *)
(* the one it tells of.                                                     *)
LEMMA Validated ==
  ASSUME ArtifactInv, ValidateArtifact
  PROVE  ArtifactInv'
<1>1. VisualShape' /\ UNCHANGED <<art, ops, emb, spoiled>>
  BY DEF ArtifactInv, VisualShape, ValidateArtifact
<1> SUFFICES ASSUME spoiled = {}
             PROVE  OwnFiles' /\ ManifestTells' /\ ValidatedWhole' /\ VectorsAreTheirMedia'
  BY <1>1 DEF ArtifactInv
<1>2. OwnFiles /\ ManifestTells /\ VectorsAreTheirMedia
  BY DEF ArtifactInv
<1>3. OwnFiles' /\ ManifestTells' /\ VectorsAreTheirMedia'
  BY <1>1, <1>2 DEF OwnFiles, ManifestTells, VectorsAreTheirMedia, EmbeddingsNeverStale, Whole, OneContentEach, Encoded, IdsOf
<1>4. /\ Whole(art.manifest) /\ art.manifest.input = MediaRows
      /\ art.manifest.matrix = art.matrix /\ art.matrix # Torn
      /\ imp'.pc = "load" /\ imp'.art = art /\ imp'.rows = MediaRows
  BY DEF ValidateArtifact, InputMatches, MatrixMatches, Whole
<1>5. art.matrix = Encoded(MediaRows, art.manifest.version)
  BY <1>2, <1>4 DEF ManifestTells
<1>6. ValidatedWhole'
  BY <1>4, <1>5, MediaRowsOneContent DEF ValidatedWhole, Whole, OneContentEach, Encoded
<1> QED
  BY <1>3, <1>6

(* The import: what it reads is what it validated, the index is the          *)
(* manifest's, so every vector is of its own row.                           *)
LEMMA ImportedRight ==
  ASSUME ArtifactInv, ImportEmbeddings
  PROVE  ArtifactInv'
<1>1. VisualShape' /\ UNCHANGED <<art, ops>> /\ spoiled \subseteq spoiled' /\ imp'.pc = "idle"
  BY DEF ArtifactInv, VisualShape, ImportEmbeddings, NoImport
<1> SUFFICES ASSUME spoiled' = {}
             PROVE  OwnFiles' /\ ManifestTells' /\ ValidatedWhole' /\ VectorsAreTheirMedia'
  BY <1>1 DEF ArtifactInv
<1>2. /\ OwnFiles /\ ManifestTells /\ ValidatedWhole /\ VectorsAreTheirMedia
      /\ spoiled = {} /\ art = imp.art /\ \A o \in Operators : ops[o].pc \notin {"clusters", "manifest"}
  BY <1>1 DEF ArtifactInv, ImportEmbeddings
<1>3. OwnFiles' /\ ManifestTells' /\ ValidatedWhole'
  BY <1>1, <1>2 DEF OwnFiles, ManifestTells, ValidatedWhole, Whole, OneContentEach, Encoded, IdsOf
<1>4. CASE ~Fits(imp.art.manifest)
  BY <1>2, <1>3, <1>4 DEF ImportEmbeddings, VectorsAreTheirMedia, EmbeddingsNeverStale
<1>5. CASE Fits(imp.art.manifest)
  <2> DEFINE rows == imp.rows
             version == imp.art.manifest.version
  <2>1. /\ OneContentEach(rows) /\ art.matrix = Encoded(rows, version) /\ art.index = IdsOf(rows)
    <3>1. imp.pc = "load" /\ art.index \notin {NoFile, Torn}
      BY <1>5 DEF ImportEmbeddings, Fits
    <3>2. /\ Whole(art.manifest) /\ art.manifest.input = rows /\ OneContentEach(rows)
          /\ art.matrix = Encoded(rows, version)
      BY <1>2, <3>1 DEF ValidatedWhole
    <3> QED
      BY <1>2, <3>1, <3>2 DEF ManifestTells
  <2>2. \A id \in Range(art.index) :
           Imported(id).media = {Imported(id).vec.of} /\ Imported(id).version = Imported(id).vec.enc
    <3> SUFFICES ASSUME NEW id \in Range(art.index)
                 PROVE  Imported(id).media = {Imported(id).vec.of} /\ Imported(id).version = Imported(id).vec.enc
      OBVIOUS
    <3> DEFINE i == CHOOSE j \in DOMAIN art.index : art.index[j] = id
    <3>1. i \in DOMAIN rows /\ rows[i].id = id
      <4>1. \E j \in DOMAIN art.index : art.index[j] = id
        BY DEF Range
      <4>2. i \in DOMAIN art.index /\ art.index[i] = id
        BY <4>1
      <4> HIDE DEF i
      <4> QED
        BY <2>1, <4>2 DEF IdsOf
    <3>2. /\ Imported(id).vec = art.matrix[i] /\ Imported(id).version = version
          /\ Imported(id).media = {rows[j].of : j \in {k \in DOMAIN rows : rows[k].id = id}}
      BY DEF Imported
    <3> HIDE DEF i, rows, version
    <3>3. art.matrix[i].of = rows[i].of /\ art.matrix[i].enc = version
      BY <2>1, <3>1 DEF Encoded
    <3>4. {rows[j].of : j \in {k \in DOMAIN rows : rows[k].id = id}} = {rows[i].of}
      BY <2>1, <3>1 DEF OneContentEach
    <3> QED
      BY <3>2, <3>3, <3>4
  <2> HIDE DEF rows, version
  <2>3. /\ DOMAIN emb' = DOMAIN emb \cup Range(art.index)
        /\ \A id \in DOMAIN emb' : emb'[id] = IF id \in Range(art.index) THEN Imported(id) ELSE emb[id]
    BY <1>5 DEF ImportEmbeddings
  <2>4. VectorsAreTheirMedia'
    BY <1>2, <2>2, <2>3 DEF VectorsAreTheirMedia, EmbeddingsNeverStale
  <2> QED
    BY <1>3, <2>4
<1> QED
  BY <1>4, <1>5

(* So do the other steps: of the import, of the encoder and of who edits.     *)
LEMMA VisualStep ==
  ASSUME ArtifactInv, BuildOrEmbed
  PROVE  ArtifactInv'
<1>1. CASE UNCHANGED <<art, ops, imp, emb, spoiled>>
  BY <1>1 DEF ArtifactInv, VisualShape, OwnFiles, ManifestTells, ValidatedWhole, VectorsAreTheirMedia, EmbeddingsNeverStale,
              Whole, OneContentEach, Encoded, IdsOf
<1>2. CASE UpgradeEncoder \/ (CorpusNext /\ UNCHANGED visualVars)
  BY <1>1, <1>2 DEF UpgradeEncoder, visualVars
<1> QED
  BY <1>2, Validated, ImportedRight, BuildSteps DEF BuildOrEmbed, VisualNext

(* The invariant of the artifact's files, its builds and its import: what a  *)
(* build has written and what a manifest tells is right, as long as none of  *)
(* the four mix-ups happened.                                               *)
THEOREM ArtifactInductive == VisualSpec => []ArtifactInv
<1>1. VisualInit => ArtifactInv
  BY DEF VisualInit, ArtifactInv, VisualShape, OwnFiles, ManifestTells, ValidatedWhole, VectorsAreTheirMedia, EmbeddingsNeverStale,
         Whole, OneContentEach, Idle, NoImport
<1>2. ArtifactInv /\ [BuildOrEmbed]_offlineVars => ArtifactInv'
  <2> SUFFICES ASSUME ArtifactInv, UNCHANGED offlineVars PROVE ArtifactInv'
    BY VisualStep
  <2> QED
    BY DEF offlineVars, visualVars, ArtifactInv, VisualShape, OwnFiles, ManifestTells, ValidatedWhole,
           VectorsAreTheirMedia, EmbeddingsNeverStale, Whole, OneContentEach, Encoded, IdsOf
<1> QED
  BY <1>1, <1>2, PTL DEF VisualSpec

(* Whatever builds are begun, overlap or are interrupted, whatever media     *)
(* changes and whatever encoder is installed: an imported vector is of the   *)
(* content its media row had, by the encoder it is stored under, unless one  *)
(* of the four mix-ups happened.                                            *)
THEOREM EmbeddingsAreTheirMedia == VisualSpec => []VectorsAreTheirMedia
<1>1. ArtifactInv => VectorsAreTheirMedia
  BY DEF ArtifactInv, VectorsAreTheirMedia, EmbeddingsNeverStale
<1> QED
  BY <1>1, ArtifactInductive, PTL

-----------------------------------------------------------------------------
(* The golden dataset.                                                      *)

RowFields == {"stratum", "group", "action", "evidence", "query", "split", "control", "hash", "outcome"}

\* A row as Row makes it.
AsMade(r) ==
    /\ DOMAIN r = RowFields /\ DOMAIN r.query = {"text", "version"}
    /\ r.hash = Hashed(r) /\ r.control = FALSE

AllMade(rows) == \A i \in DOMAIN rows : AsMade(rows[i])

\* From the split to the release.
SplitStages == {"gate", "judge", "done"}

\* The gate finds the rows as the split left them; what it hands on is
\* accounted for; and a dialogue stays in one split.
GateInv ==
    /\ {"pc", "rows", "read"} \subseteq DOMAIN gold
    /\ gold.pc = "gate" => AllMade(gold.rows)
    /\ gold.pc \in SplitStages => Together(gold.rows)
    /\ gold.pc \in {"judge", "done"} => Accounted(gold.rows, gold.read)

(* The split makes every row anew, by its dialogue alone.                     *)
LEMMA RowsAreMade ==
  ASSUME NEW rows, NEW dev
  PROVE  AllMade(Assigned(rows, dev)) /\ Together(Assigned(rows, dev))
<1> DEFINE split(i) == IF rows[i].group \in UNION dev THEN "dev" ELSE "test"
           row(i) == Row(split(i), rows[i].stratum, rows[i].group, rows[i].action, rows[i].query.text, rows[i].evidence)
<1>1. DOMAIN Assigned(rows, dev) = DOMAIN rows /\ \A i \in DOMAIN rows : Assigned(rows, dev)[i] = row(i)
  BY DEF Assigned
<1>2. ASSUME NEW i \in DOMAIN rows
      PROVE  AsMade(row(i)) /\ row(i).group = rows[i].group /\ row(i).split = split(i)
  <2> HIDE DEF split
  <2> QED
    BY DEF Row, AsMade, RowFields, Hashed
<1> HIDE DEF row
<1>3. AllMade(Assigned(rows, dev))
  BY <1>1, <1>2 DEF AllMade
<1>4. Together(Assigned(rows, dev))
  BY <1>1, <1>2 DEF Together
<1> QED
  BY <1>3, <1>4

(* What becomes of one row at the gate.                                     *)
LEMMA GatedRow ==
  ASSUME NEW r, AsMade(r), NEW ids
  PROVE  LET g == Gated(r, ids)
         IN  /\ DOMAIN g = RowFields
             /\ g.stratum = r.stratum /\ g.action = r.action /\ g.group = r.group /\ g.split = r.split
             /\ g.hash = Hashed(g) /\ g.outcome \in {"clean", "rewritten", "unrewritable"}
             /\ Leaks(g, ids) => g.outcome = "unrewritable"
             /\ g.outcome = "unrewritable" =>
                    Leaks(g, ids) /\ (g.query.text \notin Rewritable \/ Leaks(Rewritten(g), ids))
<1> DEFINE g == Gated(r, ids)
           w == Rewritten(r)
<1>1. /\ DOMAIN r = RowFields /\ DOMAIN r.query = {"text", "version"} /\ r.hash = Hashed(r)
  BY DEF AsMade
<1>2. CASE ~Leaks(r, ids)
  <2>1. g = [r EXCEPT !.outcome = "clean"]
    BY <1>2 DEF Gated
  <2>2. /\ DOMAIN g = RowFields /\ g.outcome = "clean"
        /\ g.stratum = r.stratum /\ g.action = r.action /\ g.group = r.group /\ g.split = r.split
        /\ g.hash = r.hash /\ g.query = r.query /\ g.control = r.control /\ g.evidence = r.evidence
    BY <1>1, <2>1 DEF RowFields
  <2> HIDE DEF g
  <2>3. Hashed(g) = Hashed(r) /\ (Leaks(g, ids) <=> Leaks(r, ids))
    BY <2>2 DEF Hashed, Leaks
  <2> QED
    BY <1>1, <1>2, <2>2, <2>3 DEF g
<1>3. CASE Leaks(r, ids) /\ (w = r \/ Leaks(w, ids))
  <2>1. g = [r EXCEPT !.outcome = "unrewritable"]
    BY <1>3 DEF Gated
  <2>2. /\ DOMAIN g = RowFields /\ g.outcome = "unrewritable"
        /\ g.stratum = r.stratum /\ g.action = r.action /\ g.group = r.group /\ g.split = r.split
        /\ g.hash = r.hash /\ g.query = r.query /\ g.control = r.control /\ g.evidence = r.evidence
    BY <1>1, <2>1 DEF RowFields
  <2> HIDE DEF g
  <2>3. Hashed(g) = Hashed(r) /\ (Leaks(g, ids) <=> Leaks(r, ids))
    BY <2>2 DEF Hashed, Leaks
  <2>4. Leaks(Rewritten(g), ids) <=> Leaks(w, ids)
    <3>1. /\ Rewritten(g).query = w.query /\ Rewritten(g).evidence = w.evidence
      BY <1>1, <2>2 DEF Rewritten, RowFields
    <3> QED
      BY <3>1 DEF Leaks
  <2> QED
    BY <1>1, <1>3, <2>2, <2>3, <2>4 DEF g
<1>4. CASE Leaks(r, ids) /\ w # r /\ ~Leaks(w, ids)
  <2>1. g = [w EXCEPT !.hash = Hashed(w), !.outcome = "rewritten"]
    BY <1>4 DEF Gated
  <2>2. /\ DOMAIN w = RowFields
        /\ w.stratum = r.stratum /\ w.action = r.action /\ w.group = r.group /\ w.split = r.split
    BY <1>1 DEF Rewritten, RowFields
  <2> HIDE DEF w
  <2>3. /\ DOMAIN g = RowFields /\ g.outcome = "rewritten"
        /\ g.stratum = r.stratum /\ g.action = r.action /\ g.group = r.group /\ g.split = r.split
        /\ g.hash = Hashed(w) /\ g.query = w.query /\ g.control = w.control /\ g.evidence = w.evidence
    BY <2>1, <2>2 DEF RowFields
  <2> HIDE DEF g
  <2>4. Hashed(g) = Hashed(w) /\ (Leaks(g, ids) <=> Leaks(w, ids))
    BY <2>2, <2>3 DEF Hashed, Leaks
  <2> QED
    BY <1>4, <2>3, <2>4 DEF g
<1> QED
  BY <1>2, <1>3, <1>4

(* The gate keeps every row in its stratum, its dialogue and its split.      *)
LEMMA GatedRowsKeep ==
  ASSUME NEW rows, AllMade(rows), NEW ids
  PROVE  LET out == GatedRows(rows, ids)
         IN  /\ out = [i \in DOMAIN rows |-> out[i]]
             /\ \A i \in DOMAIN rows :
                   /\ out[i].stratum = rows[i].stratum /\ out[i].action = rows[i].action
                   /\ out[i].group = rows[i].group /\ out[i].split = rows[i].split
<1> DEFINE out == GatedRows(rows, ids)
<1>1. /\ out = [i \in DOMAIN rows |-> out[i]]
      /\ \A i \in DOMAIN rows :
            out[i] = IF i \notin Answerable(rows) THEN rows[i]
                     ELSE IF i \in Control(rows) THEN [rows[i] EXCEPT !.control = TRUE, !.outcome = "control"]
                     ELSE Gated(rows[i], ids)
  BY DEF GatedRows
<1> HIDE DEF out
<1>2. ASSUME NEW i \in DOMAIN rows
      PROVE  /\ out[i].stratum = rows[i].stratum /\ out[i].action = rows[i].action
             /\ out[i].group = rows[i].group /\ out[i].split = rows[i].split
  <2>1. AsMade(rows[i])
    BY DEF AllMade
  <2>2. CASE out[i] = rows[i]
    BY <2>2
  <2>3. CASE out[i] = [rows[i] EXCEPT !.control = TRUE, !.outcome = "control"]
    BY <2>1, <2>3 DEF AsMade, RowFields
  <2>4. CASE out[i] = Gated(rows[i], ids)
    BY <2>1, <2>4, GatedRow
  <2> QED
    BY <1>1, <2>2, <2>3, <2>4
<1> QED
  BY <1>1, <1>2 DEF out

(* What the gate hands on is accounted for.                                   *)
LEMMA GateStep ==
  ASSUME GateInv, AntiLeakGate
  PROVE  GateInv'
<1> DEFINE rows == gold.rows
           ids == Messages
           out == GatedRows(rows, ids)
           ok == ids # {} /\ ~TooLeaky(out, ids) /\ ~Saturated(out, ids)
<1>1. /\ gold.pc = "gate" /\ {"pc", "rows", "read"} \subseteq DOMAIN gold
      /\ AllMade(rows) /\ Together(rows)
  BY DEF AntiLeakGate, GateInv, SplitStages
<1>2. gold' = [gold EXCEPT !.pc = IF ok THEN "judge" ELSE "refused",
                           !.rows = IF ok THEN out ELSE rows, !.read = ids]
  BY DEF AntiLeakGate
<1> HIDE DEF rows, ids, out, ok
<1>3. /\ {"pc", "rows", "read"} \subseteq DOMAIN gold'
      /\ gold'.pc = (IF ok THEN "judge" ELSE "refused")
      /\ gold'.rows = (IF ok THEN out ELSE rows) /\ gold'.read = ids
  BY <1>1, <1>2
<1>4. CASE ~ok
  BY <1>3, <1>4 DEF GateInv, SplitStages
<1>5. CASE ok
  <2>1. gold'.pc = "judge" /\ gold'.rows = out /\ ~TooLeaky(out, ids)
    BY <1>3, <1>5 DEF ok
  <2>2. /\ DOMAIN out = DOMAIN rows
        /\ \A i \in DOMAIN rows :
              out[i] = IF i \notin Answerable(rows) THEN rows[i]
                       ELSE IF i \in Control(rows) THEN [rows[i] EXCEPT !.control = TRUE, !.outcome = "control"]
                       ELSE Gated(rows[i], ids)
    BY DEF out, GatedRows
  <2>3. ASSUME NEW i \in DOMAIN rows, i \in Answerable(rows), i \in Control(rows)
        PROVE  /\ out[i].action = rows[i].action /\ out[i].group = rows[i].group /\ out[i].split = rows[i].split
               /\ out[i].outcome = "control" /\ out[i].hash # Hashed(out[i])
    <3>1. /\ DOMAIN rows[i] = RowFields /\ rows[i].hash.control = FALSE
      <4>1. DOMAIN rows[i] = RowFields /\ rows[i].hash = Hashed(rows[i]) /\ rows[i].control = FALSE
        BY <1>1, Zenon DEF AllMade, AsMade
      <4>2. Hashed(rows[i]).control = rows[i].control
        BY DEF Hashed
      <4> QED
        BY <4>1, <4>2, Zenon
    <3>2. out[i] = [rows[i] EXCEPT !.control = TRUE, !.outcome = "control"]
      BY <2>2, <2>3
    <3>3. /\ out[i].action = rows[i].action /\ out[i].group = rows[i].group /\ out[i].split = rows[i].split
          /\ out[i].outcome = "control" /\ out[i].hash = rows[i].hash /\ out[i].control = TRUE
      BY <3>1, <3>2 DEF RowFields
    <3>4. Hashed(out[i]).control = TRUE
      BY <3>3 DEF Hashed
    <3> QED
      BY <3>1, <3>3, <3>4
  <2>4. \A i \in DOMAIN rows :
           out[i].action = rows[i].action /\ out[i].group = rows[i].group /\ out[i].split = rows[i].split
    BY <1>1, GatedRowsKeep DEF out
  <2>5. Answerable(out) = Answerable(rows)
    BY <2>2, <2>4 DEF Answerable
  <2>6. Together(out)
    <3>1. \A i, j \in DOMAIN rows : rows[i].group = rows[j].group => rows[i].split = rows[j].split
      BY <1>1 DEF Together
    <3>2. \A i \in DOMAIN rows : out[i].group = rows[i].group /\ out[i].split = rows[i].split
      BY <2>4
    <3>3. ASSUME NEW i \in DOMAIN out, NEW j \in DOMAIN out, out[i].group = out[j].group
          PROVE  out[i].split = out[j].split
      <4>1. i \in DOMAIN rows /\ j \in DOMAIN rows
        BY <2>2
      <4>2. rows[i].group = rows[j].group
        BY <3>2, <3>3, <4>1
      <4> QED
        BY <3>1, <3>2, <4>1, <4>2
    <3> QED
      BY <3>3 DEF Together
  <2>7. ASSUME NEW i \in Answerable(out)
        PROVE  /\ Leaks(out[i], ids) => out[i].outcome \in {"control", "unrewritable"}
               /\ out[i].outcome = "unrewritable" =>
                      Leaks(out[i], ids) /\ (out[i].query.text \notin Rewritable \/ Leaks(Rewritten(out[i]), ids))
               /\ (out[i].hash = Hashed(out[i])) = (out[i].outcome # "control")
    <3>1. i \in DOMAIN rows /\ i \in Answerable(rows)
      BY <2>5 DEF Answerable
    <3>2. CASE i \in Control(rows)
      BY <2>3, <3>1, <3>2
    <3>3. CASE i \notin Control(rows)
      <4>1. out[i] = Gated(rows[i], ids) /\ AsMade(rows[i])
        BY <1>1, <2>2, <3>1, <3>3 DEF AllMade
      <4> QED
        BY <4>1, GatedRow
    <3> QED
      BY <3>2, <3>3
  <2>8. Accounted(out, ids)
    BY <2>1, <2>7 DEF Accounted
  <2> QED
    BY <1>3, <2>1, <2>6, <2>8 DEF GateInv
<1> QED
  BY <1>4, <1>5

(* Every step keeps the invariant of the gate.                                *)
LEMMA LabelStep ==
  ASSUME GateInv, BuildOrLabel
  PROVE  GateInv'
<1>1. CASE gold' = gold
  BY <1>1 DEF GateInv
<1>2. CASE ReplaceClusters \/ (CorpusNext /\ UNCHANGED goldVars)
  BY <1>1, <1>2 DEF ReplaceClusters, goldVars
<1>3. CASE BuildTierA \/ BuildTierB \/ BuildTierC
  <2>1. /\ {"pc", "rows", "read"} \subseteq DOMAIN gold'
        /\ gold'.pc \in {"refused", "tier_b", "tier_c", "split"}
    BY <1>3 DEF BuildTierA, BuildTierB, BuildTierC, Pass, Refuse, GateInv
  <2> QED
    BY <2>1 DEF GateInv, SplitStages
<1>4. CASE AssignSplits
  <2>1. PICK order \in Orders(SplitComponents(gold.rows, clusters)) :
           LET found == Search(gold.rows, order)
           IN  gold' = [gold EXCEPT !.file = clusters,
                                    !.pc = IF found = {} THEN "infeasible" ELSE "gate",
                                    !.rows = IF found = {} THEN @ ELSE Assigned(@, CHOOSE dev \in found : TRUE)]
    BY <1>4 DEF AssignSplits
  <2> DEFINE found == Search(gold.rows, order)
             dev == CHOOSE d \in found : TRUE
             rows == Assigned(gold.rows, dev)
  <2>2. gold' = [gold EXCEPT !.file = clusters, !.pc = IF found = {} THEN "infeasible" ELSE "gate",
                             !.rows = IF found = {} THEN gold.rows ELSE rows]
    BY <2>1
  <2> HIDE DEF found, dev
  <2>3. AllMade(rows) /\ Together(rows)
    BY RowsAreMade
  <2> HIDE DEF rows
  <2>4. /\ {"pc", "rows", "read"} \subseteq DOMAIN gold'
        /\ gold'.pc \in {"infeasible", "gate"} /\ (gold'.pc = "gate" => gold'.rows = rows)
    BY <2>2 DEF GateInv
  <2> QED
    BY <2>3, <2>4 DEF GateInv, SplitStages
<1>5. CASE AntiLeakGate
  BY <1>5, GateStep
<1>6. CASE JudgeMultiHop
  <2>1. \/ gold' = [gold EXCEPT !.pc = "done", !.rows = gold.rows] /\ gold.pc = "judge"
        \/ gold' = [gold EXCEPT !.pc = "refused"]
    BY <1>6 DEF JudgeMultiHop, Pass, Refuse
  <2>2. \/ /\ gold'.pc = "done" /\ gold.pc = "judge"
           /\ gold'.rows = gold.rows /\ gold'.read = gold.read
        \/ gold'.pc = "refused"
    BY <2>1 DEF GateInv
  <2>3. {"pc", "rows", "read"} \subseteq DOMAIN gold'
    BY <2>1 DEF GateInv
  <2> QED
    BY <2>2, <2>3 DEF GateInv, SplitStages
<1> QED
  BY <1>2, <1>3, <1>4, <1>5, <1>6 DEF BuildOrLabel, GoldenNext

(* The invariant of the gate.                                               *)
THEOREM GateInductive == GoldenSpec => []GateInv
<1>1. GoldenInit => GateInv
  BY DEF GoldenInit, GateInv, SplitStages
<1>2. GateInv /\ [BuildOrLabel]_datasetVars => GateInv'
  <2> SUFFICES ASSUME GateInv, UNCHANGED datasetVars PROVE GateInv'
    BY LabelStep
  <2> QED
    BY DEF datasetVars, goldVars, GateInv
<1> QED
  BY <1>1, <1>2, PTL DEF GoldenSpec

(* Whatever the questions, the rankings and the corpus of the moment: of     *)
(* what the gate releases, the queries that still find their own evidence    *)
(* are controls or could not be rewritten and are few, and only the controls *)
(* have an output_hash that is not of what they hold.                       *)
THEOREM GateAccountsForLeaks == GoldenSpec => []GateAccounts
<1>1. GateInv => GateAccounts
  BY DEF GateInv, GateAccounts
<1> QED
  BY <1>1, GateInductive, PTL

(* No dialogue has rows in both splits, from the split to the release.       *)
THEOREM DialoguesStayTogether == GoldenSpec => [](gold.pc \in SplitStages => Together(gold.rows))
<1>1. GateInv => (gold.pc \in SplitStages => Together(gold.rows))
  BY DEF GateInv
<1> QED
  BY <1>1, GateInductive, PTL

-----------------------------------------------------------------------------
(* Sums over a finite domain, and quotas that are just met.                 *)

Summing(iter, f) ==
    iter = [s \in SUBSET DOMAIN f |-> IF s = {} THEN 0
                ELSE f[CHOOSE x \in s : TRUE] + iter[s \ {CHOOSE x \in s : TRUE}]]

\* The sum of the values of f is the last of the partial sums.
LEMMA SumIsFold ==
  ASSUME NEW D, IsFiniteSet(D), NEW f \in [D -> Nat]
  PROVE  \E iter : /\ Summing(iter, f) /\ SumFunction(f) = iter[D]
                   /\ \A s \in SUBSET D : iter[s] \in Nat
<1> DEFINE pick == [s \in SUBSET D |-> CHOOSE x \in s : TRUE]
           step == [s \in SUBSET D |-> [v \in Nat |-> f[pick[s]] + v]]
           within == [s \in SUBSET D |-> Nat]
           sum == CHOOSE iter : Summing(iter, f)
<1>1. Picks(pick, D)
  BY DEF Picks
<1>2. ASSUME NEW s \in SUBSET D, s # {}, NEW v \in within[s \ {pick[s]}]
      PROVE  v \in Nat /\ step[s][v] = f[pick[s]] + v /\ step[s][v] \in within[s]
  <2>1. pick[s] \in D /\ v \in Nat
    BY <1>1, <1>2 DEF Picks
  <2>2. f[pick[s]] \in Nat
    BY <2>1
  <2> HIDE DEF pick
  <2> QED
    BY <2>1, <2>2
<1>3. 0 \in within[{}]
  OBVIOUS
<1>4. PICK iter : Folding(iter, D, pick, 0, step) /\ \A s \in SUBSET D : iter[s] \in within[s]
  <2> HIDE DEF pick, step, within
  <2> QED
    BY <1>1, <1>2, <1>3, FoldWithin
<1>5. Summing(iter, f)
  <2>1. DOMAIN f = D /\ \A s \in SUBSET D : s \ {pick[s]} \in SUBSET D
    OBVIOUS
  <2>2. \A s \in SUBSET D : s # {} => step[s][iter[s \ {pick[s]}]] = f[pick[s]] + iter[s \ {pick[s]}]
    <3> HIDE DEF pick, step, within
    <3> QED
      BY <1>2, <1>4, <2>1
  <2>3. iter = [s \in SUBSET D |-> IF s = {} THEN 0 ELSE f[pick[s]] + iter[s \ {pick[s]}]]
    <3> HIDE DEF pick, step, within
    <3> QED
      BY <1>4, <2>2 DEF Folding
  <2>4. \A s \in SUBSET D : pick[s] = CHOOSE x \in s : TRUE
    OBVIOUS
  <2> HIDE DEF pick
  <2> QED
    BY <2>1, <2>3, <2>4 DEF Summing
<1>6. Summing(sum, f)
  BY <1>5
<1>7. SumFunction(f) = sum[D]
  BY DEF SumFunction, SumFunctionOnSet, FoldFunctionOnSet, MapThenFoldSet, Summing
<1> HIDE DEF sum
<1>8. \A s \in SUBSET D : sum[s] \in Nat
  <2> DEFINE G == {s \in SUBSET D : sum[s] \in Nat}
  <2>1. {} \in G
    BY <1>6 DEF Summing
  <2>2. ASSUME NEW s \in SUBSET D, s # {}, s \ {pick[s]} \in G PROVE s \in G
    <3>1. pick[s] = (CHOOSE x \in s : TRUE) /\ pick[s] \in D
      BY <1>1, <2>2 DEF Picks
    <3> HIDE DEF pick
    <3>2. sum[s] = f[pick[s]] + sum[s \ {pick[s]}]
      BY <1>6, <2>2, <3>1 DEF Summing
    <3> QED
      BY <2>2, <3>1, <3>2
  <2> HIDE DEF G, pick
  <2>3. SUBSET D \subseteq G
    BY <1>1, <2>1, <2>2, PickInduction
  <2> QED
    BY <2>3 DEF G
<1> QED
  BY <1>6, <1>7, <1>8

\* The sums of two functions, one summand after the other.
LEMMA SumStepByStep ==
  ASSUME NEW D, IsFiniteSet(D), NEW f \in [D -> Nat], NEW g \in [D -> Nat],
         NEW R, <<0, 0, {}>> \in R,
         \A a, b \in Nat : \A s \in SUBSET D : \A x \in D \ s :
             <<a, b, s>> \in R => <<f[x] + a, g[x] + b, s \cup {x}>> \in R
  PROVE  <<SumFunction(f), SumFunction(g), D>> \in R
<1>1. PICK a : Summing(a, f) /\ SumFunction(f) = a[D] /\ \A s \in SUBSET D : a[s] \in Nat
  BY SumIsFold
<1>2. PICK b : Summing(b, g) /\ SumFunction(g) = b[D] /\ \A s \in SUBSET D : b[s] \in Nat
  BY SumIsFold
<1> DEFINE pick == [s \in SUBSET D |-> CHOOSE x \in s : TRUE]
           G == {s \in SUBSET D : <<a[s], b[s], s>> \in R}
<1>3. Picks(pick, D)
  BY DEF Picks
<1>4. {} \in G
  BY <1>1, <1>2 DEF Summing
<1>5. ASSUME NEW s \in SUBSET D, s # {}, s \ {pick[s]} \in G PROVE s \in G
  <2>1. pick[s] = (CHOOSE x \in s : TRUE) /\ pick[s] \in s
    BY <1>3, <1>5 DEF Picks
  <2> HIDE DEF pick
  <2>2. a[s] = f[pick[s]] + a[s \ {pick[s]}] /\ b[s] = g[pick[s]] + b[s \ {pick[s]}]
    BY <1>1, <1>2, <1>5, <2>1 DEF Summing
  <2>3. /\ s \ {pick[s]} \in SUBSET D /\ pick[s] \in D \ (s \ {pick[s]})
        /\ (s \ {pick[s]}) \cup {pick[s]} = s
    BY <2>1
  <2>4. <<a[s \ {pick[s]}], b[s \ {pick[s]}], s \ {pick[s]}>> \in R
    BY <1>5
  <2>5. <<f[pick[s]] + a[s \ {pick[s]}], g[pick[s]] + b[s \ {pick[s]}], (s \ {pick[s]}) \cup {pick[s]}>> \in R
    BY <1>1, <1>2, <2>3, <2>4
  <2> QED
    BY <2>2, <2>3, <2>5
<1>6. SUBSET D \subseteq G
  <2> HIDE DEF G, pick
  <2> QED
    BY <1>3, <1>4, <1>5, PickInduction
<1> QED
  BY <1>1, <1>2, <1>6

\* Quotas that are not exceeded and whose sum is reached are met.
LEMMA SumsCompare ==
  ASSUME NEW D, IsFiniteSet(D), NEW f \in [D -> Nat], NEW g \in [D -> Nat],
         \A x \in D : f[x] <= g[x]
  PROVE  /\ SumFunction(f) \in Nat /\ SumFunction(g) \in Nat
         /\ SumFunction(f) = SumFunction(g) => f = g
<1> DEFINE R == {t \in Nat \X Nat \X SUBSET D : t[1] <= t[2] /\ (t[1] = t[2] => \A x \in t[3] : f[x] = g[x])}
<1>1. <<0, 0, {}>> \in R
  OBVIOUS
<1>2. ASSUME NEW a \in Nat, NEW b \in Nat, NEW s \in SUBSET D, NEW x \in D \ s, <<a, b, s>> \in R
      PROVE  <<f[x] + a, g[x] + b, s \cup {x}>> \in R
  <2>1. f[x] \in Nat /\ g[x] \in Nat /\ f[x] <= g[x] /\ a <= b
    BY <1>2
  <2>2. f[x] + a = g[x] + b => f[x] = g[x] /\ a = b
    BY <2>1
  <2> QED
    BY <1>2, <2>1, <2>2
<1> HIDE DEF R
<1>3. <<SumFunction(f), SumFunction(g), D>> \in R
  BY <1>1, <1>2, SumStepByStep
<1> QED
  BY <1>3 DEF R

\* One more in one place is one more in the sum.
OneMore(f, g, y, D) == \A x \in D : g[x] = IF x = y THEN f[x] + 1 ELSE f[x]

LEMMA SumAddOne ==
  ASSUME NEW D, IsFiniteSet(D), NEW f \in [D -> Nat], NEW g \in [D -> Nat], NEW y \in D,
         OneMore(f, g, y, D)
  PROVE  SumFunction(g) = SumFunction(f) + 1
<1> DEFINE R == {t \in Nat \X Nat \X SUBSET D : t[2] = t[1] + (IF y \in t[3] THEN 1 ELSE 0)}
<1>1. <<0, 0, {}>> \in R
  OBVIOUS
<1>2. ASSUME NEW a \in Nat, NEW b \in Nat, NEW s \in SUBSET D, NEW x \in D \ s, <<a, b, s>> \in R
      PROVE  <<f[x] + a, g[x] + b, s \cup {x}>> \in R
  <2>1. f[x] \in Nat /\ g[x] = (IF x = y THEN f[x] + 1 ELSE f[x]) /\ b = a + (IF y \in s THEN 1 ELSE 0)
    BY <1>2 DEF OneMore
  <2>2. g[x] + b = (f[x] + a) + (IF y \in s \cup {x} THEN 1 ELSE 0)
    BY <2>1
  <2> QED
    BY <2>1, <2>2
<1> HIDE DEF R
<1>3. <<SumFunction(f), SumFunction(g), D>> \in R
  BY <1>1, <1>2, SumStepByStep
<1> QED
  BY <1>3 DEF R

\* Nothing adds up to nothing.
LEMMA SumOfZeros ==
  ASSUME NEW D, IsFiniteSet(D), NEW f \in [D -> Nat], \A x \in D : f[x] = 0
  PROVE  SumFunction(f) = 0
<1> DEFINE R == {t \in Nat \X Nat \X SUBSET D : t[1] = 0}
<1>1. <<0, 0, {}>> \in R
  OBVIOUS
<1>2. ASSUME NEW a \in Nat, NEW b \in Nat, NEW s \in SUBSET D, NEW x \in D \ s, <<a, b, s>> \in R
      PROVE  <<f[x] + a, f[x] + b, s \cup {x}>> \in R
  BY <1>2
<1> HIDE DEF R
<1>3. <<SumFunction(f), SumFunction(f), D>> \in R
  BY <1>1, <1>2, SumStepByStep
<1> QED
  BY <1>3 DEF R

-----------------------------------------------------------------------------
(* The disjoint sets.  A forest has a root r for each element and a height  *)
(* h that falls on the way to it.                                           *)

Forest(p, r, h, E) ==
    /\ p \in [E -> E] /\ r \in [E -> E] /\ h \in [E -> Nat]
    /\ \A x \in E : p[r[x]] = r[x]
    /\ \A x \in E : p[x] = x => r[x] = x
    /\ \A x \in E : p[x] # x => r[x] = r[p[x]] /\ h[p[x]] < h[x]

Forests(E) == {p \in [E -> E] : \E r \in [E -> E], h \in [E -> Nat] : Forest(p, r, h, E)}

\* find is well defined on a forest: a root's root is itself, and every other
\* element has the root of its parent.
LEMMA RootsAreRoots ==
  ASSUME NEW E, NEW p, NEW r, NEW h, Forest(p, r, h, E)
  PROVE  Roots(p) = r
<1> DEFINE Follows(g) == g = [x \in DOMAIN p |-> IF p[x] = x THEN x ELSE g[p[x]]]
           root == CHOOSE g : Follows(g)
           bad == {h[x] : x \in {y \in E : root[y] # r[y]}}
<1>1. DOMAIN p = E /\ r = [x \in E |-> r[x]]
  BY DEF Forest
<1>2. \A x \in E : r[x] = IF p[x] = x THEN x ELSE r[p[x]]
  BY DEF Forest
<1>3. Follows(r)
  BY <1>1, <1>2
<1>4. Follows(root)
  <2> HIDE DEF Follows
  <2> QED
    BY <1>3
<1>5. Roots(p) = root
  BY DEF Roots
<1> HIDE DEF root
<1>6. \A x \in E : root[x] = r[x]
  <2> SUFFICES ASSUME bad # {} PROVE FALSE
    OBVIOUS
  <2>1. bad \in SUBSET Nat
    BY DEF Forest
  <2>2. PICK m \in bad : \A n \in bad : m <= n
    <3> HIDE DEF bad
    <3> QED
      BY <2>1, LeastNat
  <2>3. PICK x \in E : root[x] # r[x] /\ m = h[x]
    BY <2>2
  <2>4. p[x] # x
    BY <1>1, <1>2, <1>4, <2>3
  <2>5. p[x] \in E /\ h[p[x]] < h[x] /\ h[x] \in Nat /\ h[p[x]] \in Nat
    BY <2>3, <2>4 DEF Forest
  <2>6. root[p[x]] # r[p[x]]
    BY <1>1, <1>2, <1>4, <2>3, <2>4
  <2>7. h[x] <= h[p[x]]
    BY <2>2, <2>3, <2>5, <2>6
  <2> QED
    BY <2>5, <2>7
<1>7. root = [x \in E |-> root[x]]
  BY <1>1, <1>4
<1> QED
  BY <1>1, <1>5, <1>6, <1>7

\* One root is put under another one.
Under(p, r, y, x, q, s, E) ==
    /\ x \in E /\ y \in E /\ x # y /\ p[x] = x /\ p[y] = y
    /\ q \in [E -> E] /\ \A z \in E : q[z] = IF z = y THEN x ELSE p[z]
    /\ s \in [E -> E] /\ \A z \in E : s[z] = IF r[z] = y THEN x ELSE r[z]

\* union: every element under the one root is now under the other.
LEMMA RootUnderRoot ==
  ASSUME NEW E, NEW p, NEW r, NEW h, Forest(p, r, h, E),
         NEW x, NEW y, NEW q, NEW s, Under(p, r, y, x, q, s, E)
  PROVE  \E k : Forest(q, s, k, E)
<1> DEFINE k == [z \in E |-> IF r[z] = y THEN h[z] + h[x] + 1 ELSE h[z]]
<1> USE DEF Forest, Under
<1>1. k \in [E -> Nat]
  <2>1. \A z \in E : h[z] \in Nat /\ h[z] + h[x] + 1 \in Nat
    OBVIOUS
  <2> QED
    BY <2>1
<1>2. r[x] = x /\ r[y] = y /\ \A z \in E : q[z] = IF z = y THEN x ELSE p[z]
  OBVIOUS
<1>3. ASSUME NEW z \in E PROVE q[s[z]] = s[z]
  <2>1. p[r[z]] = r[z] /\ r[z] \in E
    OBVIOUS
  <2> QED
    BY <1>2, <2>1
<1>4. ASSUME NEW z \in E, q[z] = z PROVE s[z] = z
  BY <1>2, <1>4
<1>5. ASSUME NEW z \in E, q[z] # z PROVE s[z] = s[q[z]] /\ k[q[z]] < k[z]
  <2>1. CASE z = y
    <3>1. q[z] = x /\ s[z] = x /\ s[x] = x /\ k[x] = h[x] /\ k[z] = h[z] + h[x] + 1
      BY <1>2, <2>1
    <3>2. h[x] \in Nat /\ h[z] \in Nat
      OBVIOUS
    <3> QED
      BY <3>1, <3>2
  <2>2. CASE z # y
    <3>1. q[z] = p[z] /\ p[z] \in E /\ p[z] # z
      BY <1>2, <1>5, <2>2
    <3>2. r[z] = r[p[z]] /\ h[p[z]] < h[z] /\ h[z] \in Nat /\ h[p[z]] \in Nat /\ h[x] \in Nat
      BY <3>1
    <3>3. s[z] = s[p[z]]
      BY <3>1, <3>2
    <3>4. k[p[z]] < k[z]
      BY <3>1, <3>2
    <3> QED
      BY <3>1, <3>3, <3>4
  <2> QED
    BY <2>1, <2>2
<1> HIDE DEF k
<1>6. Forest(q, s, k, E)
  BY <1>1, <1>3, <1>4, <1>5
<1> QED
  BY <1>6

\* No root is on the other side of U than its element.
Beside(root, U, E) == \A z \in E : root[z] \in U <=> z \in U

\* union: the two ends get one root, and what had one root keeps one; a set
\* that has both ends or neither is not mixed with the rest.
LEMMA JoinsEnds ==
  ASSUME NEW E, NEW p \in Forests(E), NEW e \in E \X E, NEW U, e[1] \in U <=> e[2] \in U
  PROVE  /\ Join(e, p) \in Forests(E)
         /\ Roots(Join(e, p))[e[1]] = Roots(Join(e, p))[e[2]]
         /\ \A a, b \in E : Roots(p)[a] = Roots(p)[b] => Roots(Join(e, p))[a] = Roots(Join(e, p))[b]
         /\ Beside(Roots(p), U, E) => Beside(Roots(Join(e, p)), U, E)
<1>1. PICK r \in [E -> E], h \in [E -> Nat] : Forest(p, r, h, E)
  BY DEF Forests
<1>2. Roots(p) = r
  BY <1>1, RootsAreRoots
<1> DEFINE x == r[e[1]]
           y == r[e[2]]
           q == Join(e, p)
<1>3. x \in E /\ y \in E /\ p[x] = x /\ p[y] = y
  BY <1>1 DEF Forest
<1>4. q = [p EXCEPT ![y] = x] \/ q = [p EXCEPT ![x] = y]
  BY <1>2 DEF Join
<1>5. CASE x = y
  <2>1. q = p
    BY <1>1, <1>3, <1>4, <1>5 DEF Forest
  <2> QED
    BY <1>2, <1>5, <2>1
<1>6. CASE x # y
  <2>1. PICK a \in {x, y}, b \in {x, y} : a # b /\ q = [p EXCEPT ![b] = a]
    BY <1>4, <1>6
  <2> DEFINE s == [z \in E |-> IF r[z] = b THEN a ELSE r[z]]
  <2>2. a \in E /\ b \in E /\ p[a] = a /\ p[b] = b
    BY <1>3, <2>1
  <2>8. s \in [E -> E] /\ \A z \in E : s[z] = IF r[z] = b THEN a ELSE r[z]
    BY <1>1, <2>2
  <2> HIDE DEF x, y, q
  <2>3. PICK k : Forest(q, s, k, E)
    <3> HIDE DEF s
    <3> QED
      <4>1. q \in [E -> E] /\ \A z \in E : q[z] = IF z = b THEN a ELSE p[z]
        BY <1>1, <2>1, <2>2 DEF Forest
      <4>2. Under(p, r, b, a, q, s, E)
        BY <2>1, <2>2, <2>8, <4>1 DEF Under
      <4> QED
        BY <1>1, <4>2, RootUnderRoot
  <2>4. Roots(q) = s
    BY <2>3, RootsAreRoots
  <2>5. q \in Forests(E)
    BY <2>3 DEF Forest, Forests
  <2>6. s[e[1]] = s[e[2]]
    BY <1>6, <2>1 DEF x, y
  <2>7. \A c, d \in E : r[c] = r[d] => s[c] = s[d]
    OBVIOUS
  <2>9. Beside(r, U, E) => Beside(s, U, E)
    <3>1. ASSUME Beside(r, U, E) PROVE a \in U <=> b \in U
      BY <1>6, <2>1, <3>1 DEF x, y, Beside
    <3> QED
      BY <2>8, <3>1 DEF Beside
  <2> QED
    BY <1>2, <2>4, <2>5, <2>6, <2>7, <2>9 DEF q
<1> QED
  BY <1>5, <1>6

\* All unions: the ends of every edge have one root.
Joined(E, edges) == FoldSet(Join, [e \in E |-> e], edges)

\* After all the unions the ends of every edge have one root, and a set that
\* no edge leaves is not mixed with the rest.
LEMMA AllJoined ==
  ASSUME NEW E, NEW edges \in SUBSET (E \X E), IsFiniteSet(edges),
         NEW U, \A e \in edges : e[1] \in U <=> e[2] \in U
  PROVE  /\ Joined(E, edges) \in Forests(E)
         /\ \A e \in edges : Roots(Joined(E, edges))[e[1]] = Roots(Joined(E, edges))[e[2]]
         /\ Beside(Roots(Joined(E, edges)), U, E)
<1> DEFINE pick == [s \in SUBSET edges |-> CHOOSE x \in s : TRUE]
           step == [s \in SUBSET edges |-> [v \in Forests(E) |-> Join(pick[s], v)]]
           within == [s \in SUBSET edges |-> 
                        {v \in Forests(E) : /\ \A e \in s : Roots(v)[e[1]] = Roots(v)[e[2]]
                                            /\ Beside(Roots(v), U, E)}]
           base == [e \in E |-> e]
           Folds(iter) == iter = [s \in SUBSET edges |-> IF s = {} THEN base
                                     ELSE Join(CHOOSE x \in s : TRUE, iter[s \ {CHOOSE x \in s : TRUE}])]
           chosen == CHOOSE iter : Folds(iter)
<1>1. Picks(pick, edges)
  BY DEF Picks
<1>2. base \in within[{}]
  <2>1. Forest(base, base, [e \in E |-> 0], E)
    BY DEF Forest
  <2>2. base \in Forests(E)
    BY <2>1 DEF Forests
  <2>3. Roots(base) = base
    <3> HIDE DEF base
    <3> QED
      BY <2>1, RootsAreRoots
  <2>4. Beside(Roots(base), U, E)
    BY <2>3 DEF Beside
  <2> QED
    BY <2>2, <2>4
<1>3. ASSUME NEW s \in SUBSET edges, s # {}, NEW v \in within[s \ {pick[s]}]
      PROVE  v \in Forests(E) /\ Join(pick[s], v) \in within[s]
  <2>1. /\ pick[s] \in s /\ pick[s] \in E \X E /\ s \ {pick[s]} \in SUBSET edges
    BY <1>1, <1>3 DEF Picks
  <2> HIDE DEF pick
  <2>2. /\ v \in Forests(E)
        /\ \A e \in s \ {pick[s]} : Roots(v)[e[1]] = Roots(v)[e[2]]
        /\ Beside(Roots(v), U, E)
    BY <2>1
  <2>3. /\ Join(pick[s], v) \in Forests(E)
        /\ Roots(Join(pick[s], v))[pick[s][1]] = Roots(Join(pick[s], v))[pick[s][2]]
        /\ \A a, b \in E : Roots(v)[a] = Roots(v)[b] => Roots(Join(pick[s], v))[a] = Roots(Join(pick[s], v))[b]
        /\ Beside(Roots(Join(pick[s], v)), U, E)
    BY <2>1, <2>2, JoinsEnds
  <2>4. ASSUME NEW e \in s PROVE Roots(Join(pick[s], v))[e[1]] = Roots(Join(pick[s], v))[e[2]]
    <3>1. e[1] \in E /\ e[2] \in E
      OBVIOUS
    <3> QED
      BY <2>2, <2>3, <3>1
  <2> QED
    BY <2>2, <2>3, <2>4
<1>4. \A s \in SUBSET edges : s # {} => \A v \in within[s \ {pick[s]}] : step[s][v] = Join(pick[s], v)
  <2> HIDE DEF pick, within
  <2> QED
    BY <1>3
<1>5. PICK iter : Folding(iter, edges, pick, base, step) /\ \A s \in SUBSET edges : iter[s] \in within[s]
  <2> HIDE DEF pick, step, within, base
  <2>1. \A s \in SUBSET edges : s # {} => \A v \in within[s \ {pick[s]}] : step[s][v] \in within[s]
    BY <1>3, <1>4
  <2> QED
    BY <1>1, <1>2, <2>1, FoldWithin
<1>6. Folds(iter)
  <2>1. \A s \in SUBSET edges : s \ {pick[s]} \in SUBSET edges /\ pick[s] = CHOOSE x \in s : TRUE
    OBVIOUS
  <2>3. \A s \in SUBSET edges : s # {} => step[s][iter[s \ {pick[s]}]] = Join(pick[s], iter[s \ {pick[s]}])
    <3> HIDE DEF pick, step, within, base
    <3>1. \A s \in SUBSET edges : s # {} => iter[s \ {pick[s]}] \in within[s \ {pick[s]}]
      BY <1>5, <2>1
    <3> QED
      BY <1>4, <3>1
  <2>2. iter = [s \in SUBSET edges |-> IF s = {} THEN base ELSE Join(pick[s], iter[s \ {pick[s]}])]
    <3> HIDE DEF pick, step, within, base
    <3> QED
      BY <1>5, <2>3 DEF Folding
  <2> HIDE DEF pick, base
  <2> QED
    BY <2>1, <2>2
<1>7. Folds(chosen)
  <2> HIDE DEF Folds
  <2> QED
    BY <1>6
<1>8. Joined(E, edges) = chosen[edges]
  BY DEF Joined, FoldSet, MapThenFoldSet
<1> HIDE DEF chosen
<1>9. edges \in {s \in SUBSET edges : chosen[s] \in within[s]}
  <2> DEFINE G == {s \in SUBSET edges : chosen[s] \in within[s]}
  <2>1. {} \in G
    BY <1>2, <1>7
  <2>2. ASSUME NEW s \in SUBSET edges, s # {}, s \ {pick[s]} \in G PROVE s \in G
    <3>1. pick[s] = (CHOOSE x \in s : TRUE)
      BY <2>2
    <3>2. chosen[s] = Join(pick[s], chosen[s \ {pick[s]}])
      <4> HIDE DEF pick, within
      <4> QED
        BY <1>7, <2>2, <3>1
    <3> HIDE DEF pick, within
    <3> QED
      BY <1>3, <2>2, <3>2
  <2> HIDE DEF G, pick
  <2>3. SUBSET edges \subseteq G
    BY <1>1, <2>1, <2>2, PickInduction
  <2> QED
    BY <2>3 DEF G
<1> QED
  BY <1>8, <1>9

(* The union-find of the split (builder.py) and of the near duplicates, for   *)
(* any finite set and any edges: the components are a partition of the        *)
(* elements; no component holds one end of an edge without the other; and no  *)
(* component is larger than the edges demand: a set of elements that no edge  *)
(* leaves has all of a component or nothing of it.                            *)
THEOREM ComponentsJoin ==
  ASSUME NEW E, IsFiniteSet(E), NEW edges, \A e \in edges : e = <<e[1], e[2]>>
  PROVE  /\ IsFiniteSet(Components(E, edges)) /\ UNION Components(E, edges) = E
         /\ \A c, d \in Components(E, edges) : c \cap d = {} \/ c = d
         /\ \A a, b \in E : <<a, b>> \in edges =>
               \A c \in Components(E, edges) : a \in c <=> b \in c
         /\ \A U \in SUBSET E : (\A a, b \in E : <<a, b>> \in edges => (a \in U <=> b \in U)) =>
               \A c \in Components(E, edges) : c \subseteq U \/ c \cap U = {}
<1> DEFINE known == {e \in edges : e[1] \in E /\ e[2] \in E}
           root == Roots(Joined(E, known))
           of(r) == {e \in E : root[e] = r}
<1>1. known \in SUBSET (E \X E) /\ IsFiniteSet(known)
  <2>1. known \in SUBSET (E \X E)
    OBVIOUS
  <2>2. IsFiniteSet(E \X E)
    BY FS_Product
  <2> HIDE DEF known
  <2> QED
    BY <2>1, <2>2, FS_Subset
<1>2. PICK r \in [E -> E], h \in [E -> Nat] : Forest(Joined(E, known), r, h, E)
  <2>1. Joined(E, known) \in Forests(E)
    BY <1>1, AllJoined
  <2> QED
    BY <2>1 DEF Forests
<1>3. root = r
  BY <1>2, RootsAreRoots
<1>4. ASSUME NEW U, \A e \in known : e[1] \in U <=> e[2] \in U
      PROVE  (\A e \in known : root[e[1]] = root[e[2]]) /\ Beside(root, U, E)
  <2> HIDE DEF known
  <2> QED
    BY <1>1, <1>4, AllJoined
<1>5. Components(E, edges) = {of(x) : x \in Range(root)}
  BY DEF Components, Joined
<1> HIDE DEF root
<1>6. ASSUME NEW a \in E, NEW b \in E, <<a, b>> \in edges, NEW c \in Components(E, edges)
      PROVE  a \in c <=> b \in c
  <2>1. root[a] = root[b]
    <3>1. \A e \in known : e[1] \in E <=> e[2] \in E
      OBVIOUS
    <3>2. <<a, b>> \in known /\ <<a, b>>[1] = a /\ <<a, b>>[2] = b
      BY <1>6
    <3> HIDE DEF known
    <3> QED
      BY <1>4, <3>1, <3>2
  <2>2. PICK x \in Range(root) : c = of(x)
    BY <1>5
  <2> QED
    BY <2>1, <2>2
<1>7. IsFiniteSet(Components(E, edges))
  <2> DEFINE f == [a \in E |-> of(root[a])]
             C == {of(x) : x \in Range(root)}
  <2>1. Range(root) = {root[a] : a \in E}
    BY <1>3 DEF Range
  <2>2. f \in Surjection(E, C)
    <3> HIDE DEF of
    <3>1. f \in [E -> C]
      BY <2>1
    <3>2. \A c \in C : \E a \in E : f[a] = c
      BY <2>1
    <3> QED
      BY <3>1, <3>2 DEF Surjection
  <2> HIDE DEF f, C
  <2>3. IsFiniteSet(C)
    BY <2>2, FS_Surjection
  <2> QED
    BY <1>5, <2>3 DEF C
<1>8. UNION Components(E, edges) = E /\ \A c, d \in Components(E, edges) : c \cap d = {} \/ c = d
  <2>1. Range(root) = {root[a] : a \in E}
    BY <1>3 DEF Range
  <2>2. UNION {of(x) : x \in Range(root)} = E
    BY <2>1
  <2>3. \A x, y \in Range(root) : of(x) \cap of(y) = {} \/ of(x) = of(y)
    OBVIOUS
  <2> HIDE DEF of
  <2> QED
    BY <1>5, <2>2, <2>3
<1>9. ASSUME NEW U \in SUBSET E, \A a, b \in E : <<a, b>> \in edges => (a \in U <=> b \in U),
             NEW c \in Components(E, edges)
      PROVE  c \subseteq U \/ c \cap U = {}
  <2>1. \A e \in known : e[1] \in U <=> e[2] \in U
    BY <1>9
  <2>2. Beside(root, U, E)
    <3> HIDE DEF known
    <3> QED
      BY <1>4, <2>1
  <2>3. PICK x \in Range(root) : c = of(x)
    BY <1>5
  <2> QED
    BY <2>2, <2>3 DEF Beside
<1> QED
  BY <1>6, <1>7, <1>8, <1>9

-----------------------------------------------------------------------------
(* The tiers.                                                               *)

Strata == DOMAIN QuotaA
Counts(rows) == [s \in Strata |-> Cardinality(RowsOf(rows, s))]
IsSeq(s) == s \in Seq(Range(s))

\* What is assumed of the quotas of tier A.
LEMMA QuotaTypes ==
  /\ Strata = {"vlm_dependent", "visual_plus_context", "direct_visual", "long_range",
               "referential", "interleaved", "context_only"}
  /\ IsFiniteSet(Strata)
  /\ QuotaA \in [Strata -> Nat]
  /\ SumFunction(QuotaA) = TierACount
<1>1. /\ Strata = {"vlm_dependent", "visual_plus_context", "direct_visual", "long_range",
                   "referential", "interleaved", "context_only"}
      /\ QuotaA \in [Strata -> Nat]
      /\ SumFunction(QuotaA) = TierACount
  BY GoldenAssumption DEF Strata
<1>2. IsFiniteSet(Strata)
  <2>1. Strata = (((((({} \cup {"vlm_dependent"}) \cup {"visual_plus_context"}) \cup {"direct_visual"}) \cup {"long_range"})
                      \cup {"referential"}) \cup {"interleaved"}) \cup {"context_only"}
    BY <1>1
  <2>2. \A S, x : IsFiniteSet(S) => IsFiniteSet(S \cup {x})
    BY FS_AddElement
  <2>3. IsFiniteSet({})
    BY FS_EmptySet
  <2> QED
    BY <2>1, <2>2, <2>3
<1> QED
  BY <1>1, <1>2

\* The greatest place of a set of places is one of them; so is the least.
LEMMA MaxOfPart ==
  ASSUME NEW n \in Nat
  PROVE  \A s \in SUBSET (1..n) : s # {} => Max(s) \in s
<1> SUFFICES ASSUME NEW s \in SUBSET (1..n), s # {} PROVE \E x \in s : \A y \in s : x >= y
  BY DEF Max
<1> DEFINE T == {n - x : x \in s}
<1>1. T \in SUBSET Nat /\ T # {}
  <2>1. \A x \in s : n - x \in Nat
    OBVIOUS
  <2> QED
    BY <2>1
<1>2. PICK m \in T : \A k \in T : m <= k
  <2> HIDE DEF T
  <2> QED
    BY <1>1, LeastNat
<1>3. PICK x \in s : m = n - x
  BY <1>2
<1>4. ASSUME NEW y \in s PROVE x >= y
  <2>1. m <= n - y
    BY <1>2
  <2> QED
    BY <1>3, <2>1
<1> QED
  BY <1>4

LEMMA MinOfPart ==
  ASSUME NEW s \in SUBSET Nat, s # {}
  PROVE  Min(s) \in s
BY LeastNat DEF Min

\* A row more in a stratum.
LEMMA CountOneMore ==
  ASSUME NEW R, NEW rows \in Seq(R), NEW r, r.stratum \in Strata
  PROVE  /\ Counts(rows) \in [Strata -> Nat]
         /\ Counts(Append(rows, r)) = [Counts(rows) EXCEPT ![r.stratum] = @ + 1]
<1> DEFINE n == Len(rows)
           more == Append(rows, r)
<1>1. n \in Nat /\ DOMAIN rows = 1..n /\ DOMAIN more = 1..(n + 1)
      /\ more[n + 1] = r /\ \A i \in 1..n : more[i] = rows[i]
  OBVIOUS
<1>2. IsFiniteSet(1..n)
  BY <1>1, FS_Interval
<1>3. ASSUME NEW s \in Strata
      PROVE  /\ IsFiniteSet(RowsOf(rows, s)) /\ Cardinality(RowsOf(rows, s)) \in Nat
             /\ n + 1 \notin RowsOf(rows, s)
  <2>1. RowsOf(rows, s) \in SUBSET (1..n)
    BY <1>1 DEF RowsOf
  <2>2. n + 1 \notin 1..n
    BY <1>1
  <2> QED
    BY <1>2, <2>1, <2>2, FS_Subset, FS_CardinalityType
<1> HIDE DEF n, more
<1>4. ASSUME NEW s \in Strata
      PROVE  Cardinality(RowsOf(more, s)) = Cardinality(RowsOf(rows, s)) + (IF s = r.stratum THEN 1 ELSE 0)
  <2>1. CASE s = r.stratum
    <3>1. RowsOf(more, s) = RowsOf(rows, s) \cup {n + 1}
      BY <1>1, <2>1 DEF RowsOf
    <3> QED
      BY <1>3, <2>1, <3>1, FS_AddElement
  <2>2. CASE s # r.stratum
    <3>1. RowsOf(more, s) = RowsOf(rows, s)
      BY <1>1, <2>2 DEF RowsOf
    <3> QED
      BY <1>3, <2>2, <3>1
  <2> QED
    BY <2>1, <2>2
<1>5. Counts(rows) \in [Strata -> Nat]
  BY <1>3 DEF Counts
<1>6. Counts(more) = [Counts(rows) EXCEPT ![r.stratum] = @ + 1]
  BY <1>3, <1>4 DEF Counts
<1> QED
  BY <1>5, <1>6 DEF more

\* The wishes name strata; the last six are everybody's.
LEMMA WishedStrata ==
  ASSUME NEW q, NEW top
  PROVE  LET w == Wishes(q, top)
         IN  /\ DOMAIN w = 1..12
             /\ \A k \in 1..12 : w[k][2] \in Strata
             /\ \A s \in Strata \ {"vlm_dependent"} : \E k \in 1..12 : w[k][1] /\ w[k][2] = s
<1> DEFINE w == Wishes(q, top)
<1>1. DOMAIN w = 1..12
  BY DEF Wishes
<1>2. /\ w[1][2] = "vlm_dependent" /\ w[2][2] = "visual_plus_context" /\ w[3][2] = "direct_visual"
      /\ w[4][2] = "long_range" /\ w[5][2] = "referential" /\ w[6][2] = "interleaved"
      /\ w[7] = <<TRUE, "context_only">> /\ w[8] = <<TRUE, "visual_plus_context">>
      /\ w[9] = <<TRUE, "direct_visual">> /\ w[10] = <<TRUE, "long_range">>
      /\ w[11] = <<TRUE, "referential">> /\ w[12] = <<TRUE, "interleaved">>
  BY DEF Wishes
<1> HIDE DEF w
<1>3. \A k \in 1..12 : w[k][2] \in Strata
  <2>1. \A k \in 1..12 : k \in {1, 2, 3, 4, 5, 6, 7, 8, 9, 10, 11, 12}
    OBVIOUS
  <2> QED
    BY <1>2, <2>1, QuotaTypes
<1>4. \A s \in Strata \ {"vlm_dependent"} : \E k \in 1..12 : w[k][1] /\ w[k][2] = s
  <2>1. /\ w[7][1] /\ w[7][2] = "context_only" /\ w[8][1] /\ w[8][2] = "visual_plus_context"
        /\ w[9][1] /\ w[9][2] = "direct_visual" /\ w[10][1] /\ w[10][2] = "long_range"
        /\ w[11][1] /\ w[11][2] = "referential" /\ w[12][1] /\ w[12][2] = "interleaved"
    BY <1>2
  <2>2. \A s \in Strata \ {"vlm_dependent"} :
           \E k \in {7, 8, 9, 10, 11, 12} : w[k][1] /\ w[k][2] = s
    BY <2>1, QuotaTypes
  <2>3. {7, 8, 9, 10, 11, 12} \subseteq 1..12
    OBVIOUS
  <2> QED
    BY <2>2, <2>3
<1> QED
  BY <1>1, <1>3, <1>4 DEF w

\* As long as the quotas are not used up, the stratum of a question has room.
LEMMA StratumHasRoom ==
  ASSUME NEW rows, Counts(rows) \in [Strata -> Nat],
         \A s \in Strata : Counts(rows)[s] <= QuotaA[s],
         SumFunction(Counts(rows)) # TierACount, NEW q, NEW top
  PROVE  Stratum(q, top, rows) \in Strata
         /\ Counts(rows)[Stratum(q, top, rows)] < QuotaA[Stratum(q, top, rows)]
<1> DEFINE w == Wishes(q, top)
           room == {k \in DOMAIN w : w[k][1] /\ Cardinality(RowsOf(rows, w[k][2])) < QuotaA[w[k][2]]}
<1>1. Stratum(q, top, rows) = IF room = {} THEN "vlm_dependent" ELSE w[Min(room)][2]
  BY DEF Stratum
<1>2. \A s \in Strata : Counts(rows)[s] = Cardinality(RowsOf(rows, s))
  BY DEF Counts
<1>3. /\ DOMAIN w = 1..12
      /\ \A k \in 1..12 : w[k][2] \in Strata
      /\ \A s \in Strata \ {"vlm_dependent"} : \E k \in 1..12 : w[k][1] /\ w[k][2] = s
  BY WishedStrata
<1> HIDE DEF w
<1>4. CASE room # {}
  <2>1. room \in SUBSET Nat
    BY <1>3
  <2>2. Min(room) \in room
    <3> HIDE DEF room
    <3> QED
      BY <1>4, <2>1, MinOfPart
  <2>3. Stratum(q, top, rows) = w[Min(room)][2]
    BY <1>1, <1>4
  <2>4. Min(room) \in 1..12 /\ Cardinality(RowsOf(rows, w[Min(room)][2])) < QuotaA[w[Min(room)][2]]
    BY <1>3, <2>2
  <2>5. w[Min(room)][2] \in Strata
    BY <1>3, <2>4
  <2> HIDE DEF room
  <2> QED
    BY <1>2, <2>3, <2>4, <2>5
<1>5. CASE room = {}
  <2>1. \A s \in Strata \ {"vlm_dependent"} : ~(Counts(rows)[s] < QuotaA[s])
    BY <1>2, <1>3, <1>5
  <2>2. QuotaA \in [Strata -> Nat]
    BY QuotaTypes
  <2>3. "vlm_dependent" \in Strata
    BY QuotaTypes
  <2>4. ASSUME ~(Counts(rows)["vlm_dependent"] < QuotaA["vlm_dependent"]) PROVE FALSE
    <3>1. \A s \in Strata : Counts(rows)[s] = QuotaA[s]
      <4> SUFFICES ASSUME NEW s \in Strata PROVE Counts(rows)[s] = QuotaA[s]
        OBVIOUS
      <4>1. Counts(rows)[s] \in Nat /\ QuotaA[s] \in Nat /\ Counts(rows)[s] <= QuotaA[s]
        BY <2>2
      <4>2. ~(Counts(rows)[s] < QuotaA[s])
        BY <2>1, <2>4
      <4> QED
        BY <4>1, <4>2
    <3>2. Counts(rows) = QuotaA
      BY <2>2, <3>1
    <3> QED
      BY <3>2, QuotaTypes
  <2> QED
    BY <1>1, <1>5, <2>3, <2>4
<1> QED
  BY <1>4, <1>5

\* Tier A, as the fold it is.
LabelA(qs, rows, i) ==
    Draft(Stratum(qs[i], i \in TopScored(qs, QuotaA["vlm_dependent"]), rows), qs[i].ch,
          "return_result", qs[i].text, SessionEvidence(qs[i]))
LabellingA(iter, qs) ==
    iter = [s \in SUBSET DOMAIN [i \in DOMAIN qs |-> i] |->
               IF s = {} THEN <<>>
               ELSE Append(iter[s \ {Max(s)}],
                           LabelA(qs, iter[s \ {Max(s)}], [i \in DOMAIN qs |-> i][Max(s)]))]

\* FoldLeft takes the questions by their places, the last place outermost.
LEMMA TierAIsFold ==
  ASSUME NEW qs
  PROVE  TierA(qs) = (CHOOSE iter : LabellingA(iter, qs))[DOMAIN [i \in DOMAIN qs |-> i]]
BY DEF TierA, FoldLeft, MapThenFoldSet, LabellingA, LabelA

\* No quota is exceeded on the way, and every question has its row.
QuotasKept(rows, n) ==
    /\ Len(rows) = n
    /\ \A s \in Strata : Counts(rows)[s] <= QuotaA[s]
    /\ SumFunction(Counts(rows)) = n

\* One question more: its row goes to a stratum that has room.
LEMMA LabelKeepsQuotas ==
  ASSUME NEW R, NEW rows \in Seq(R), NEW n \in Nat, QuotasKept(rows, n), n # TierACount,
         NEW qs, NEW i
  PROVE  /\ LabelA(qs, rows, i).stratum \in Strata
         /\ QuotasKept(Append(rows, LabelA(qs, rows, i)), n + 1)
<1> DEFINE top == i \in TopScored(qs, QuotaA["vlm_dependent"])
           st == Stratum(qs[i], top, rows)
           r == LabelA(qs, rows, i)
<1>1. /\ Counts(rows) \in [Strata -> Nat]
      /\ \A d : d.stratum \in Strata => Counts(Append(rows, d)) = [Counts(rows) EXCEPT ![d.stratum] = @ + 1]
  <2>1. Counts(rows) \in [Strata -> Nat]
    <3>1. \A s \in Strata : Cardinality(RowsOf(rows, s)) \in Nat
      <4>1. Len(rows) \in Nat /\ DOMAIN rows = 1..Len(rows)
        OBVIOUS
      <4>2. IsFiniteSet(1..Len(rows))
        BY <4>1, FS_Interval
      <4>3. \A s : RowsOf(rows, s) \in SUBSET (1..Len(rows))
        BY <4>1 DEF RowsOf
      <4> QED
        BY <4>2, <4>3, FS_Subset, FS_CardinalityType
    <3> QED
      BY <3>1 DEF Counts
  <2> QED
    BY <2>1, CountOneMore
<1>2. st \in Strata /\ Counts(rows)[st] < QuotaA[st]
  <2> HIDE DEF top
  <2> QED
    BY <1>1, StratumHasRoom DEF QuotasKept
<1>3. r.stratum = st
  BY DEF LabelA, Draft, Row
<1>4. Counts(Append(rows, r)) = [Counts(rows) EXCEPT ![st] = @ + 1]
  BY <1>1, <1>2, <1>3
<1> HIDE DEF r, st
<1>5. Len(Append(rows, r)) = n + 1
  BY DEF QuotasKept
<1>6. \A s \in Strata : Counts(Append(rows, r))[s] <= QuotaA[s]
  <2>1. \A s \in Strata : QuotaA[s] \in Nat /\ Counts(rows)[s] \in Nat /\ Counts(rows)[s] <= QuotaA[s]
    BY <1>1, QuotaTypes DEF QuotasKept
  <2> QED
    BY <1>1, <1>2, <1>4, <2>1
<1>7. SumFunction(Counts(Append(rows, r))) = n + 1
  <2>1. IsFiniteSet(Strata) /\ Counts(rows) \in [Strata -> Nat] /\ st \in Strata
    BY <1>1, <1>2, QuotaTypes
  <2>2. SumFunction(Counts(Append(rows, r))) = SumFunction(Counts(rows)) + 1
    <3> DEFINE f == Counts(rows)
               g == Counts(Append(rows, r))
    <3>1. g \in [Strata -> Nat] /\ OneMore(f, g, st, Strata)
      BY <1>4, <2>1 DEF OneMore
    <3>2. IsFiniteSet(Strata) /\ f \in [Strata -> Nat] /\ st \in Strata
      BY <2>1
    <3> HIDE DEF f, g
    <3>3. SumFunction(g) = SumFunction(f) + 1
      BY <3>1, <3>2, SumAddOne
    <3> QED
      BY <3>3 DEF f, g
  <2> QED
    BY <2>2 DEF QuotasKept
<1> QED
  BY <1>2, <1>3, <1>5, <1>6, <1>7 DEF QuotasKept, r

\* Nothing is labelled at first.
LEMMA NoRowsYet == QuotasKept(<<>>, 0)
<1>1. \A s \in Strata : Counts(<<>>)[s] = 0
  <2>1. \A s : RowsOf(<<>>, s) = {}
    BY DEF RowsOf
  <2> QED
    BY <2>1, FS_EmptySet DEF Counts
<1>2. Counts(<<>>) \in [Strata -> Nat]
  <2>1. Counts(<<>>) = [s \in Strata |-> Counts(<<>>)[s]]
    BY DEF Counts
  <2> QED
    BY <1>1, <2>1
<1>3. SumFunction(Counts(<<>>)) = 0
  BY <1>1, <1>2, SumOfZeros, QuotaTypes
<1>4. \A s \in Strata : 0 <= QuotaA[s]
  BY QuotaTypes
<1> QED
  BY <1>1, <1>3, <1>4 DEF QuotasKept

\* So it is for all the questions of tier A.
LEMMA TierAKeepsQuotas ==
  ASSUME NEW qs, TierACount \in Nat, DOMAIN qs = 1..TierACount
  PROVE  (\E R : TierA(qs) \in Seq(R)) /\ QuotasKept(TierA(qs), TierACount)
<1> DEFINE N == TierACount
           S == 1..N
           idx == [i \in DOMAIN qs |-> i]
           R == {Draft(st, qs[i].ch, "return_result", qs[i].text, SessionEvidence(qs[i])) : st \in Strata, i \in S}
           pick == [s \in SUBSET S |-> Max(s)]
           step == [s \in SUBSET S |-> [v \in Seq(R) |-> Append(v, LabelA(qs, v, Max(s)))]]
           within == [s \in SUBSET S |-> {v \in Seq(R) : QuotasKept(v, Cardinality(s))}]
           chosen == CHOOSE iter : LabellingA(iter, qs)
<1>1. IsFiniteSet(S) /\ Cardinality(S) = N
  BY FS_Interval
<1>2. Picks(pick, S) /\ \A s \in SUBSET S : pick[s] = Max(s)
  BY MaxOfPart DEF Picks
<1>3. <<>> \in within[{}]
  BY NoRowsYet, FS_EmptySet
<1>4. ASSUME NEW s \in SUBSET S, s # {}, NEW v \in within[s \ {pick[s]}]
      PROVE  v \in Seq(R) /\ Append(v, LabelA(qs, v, Max(s))) \in within[s]
  <2>1. Max(s) = pick[s] /\ pick[s] \in s /\ s \ {pick[s]} \in SUBSET S
    <3> HIDE DEF pick, S
    <3> QED
      BY <1>2, <1>4 DEF Picks
  <2>2. /\ Cardinality(s) \in Nat /\ Cardinality(s \ {pick[s]}) = Cardinality(s) - 1
        /\ Cardinality(s \ {pick[s]}) \in Nat /\ Cardinality(s) <= N
    <3> HIDE DEF S, pick
    <3> QED
      BY <1>1, <2>1, PartSizes, FS_Subset
  <2>3. v \in Seq(R) /\ QuotasKept(v, Cardinality(s) - 1)
    <3> HIDE DEF pick, R
    <3> QED
      BY <1>4, <2>1, <2>2
  <2>4. /\ LabelA(qs, v, Max(s)).stratum \in Strata
        /\ QuotasKept(Append(v, LabelA(qs, v, Max(s))), (Cardinality(s) - 1) + 1)
    <3> HIDE DEF R, pick, within
    <3>1. Cardinality(s) - 1 \in Nat /\ Cardinality(s) - 1 # TierACount
      BY <2>2
    <3> QED
      BY <2>3, <3>1, LabelKeepsQuotas
  <2>5. LabelA(qs, v, Max(s)) \in R
    <3>1. Max(s) \in S
      <4> HIDE DEF pick, S
      <4> QED
        BY <2>1
    <3>2. LabelA(qs, v, Max(s)).stratum = Stratum(qs[Max(s)], Max(s) \in TopScored(qs, QuotaA["vlm_dependent"]), v)
      BY DEF LabelA, Draft, Row
    <3> QED
      BY <2>4, <3>1, <3>2 DEF LabelA
  <2>6. (Cardinality(s) - 1) + 1 = Cardinality(s)
    BY <2>2
  <2> HIDE DEF R, pick
  <2>7. Append(v, LabelA(qs, v, Max(s))) \in Seq(R)
    BY <2>3, <2>5
  <2> QED
    BY <2>3, <2>4, <2>6, <2>7
<1>5. \A s \in SUBSET S : s # {} => \A v \in within[s \ {pick[s]}] :
         step[s][v] = Append(v, LabelA(qs, v, Max(s))) /\ step[s][v] \in within[s]
  <2> HIDE DEF pick, within, R, S
  <2> QED
    BY <1>4
<1>6. PICK iter : Folding(iter, S, pick, <<>>, step) /\ \A s \in SUBSET S : iter[s] \in within[s]
  <2> HIDE DEF pick, within, step, S
  <2>1. \A s \in SUBSET S : s # {} => \A v \in within[s \ {pick[s]}] : step[s][v] \in within[s]
    BY <1>5
  <2>2. IsFiniteSet(S) /\ Picks(pick, S)
    BY <1>1, <1>2
  <2> QED
    BY <1>3, <2>1, <2>2, FoldWithin
<1>7. DOMAIN idx = S /\ \A s \in SUBSET S : s # {} => idx[Max(s)] = Max(s) /\ s \ {Max(s)} \in SUBSET S
  BY MaxOfPart
<1>8. LabellingA(iter, qs)
  <2>1. \A s \in SUBSET S : s # {} => step[s][iter[s \ {Max(s)}]] = Append(iter[s \ {Max(s)}], LabelA(qs, iter[s \ {Max(s)}], Max(s)))
    <3> HIDE DEF pick, within, step, S, idx
    <3> QED
      BY <1>2, <1>5, <1>6, <1>7
  <2>2. iter = [s \in SUBSET S |-> IF s = {} THEN <<>>
                   ELSE Append(iter[s \ {Max(s)}], LabelA(qs, iter[s \ {Max(s)}], idx[Max(s)]))]
    <3> DEFINE value(s) == IF s = {} THEN <<>>
                           ELSE Append(iter[s \ {Max(s)}], LabelA(qs, iter[s \ {Max(s)}], idx[Max(s)]))
    <3> HIDE DEF pick, within, step, S, idx, value
    <3>1. iter = [s \in SUBSET S |-> IF s = {} THEN <<>> ELSE step[s][iter[s \ {pick[s]}]]]
      BY <1>6 DEF Folding
    <3> USE DEF value
    <3>2. \A s \in SUBSET S : (IF s = {} THEN <<>> ELSE step[s][iter[s \ {pick[s]}]]) = value(s)
      BY <1>2, <1>7, <2>1
    <3> HIDE DEF value
    <3>3. iter = [s \in SUBSET S |-> value(s)]
      BY <3>1, <3>2
    <3> QED
      BY <3>3 DEF value
  <2> HIDE DEF S
  <2> QED
    BY <1>7, <2>2 DEF LabellingA
<1>9. LabellingA(chosen, qs)
  BY <1>8
<1> HIDE DEF chosen
<1>10. \A s \in SUBSET S : s # {} => chosen[s] = Append(chosen[s \ {Max(s)}], LabelA(qs, chosen[s \ {Max(s)}], Max(s)))
  <2> HIDE DEF S
  <2> QED
    BY <1>7, <1>9 DEF LabellingA
<1>11. chosen[{}] = <<>>
  <2> HIDE DEF S
  <2> QED
    BY <1>7, <1>9 DEF LabellingA
<1>12. S \in {s \in SUBSET S : chosen[s] \in within[s]}
  <2> DEFINE G == {s \in SUBSET S : chosen[s] \in within[s]}
  <2>1. {} \in G
    <3> HIDE DEF within, S
    <3> QED
      BY <1>3, <1>11
  <2>2. ASSUME NEW s \in SUBSET S, s # {}, s \ {pick[s]} \in G PROVE s \in G
    <3> HIDE DEF within, pick, S
    <3>1. chosen[s \ {pick[s]}] \in within[s \ {pick[s]}] /\ pick[s] = Max(s)
      BY <1>2, <2>2
    <3>2. chosen[s] = Append(chosen[s \ {pick[s]}], LabelA(qs, chosen[s \ {pick[s]}], Max(s)))
      BY <1>10, <2>2, <3>1
    <3> HIDE DEF step
    <3>3. Append(chosen[s \ {pick[s]}], LabelA(qs, chosen[s \ {pick[s]}], Max(s))) \in within[s]
      BY <1>5, <2>2, <3>1
    <3>4. chosen[s] \in within[s]
      BY <3>2, <3>3
    <3> QED
      BY <2>2, <3>4
  <2>3. SUBSET S \subseteq G
    <3> HIDE DEF G, pick, S
    <3> QED
      BY <1>1, <1>2, <2>1, <2>2, PickInduction
  <2> HIDE DEF within, S
  <2> QED
    BY <2>3
<1>13. TierA(qs) = chosen[S]
  <2> HIDE DEF S
  <2> QED
    BY <1>7, TierAIsFold DEF chosen
<1>14. TierA(qs) \in Seq(R) /\ QuotasKept(TierA(qs), TierACount)
  <2> HIDE DEF R
  <2> QED
    BY <1>1, <1>12, <1>13
<1> QED
  <2> HIDE DEF R
  <2> QED
    BY <1>14

\* The first TierACount rows of the strata are just as many as their quotas.
QuotasMet(rows) ==
    \A s \in Strata : Cardinality({i \in 1..TierACount : rows[i].stratum = s}) = QuotaA[s]
RowsOk(rows) == IsSeq(rows) /\ TierACount <= Len(rows) /\ QuotasMet(rows)

\* TierACount is the sum of the quotas.
LEMMA TierACountType == TierACount \in Nat
BY QuotaTypes, SumsCompare

\* The rows and the questions are sequences.
LEMMA IsSeqOf ==
  ASSUME NEW R, NEW s \in Seq(R)
  PROVE  IsSeq(s) /\ Len(s) \in Nat /\ DOMAIN s = 1..Len(s)
<1>1. Len(s) \in Nat /\ DOMAIN s = 1..Len(s)
  OBVIOUS
<1>2. s \in [1..Len(s) -> Range(s)]
  BY <1>1 DEF Range
<1> QED
  BY <1>1, <1>2, SeqDef DEF IsSeq

LEMMA IsSeqOver ==
  ASSUME NEW n \in Nat, NEW s, s = [i \in 1..n |-> s[i]]
  PROVE  IsSeq(s) /\ Len(s) = n /\ DOMAIN s = 1..n
<1>1. DOMAIN s = 1..n
  OBVIOUS
<1>2. s \in [1..n -> Range(s)]
  BY <1>1 DEF Range
<1>3. s \in Seq(Range(s))
  BY <1>2, SeqDef
<1>4. Len(s) = n
  BY <1>1, <1>3
<1> QED
  BY <1>1, <1>3, <1>4 DEF IsSeq

LEMMA IsSeqConcat ==
  ASSUME NEW a, IsSeq(a), NEW b, IsSeq(b)
  PROVE  /\ IsSeq(a \o b) /\ Len(a \o b) = Len(a) + Len(b) /\ Len(a) \in Nat /\ Len(b) \in Nat
         /\ \A i \in 1..Len(a) : (a \o b)[i] = a[i]
<1> DEFINE R == Range(a) \cup Range(b)
<1>1. a \in Seq(R) /\ b \in Seq(R)
  <2>1. a \in Seq(Range(a)) /\ b \in Seq(Range(b)) /\ Range(a) \subseteq R /\ Range(b) \subseteq R
    BY DEF IsSeq
  <2> HIDE DEF R
  <2> QED
    BY <2>1, SeqDef
<1> HIDE DEF R
<1>2. a \o b \in Seq(R) /\ Len(a \o b) = Len(a) + Len(b) /\ Len(a) \in Nat /\ Len(b) \in Nat
  BY <1>1
<1>3. \A i \in 1..Len(a) : (a \o b)[i] = a[i]
  BY <1>1, ConcatProperties
<1> QED
  BY <1>2, <1>3, IsSeqOf

LEMMA UpToIsSeq ==
  ASSUME NEW n \in Nat, NEW s, IsSeq(s)
  PROVE  IsSeq(UpTo(n, s))
<1>1. s \in Seq(Range(s)) /\ Len(s) \in Nat
  BY DEF IsSeq
<1>2. (IF n < Len(s) THEN n ELSE Len(s)) \in 0..Len(s)
  BY <1>1
<1>3. UpTo(n, s) \in Seq(Range(s))
  BY <1>1, <1>2, SubSeqProperties DEF UpTo
<1> QED
  BY <1>3, IsSeqOf

\* As many questions are chosen as there are places.
LEMMA ChosenIsSeq ==
  ASSUME NEW qs, NEW places, IsFiniteSet(places)
  PROVE  /\ IsSeq(Chosen(qs, places)) /\ Len(Chosen(qs, places)) = Cardinality(places)
         /\ DOMAIN Chosen(qs, places) = 1..Cardinality(places)
<1> DEFINE at == InOrder(places, <)
<1>1. Cardinality(places) \in Nat
  BY FS_CardinalityType
<1>2. DOMAIN at = 1..Cardinality(places)
  BY Zenon DEF InOrder
<1> HIDE DEF at
<1>3. Chosen(qs, places) = [k \in 1..Cardinality(places) |-> qs[at[k]]]
  BY <1>2 DEF Chosen, at
<1> QED
  BY <1>1, <1>3, IsSeqOver

(* Whatever the questions, their order and what they prefer, if there are as  *)
(* many as the quotas add up to: tier A has a row for each, and just as many  *)
(* of every stratum as its quota (tier_a.py), though a stratum is chosen      *)
(* greedily and vlm_dependent takes what fits nowhere.                        *)
THEOREM TierAMeetsQuotas ==
  ASSUME NEW qs, DOMAIN qs = 1..TierACount
  PROVE  RowsOk(TierA(qs))
<1> DEFINE rows == TierA(qs)
<1>1. PICK R : rows \in Seq(R)
  BY TierACountType, TierAKeepsQuotas
<1>2. QuotasKept(rows, TierACount)
  BY TierACountType, TierAKeepsQuotas
<1> HIDE DEF rows
<1>3. IsSeq(rows) /\ Len(rows) = TierACount /\ DOMAIN rows = 1..TierACount
  BY <1>1, <1>2, IsSeqOf DEF QuotasKept
<1>4. \A s : RowsOf(rows, s) = {i \in 1..TierACount : rows[i].stratum = s}
  BY <1>3 DEF RowsOf
<1>5. Counts(rows) \in [Strata -> Nat]
  <2>1. IsFiniteSet(1..TierACount)
    BY TierACountType, FS_Interval
  <2>2. \A s : RowsOf(rows, s) \in SUBSET (1..TierACount)
    BY <1>4
  <2>3. \A s \in Strata : Cardinality(RowsOf(rows, s)) \in Nat
    BY <2>1, <2>2, FS_Subset, FS_CardinalityType
  <2> QED
    BY <2>3 DEF Counts
<1>6. Counts(rows) = QuotaA
  <2>1. /\ \A s \in Strata : Counts(rows)[s] <= QuotaA[s]
        /\ SumFunction(Counts(rows)) = SumFunction(QuotaA)
    BY <1>2, QuotaTypes DEF QuotasKept
  <2>2. IsFiniteSet(Strata) /\ QuotaA \in [Strata -> Nat]
    BY QuotaTypes
  <2> QED
    BY <1>5, <2>1, <2>2, SumsCompare
<1>7. QuotasMet(rows)
  BY <1>4, <1>6 DEF QuotasMet, Counts
<1> QED
  BY <1>3, <1>7, TierACountType DEF RowsOk, rows

\* Further rows do not touch them.
LEMMA MoreTiers ==
  ASSUME NEW a, RowsOk(a), NEW b, IsSeq(b)
  PROVE  RowsOk(a \o b)
<1>1. /\ IsSeq(a \o b) /\ Len(a \o b) = Len(a) + Len(b) /\ Len(a) \in Nat /\ Len(b) \in Nat
      /\ \A i \in 1..Len(a) : (a \o b)[i] = a[i]
  BY IsSeqConcat DEF RowsOk
<1>2. TierACount \in Nat /\ TierACount <= Len(a)
  BY TierACountType DEF RowsOk
<1>3. \A i \in 1..TierACount : (a \o b)[i] = a[i]
  BY <1>1, <1>2
<1> DEFINE ab == a \o b
<1>4. \A s : {i \in 1..TierACount : ab[i].stratum = s} = {i \in 1..TierACount : a[i].stratum = s}
  BY <1>3
<1> HIDE DEF ab
<1>5. QuotasMet(ab)
  BY <1>4 DEF QuotasMet, RowsOk
<1> QED
  BY <1>1, <1>2, <1>5 DEF RowsOk, ab

\* A stage that keeps every row in its stratum keeps the quotas met.
LEMMA SameStrata ==
  ASSUME NEW a, RowsOk(a), NEW b, b = [i \in DOMAIN a |-> b[i]],
         \A i \in DOMAIN a : b[i].stratum = a[i].stratum
  PROVE  RowsOk(b)
<1>1. Len(a) \in Nat /\ DOMAIN a = 1..Len(a)
  BY IsSeqOf DEF RowsOk, IsSeq
<1>2. IsSeq(b) /\ Len(b) = Len(a)
  BY <1>1, IsSeqOver
<1>3. TierACount \in Nat /\ TierACount <= Len(a)
  BY TierACountType DEF RowsOk
<1>4. \A i \in 1..TierACount : i \in DOMAIN a
  BY <1>1, <1>3
<1>5. \A s : {i \in 1..TierACount : b[i].stratum = s} = {i \in 1..TierACount : a[i].stratum = s}
  BY <1>4
<1> QED
  BY <1>2, <1>3, <1>5 DEF RowsOk, QuotasMet

\* Tier B is a sequence of rows when the corpus is finite; so is tier C.
LEMMA TierBIsSeq ==
  ASSUME NEW qs, IsSeq(qs), IsFiniteSet(Messages)
  PROVE  IsSeq(TierB(qs))
<1> DEFINE refusals == UpTo(Refusals, TextOnly(qs, "refusal"))
           conflicts == UpTo(Conflicts, TextOnly(qs, "conflict"))
           a == [i \in DOMAIN refusals |-> Draft("unanswerable", refusals[i].ch, "no_result", refusals[i].text, {})]
           b == [i \in DOMAIN conflicts |->
              Draft("ambiguous_clarification", conflicts[i].ch, "clarify", conflicts[i].text, {})]
           c == [i \in DOMAIN Quoted |-> Draft("metadata_only", Quoted[i][1], "return_result", "quote", {Quoted[i]})]
<1>1. {Refusals, Conflicts, Metadata} \subseteq Nat /\ IsSeq(CuratedB)
  BY GoldenAssumption DEF IsSeq
<1>2. IsSeq(refusals) /\ IsSeq(conflicts)
  <2>1. \A kind : IsSeq(TextOnly(qs, kind))
    <3>1. IsFiniteSet(DOMAIN qs)
      BY IsSeqOf, FS_Interval DEF IsSeq
    <3>2. \A kind : {i \in DOMAIN qs : ~qs[i].image /\ qs[i].kind = kind} \in SUBSET DOMAIN qs
      OBVIOUS
    <3>3. \A kind : IsFiniteSet({i \in DOMAIN qs : ~qs[i].image /\ qs[i].kind = kind})
      BY <3>1, <3>2, FS_Subset
    <3> QED
      BY <3>3, ChosenIsSeq DEF TextOnly
  <2> QED
    BY <1>1, <2>1, UpToIsSeq
<1>3. IsSeq(Quoted)
  <2> DEFINE few == {id \in Messages \cap Quotable :
                   Cardinality({o \in Messages \cap Quotable : o[1] = id[1] /\ LexLess(o, id)}) < PerChannel}
             s == InOrder(few, LexLess)
  <2>1. IsFiniteSet(few)
    <3>1. few \in SUBSET Messages
      OBVIOUS
    <3> QED
      BY <3>1, FS_Subset
  <2>2. Quoted = UpTo(Metadata, s)
    BY DEF Quoted
  <2> HIDE DEF few
  <2>3. Cardinality(few) \in Nat /\ s = [i \in 1..Cardinality(few) |-> s[i]]
    <3>1. s = [i \in 1..Cardinality(few) |->
                 CHOOSE x \in few : Cardinality({y \in few \ {x} : LexLess(y, x)}) = i - 1]
      BY DEF InOrder
    <3> QED
      BY <2>1, <3>1, FS_CardinalityType
  <2> HIDE DEF s
  <2>4. IsSeq(s)
    BY <2>3, IsSeqOver
  <2> QED
    BY <1>1, <2>2, <2>4, UpToIsSeq
<1> HIDE DEF refusals, conflicts
<1>4. IsSeq(a) /\ IsSeq(b) /\ IsSeq(c)
  <2>1. \A s : IsSeq(s) => Len(s) \in Nat /\ DOMAIN s = 1..Len(s)
    BY IsSeqOf DEF IsSeq
  <2>2. DOMAIN a = DOMAIN refusals /\ DOMAIN b = DOMAIN conflicts /\ DOMAIN c = DOMAIN Quoted
    OBVIOUS
  <2>3. a = [i \in DOMAIN refusals |-> a[i]] /\ b = [i \in DOMAIN conflicts |-> b[i]] /\ c = [i \in DOMAIN Quoted |-> c[i]]
    OBVIOUS
  <2> HIDE DEF a, b, c
  <2>4. \A s, f : IsSeq(s) /\ f = [i \in DOMAIN s |-> f[i]] => IsSeq(f)
    <3> SUFFICES ASSUME NEW s, NEW f, IsSeq(s), f = [i \in DOMAIN s |-> f[i]] PROVE IsSeq(f)
      OBVIOUS
    <3>1. Len(s) \in Nat /\ f = [i \in 1..Len(s) |-> f[i]]
      BY <2>1
    <3> QED
      BY <3>1, IsSeqOver
  <2> QED
    BY <1>2, <1>3, <2>3, <2>4
<1>5. TierB(qs) = a \o b \o c \o CuratedB
  BY DEF TierB, refusals, conflicts
<1> HIDE DEF a, b, c
<1>6. IsSeq(a \o b) /\ IsSeq((a \o b) \o c) /\ IsSeq(((a \o b) \o c) \o CuratedB)
  BY <1>1, <1>4, IsSeqConcat
<1> QED
  BY <1>5, <1>6

\* Tier C, as the fold it is.
Grounding(iter, qs) ==
    iter = [s \in SUBSET DOMAIN qs |->
               IF s = {} THEN CuratedC ELSE AddGrounded(iter[s \ {Max(s)}], qs[Max(s)])]

\* Tier C, too, takes the questions by their places.
LEMMA TierCIsFold ==
  ASSUME NEW qs
  PROVE  TierC(qs) = (CHOOSE iter : Grounding(iter, qs))[DOMAIN qs]
BY DEF TierC, FoldLeft, MapThenFoldSet, Grounding

\* A question adds one row to tier C or none.
LEMMA TierCIsSeq ==
  ASSUME NEW qs, IsSeq(qs)
  PROVE  IsSeq(TierC(qs))
<1> DEFINE S == DOMAIN qs
           D == {Draft(st, qs[i].ch, "return_result", qs[i].text, Grounds(qs[i])) :
                   st \in {"context_only", "visual_plus_context", "none"}, i \in S}
           R == Range(CuratedC) \cup D
           pick == [s \in SUBSET S |-> Max(s)]
           step == [s \in SUBSET S |-> [v \in Seq(R) |-> AddGrounded(v, qs[pick[s]])]]
           within == [s \in SUBSET S |-> Seq(R)]
           chosen == CHOOSE iter : Grounding(iter, qs)
<1>1. IsFiniteSet(S) /\ Picks(pick, S) /\ \A s \in SUBSET S : pick[s] = Max(s)
  <2>1. Len(qs) \in Nat /\ S = 1..Len(qs)
    BY IsSeqOf DEF IsSeq
  <2>2. \A s \in SUBSET S : s # {} => Max(s) \in s
    <3> HIDE DEF S
    <3> QED
      BY <2>1, MaxOfPart
  <2>3. \A s \in SUBSET S : pick[s] = Max(s)
    OBVIOUS
  <2> HIDE DEF S, pick
  <2>4. IsFiniteSet(S)
    BY <2>1, FS_Interval
  <2> QED
    BY <2>2, <2>3, <2>4 DEF Picks
<1>2. CuratedC \in Seq(R)
  <2>1. CuratedC \in Seq(Range(CuratedC)) /\ Range(CuratedC) \subseteq R
    BY GoldenAssumption
  <2> HIDE DEF R
  <2> QED
    BY <2>1, SeqDef
<1>3. ASSUME NEW v \in Seq(R), NEW i \in S PROVE AddGrounded(v, qs[i]) \in Seq(R)
  <2> DEFINE d == Draft(GroundedStratum(qs[i], v), qs[i].ch, "return_result", qs[i].text, Grounds(qs[i]))
  <2>1. GroundedStratum(qs[i], v) \in {"context_only", "visual_plus_context", "none"}
    BY DEF GroundedStratum
  <2>2. d \in R
    BY <2>1
  <2>3. AddGrounded(v, qs[i]) = v \/ AddGrounded(v, qs[i]) = Append(v, d)
    BY DEF AddGrounded
  <2> HIDE DEF d, R
  <2> QED
    BY <2>2, <2>3
<1>4. \A s \in SUBSET S : within[s] = Seq(R)
  <2> HIDE DEF S, R
  <2> QED
    OBVIOUS
<1>5. \A s \in SUBSET S : s # {} => \A v \in within[s \ {pick[s]}] :
         step[s][v] = AddGrounded(v, qs[pick[s]]) /\ step[s][v] \in within[s]
  <2> HIDE DEF pick, R, within, S
  <2> SUFFICES ASSUME NEW s \in SUBSET S, s # {}, NEW v \in within[s \ {pick[s]}]
               PROVE  step[s][v] = AddGrounded(v, qs[pick[s]]) /\ step[s][v] \in within[s]
    <3> HIDE DEF step
    <3> QED
      OBVIOUS
  <2>1. pick[s] \in S /\ s \ {pick[s]} \in SUBSET S
    BY <1>1 DEF Picks
  <2>2. v \in Seq(R)
    BY <1>4, <2>1
  <2>3. step[s][v] = AddGrounded(v, qs[pick[s]])
    BY <2>2
  <2> HIDE DEF step
  <2> QED
    BY <1>3, <1>4, <2>1, <2>2, <2>3
<1> HIDE DEF S, R, pick, step, within
<1>6. PICK iter : Folding(iter, S, pick, CuratedC, step) /\ \A s \in SUBSET S : iter[s] \in within[s]
  <2>1. \A s \in SUBSET S : s # {} => \A v \in within[s \ {pick[s]}] : step[s][v] \in within[s]
    BY <1>5
  <2>2. CuratedC \in within[{}]
    BY <1>2, <1>4
  <2> QED
    BY <1>1, <2>1, <2>2, FoldWithin
<1>7. Grounding(iter, qs)
  <2> DEFINE value(s) == IF s = {} THEN CuratedC ELSE AddGrounded(iter[s \ {Max(s)}], qs[Max(s)])
  <2>1. \A s \in SUBSET S : s # {} => s \ {pick[s]} \in SUBSET S
    OBVIOUS
  <2>2. \A s \in SUBSET S : s # {} => step[s][iter[s \ {pick[s]}]] = AddGrounded(iter[s \ {pick[s]}], qs[pick[s]])
    BY <1>5, <1>6, <2>1
  <2> HIDE DEF value
  <2>3. iter = [s \in SUBSET S |-> IF s = {} THEN CuratedC ELSE step[s][iter[s \ {pick[s]}]]]
    BY <1>6 DEF Folding
  <2>4. \A s \in SUBSET S : (IF s = {} THEN CuratedC ELSE step[s][iter[s \ {pick[s]}]]) = value(s)
    BY <1>1, <2>2 DEF value
  <2>5. iter = [s \in SUBSET S |-> value(s)]
    BY <2>3, <2>4
  <2> QED
    BY <2>5 DEF value, Grounding, S
<1>8. Grounding(chosen, qs)
  BY <1>7
<1> HIDE DEF chosen
<1>9. \A s \in SUBSET S : chosen[s] = IF s = {} THEN CuratedC ELSE AddGrounded(chosen[s \ {Max(s)}], qs[Max(s)])
  BY <1>8 DEF Grounding, S
<1>10. S \in {s \in SUBSET S : chosen[s] \in Seq(R)}
  <2> DEFINE G == {s \in SUBSET S : chosen[s] \in Seq(R)}
  <2>1. {} \in G
    BY <1>2, <1>9
  <2>2. ASSUME NEW s \in SUBSET S, s # {}, s \ {pick[s]} \in G PROVE s \in G
    <3>1. pick[s] = Max(s) /\ pick[s] \in S
      BY <1>1, <2>2 DEF Picks
    <3>2. chosen[s \ {pick[s]}] \in Seq(R)
      BY <2>2
    <3>3. AddGrounded(chosen[s \ {pick[s]}], qs[pick[s]]) \in Seq(R)
      BY <1>3, <3>1, <3>2
    <3>4. chosen[s] = AddGrounded(chosen[s \ {pick[s]}], qs[pick[s]])
      BY <1>9, <2>2, <3>1
    <3> QED
      BY <3>3, <3>4
  <2> HIDE DEF G
  <2>3. SUBSET S \subseteq G
    BY <1>1, <2>1, <2>2, PickInduction
  <2> QED
    BY <2>3 DEF G
<1>11. TierC(qs) \in Seq(R)
  BY <1>10, TierCIsFold DEF chosen, S
<1> QED
  BY <1>11, IsSeqOf

-----------------------------------------------------------------------------
(* The search for a split.                                                  *)

SizeOf(rows, comps) == Cardinality(RowsIn(rows, comps))
Rest(order, i) == {order[j] : j \in i..Len(order)}

\* One place of the search, given what the next one finds.
SearchAt(rows, order, i, next) ==
    [dev \in SUBSET Range(order) |->
        IF SizeOf(rows, dev) = TotalDev THEN IF WithinTolerance(rows, dev) THEN {dev} ELSE {}
        ELSE IF i > Len(order) \/ SizeOf(rows, dev) > TotalDev
                \/ SizeOf(rows, dev) + SizeOf(rows, Rest(order, i)) < TotalDev THEN {}
        ELSE IF next[dev \cup {order[i]}] # {} THEN next[dev \cup {order[i]}]
        ELSE next[dev]]
Searching(g, rows, order) ==
    g = [i \in 1..(Len(order) + 1) |-> SearchAt(rows, order, i, g[i + 1])]

\* The search is well defined: it goes on from a place to the next one only.
LEMMA SearchExists ==
  ASSUME NEW rows, NEW order, Len(order) \in Nat
  PROVE  \E g : Searching(g, rows, order) /\ Search(rows, order) = g[1][{}]
<1> DEFINE n == Len(order)
           Next(g) == [i \in 1..(n + 1) |-> SearchAt(rows, order, i, g[i + 1])]
           Upto(g, k) == \A i \in 1..(n + 1) : i >= n + 1 - k => g[i] = Next(g)[i]
           bad == {k \in Nat : ~\E g : Upto(g, k)}
           chosen == CHOOSE g : Searching(g, rows, order)
<1>1. ASSUME NEW a, NEW b PROVE SearchAt(rows, order, n + 1, a) = SearchAt(rows, order, n + 1, b)
  BY DEF SearchAt
<1>2. \E g : Upto(g, 0)
  <2> DEFINE g == Next(<<>>)
  <2>1. ASSUME NEW i \in 1..(n + 1), i >= n + 1 PROVE g[i] = Next(g)[i]
    <3>1. i = n + 1
      BY <2>1
    <3> HIDE DEF n
    <3>2. g[i] = SearchAt(rows, order, n + 1, <<>>[i + 1]) /\ Next(g)[i] = SearchAt(rows, order, n + 1, g[i + 1])
      BY <2>1, <3>1
    <3> QED
      BY <1>1, <3>2
  <2>2. Upto(g, 0)
    BY <2>1
  <2> QED
    BY <2>2
<1>3. ASSUME NEW k \in Nat, NEW g, Upto(g, k) PROVE Upto(Next(g), k + 1)
  <2> SUFFICES ASSUME NEW i \in 1..(n + 1), i >= n + 1 - (k + 1)
               PROVE  Next(g)[i] = Next(Next(g))[i]
    OBVIOUS
  <2>1. Next(g)[i] = SearchAt(rows, order, i, g[i + 1])
        /\ Next(Next(g))[i] = SearchAt(rows, order, i, Next(g)[i + 1])
    OBVIOUS
  <2>2. CASE i = n + 1
    <3> HIDE DEF n, Next
    <3> QED
      BY <1>1, <2>1, <2>2
  <2>3. CASE i # n + 1
    <3>1. i + 1 \in 1..(n + 1) /\ i + 1 >= n + 1 - k
      BY <2>3
    <3>2. g[i + 1] = Next(g)[i + 1]
      <4> HIDE DEF Next
      <4> QED
        BY <1>3, <3>1
    <3> HIDE DEF Next
    <3> QED
      BY <2>1, <3>2
  <2> QED
    BY <2>2, <2>3
<1>4. bad = {}
  <2> HIDE DEF Next, Upto
  <2> SUFFICES ASSUME bad # {} PROVE FALSE
    OBVIOUS
  <2>1. PICK m \in bad : \A k \in bad : m <= k
    <3>1. bad \in SUBSET Nat
      OBVIOUS
    <3> HIDE DEF bad
    <3> QED
      BY <3>1, LeastNat
  <2>2. m \in Nat /\ m # 0
    BY <1>2
  <2>3. m - 1 \in Nat /\ m - 1 \notin bad
    BY <2>1, <2>2
  <2>4. PICK g : Upto(g, m - 1)
    BY <2>3
  <2>5. Upto(Next(g), (m - 1) + 1)
    BY <1>3, <2>3, <2>4
  <2>6. (m - 1) + 1 = m
    BY <2>2
  <2> QED
    BY <2>1, <2>5, <2>6
<1>5. PICK g : Upto(g, n)
  <2> HIDE DEF Upto
  <2> QED
    BY <1>4
<1>6. \A i \in 1..(n + 1) : g[i] = Next(g)[i]
  <2>1. \A i \in 1..(n + 1) : i >= n + 1 - n
    OBVIOUS
  <2> HIDE DEF Next, n
  <2> QED
    BY <1>5, <2>1
<1>7. Searching(Next(g), rows, order)
  <2>1. ASSUME NEW i \in 1..(n + 1)
        PROVE  SearchAt(rows, order, i, g[i + 1]) = SearchAt(rows, order, i, Next(g)[i + 1])
    <3>1. CASE i = n + 1
      <4> HIDE DEF n, Next
      <4> QED
        BY <1>1, <3>1
    <3>2. CASE i # n + 1
      <4>1. i + 1 \in 1..(n + 1)
        BY <3>2
      <4> HIDE DEF n, Next
      <4> QED
        BY <1>6, <4>1
    <3> QED
      BY <3>1, <3>2
  <2> QED
    BY <2>1 DEF Searching
<1>8. Searching(chosen, rows, order)
  <2> HIDE DEF Next
  <2> QED
    BY <1>7
<1>9. Search(rows, order) = chosen[1][{}]
  BY DEF Search, Searching, SearchAt, SizeOf, Rest
<1> QED
  BY <1>8, <1>9

\* More components have more rows, and as many only if they have the same.
LEMMA MoreRows ==
  ASSUME NEW rows, IsFiniteSet(DOMAIN rows), NEW a, NEW b
  PROVE  /\ SizeOf(rows, a) \in Nat
         /\ a \subseteq b => SizeOf(rows, a) <= SizeOf(rows, b)
         /\ a \subseteq b /\ SizeOf(rows, a) = SizeOf(rows, b) =>
               RowsIn(rows, a) = RowsIn(rows, b) /\ (WithinTolerance(rows, a) <=> WithinTolerance(rows, b))
         /\ SizeOf(rows, a \cup b) <= SizeOf(rows, a) + SizeOf(rows, b)
<1>1. \A c : IsFiniteSet(RowsIn(rows, c)) /\ Cardinality(RowsIn(rows, c)) \in Nat
  <2>1. \A c : RowsIn(rows, c) \in SUBSET DOMAIN rows
    BY DEF RowsIn
  <2> QED
    BY <2>1, FS_Subset, FS_CardinalityType
<1>2. a \subseteq b => RowsIn(rows, a) \in SUBSET RowsIn(rows, b)
  BY DEF RowsIn
<1>3. a \subseteq b => SizeOf(rows, a) <= SizeOf(rows, b)
  BY <1>1, <1>2, FS_Subset DEF SizeOf
<1>4. ASSUME a \subseteq b, SizeOf(rows, a) = SizeOf(rows, b)
      PROVE  RowsIn(rows, a) = RowsIn(rows, b) /\ (WithinTolerance(rows, a) <=> WithinTolerance(rows, b))
  <2>1. RowsIn(rows, a) = RowsIn(rows, b)
    BY <1>1, <1>2, <1>4, FS_Subset DEF SizeOf
  <2> QED
    BY <2>1 DEF WithinTolerance
<1>5. SizeOf(rows, a \cup b) <= SizeOf(rows, a) + SizeOf(rows, b)
  <2> DEFINE A == RowsIn(rows, a)
             B == RowsIn(rows, b)
  <2>1. RowsIn(rows, a \cup b) = A \cup B
    BY DEF RowsIn
  <2> HIDE DEF A, B
  <2>2. IsFiniteSet(A) /\ IsFiniteSet(B) /\ Cardinality(A) \in Nat /\ Cardinality(B) \in Nat
    BY <1>1 DEF A, B
  <2>3. Cardinality(A \cup B) = Cardinality(A) + Cardinality(B) - Cardinality(A \cap B)
    BY <2>2, FS_Union
  <2>4. Cardinality(A \cap B) \in Nat
    BY <2>2, FS_Intersection, FS_CardinalityType
  <2>5. /\ SizeOf(rows, a \cup b) = Cardinality(A \cup B)
        /\ SizeOf(rows, a) = Cardinality(A) /\ SizeOf(rows, b) = Cardinality(B)
    BY <2>1 DEF SizeOf, A, B
  <2> QED
    BY <2>2, <2>3, <2>4, <2>5
<1> QED
  BY <1>1, <1>3, <1>4, <1>5 DEF SizeOf

\* A set of components that will do, and one that can still become it.
Splits(rows, dev) == SizeOf(rows, dev) = TotalDev /\ WithinTolerance(rows, dev)
Reaches(order, i, dev, d) ==
    d \in SUBSET Range(order) /\ dev \subseteq d /\ d \subseteq dev \cup Rest(order, i)

\* What a place finds is a split, and if it finds none there is none.
FindsRight(rows, order, i, result) ==
    \A dev \in SUBSET Range(order) :
        /\ result[dev] = {} \/ \E d \in SUBSET Range(order) : result[dev] = {d} /\ Splits(rows, d)
        /\ result[dev] = {} => \A d : Reaches(order, i, dev, d) => ~Splits(rows, d)

\* A place is right if the next one is.
LEMMA SearchStep ==
  ASSUME NEW rows, IsFiniteSet(DOMAIN rows), NEW order, Len(order) \in Nat,
         DOMAIN order = 1..Len(order), NEW i \in 1..(Len(order) + 1), NEW next,
         i <= Len(order) => FindsRight(rows, order, i + 1, next)
  PROVE  FindsRight(rows, order, i, SearchAt(rows, order, i, next))
<1> DEFINE C == Range(order)
           now == SearchAt(rows, order, i, next)
           size(d) == SizeOf(rows, d)
           without == size(C)
<1> SUFFICES ASSUME NEW dev \in SUBSET C
             PROVE  /\ now[dev] = {} \/ \E d \in SUBSET C : now[dev] = {d} /\ Splits(rows, d)
                    /\ now[dev] = {} => \A d : Reaches(order, i, dev, d) => ~Splits(rows, d)
  BY DEF FindsRight
<1>1. \A d : size(d) \in Nat
  BY MoreRows
<1>2. TotalDev \in Nat
  BY GoldenAssumption
<1>3. CASE size(dev) = TotalDev
  <2>1. now[dev] = IF WithinTolerance(rows, dev) THEN {dev} ELSE {}
    BY <1>3 DEF SearchAt
  <2>2. CASE WithinTolerance(rows, dev)
    BY <1>3, <2>1, <2>2 DEF Splits
  <2>3. CASE ~WithinTolerance(rows, dev)
    <3>1. ASSUME NEW d, Reaches(order, i, dev, d), Splits(rows, d) PROVE FALSE
      <4>1. dev \subseteq d /\ SizeOf(rows, dev) = SizeOf(rows, d)
        BY <1>3, <3>1 DEF Reaches, Splits
      <4>2. WithinTolerance(rows, dev) <=> WithinTolerance(rows, d)
        BY <4>1, MoreRows
      <4> QED
        BY <2>3, <3>1, <4>2 DEF Splits
    <3> QED
      BY <2>1, <2>3, <3>1
  <2> QED
    BY <2>2, <2>3
<1>4. CASE size(dev) # TotalDev /\ (i > Len(order) \/ size(dev) > TotalDev \/ size(dev) + size(Rest(order, i)) < TotalDev)
  <2>1. now[dev] = {}
    BY <1>4 DEF SearchAt
  <2>2. ASSUME NEW d, Reaches(order, i, dev, d), Splits(rows, d) PROVE FALSE
    <3>1. size(dev) <= size(d) /\ size(d) = TotalDev
      BY <2>2, MoreRows DEF Reaches, Splits
    <3>2. size(d) <= size(dev) + size(Rest(order, i))
      <4>1. size(d) <= size(dev \cup Rest(order, i))
        BY <2>2, MoreRows DEF Reaches
      <4>2. size(dev \cup Rest(order, i)) <= size(dev) + size(Rest(order, i))
        BY MoreRows
      <4> HIDE DEF size
      <4> QED
        BY <1>1, <4>1, <4>2
    <3>3. i > Len(order) => d = dev
      <4>1. i > Len(order) => i..Len(order) = {}
        OBVIOUS
      <4>2. i > Len(order) => Rest(order, i) = {}
        BY <4>1 DEF Rest
      <4> QED
        BY <2>2, <4>2 DEF Reaches
    <3> HIDE DEF size
    <3> QED
      BY <1>1, <1>2, <1>4, <3>1, <3>2, <3>3
  <2> QED
    BY <2>1, <2>2
<1>5. CASE size(dev) # TotalDev /\ ~(i > Len(order) \/ size(dev) > TotalDev \/ size(dev) + size(Rest(order, i)) < TotalDev)
  <2> DEFINE with == dev \cup {order[i]}
  <2>1. i <= Len(order) /\ i \in 1..Len(order)
    BY <1>5
  <2>2. order[i] \in C /\ with \in SUBSET C
    BY <2>1 DEF Range
  <2>3. now[dev] = IF next[with] # {} THEN next[with] ELSE next[dev]
    BY <1>5 DEF SearchAt
  <2>4. FindsRight(rows, order, i + 1, next)
    BY <2>1
  <2>5. ASSUME NEW d, Reaches(order, i, dev, d)
        PROVE  Reaches(order, i + 1, with, d) \/ Reaches(order, i + 1, dev, d)
    <3>1. Rest(order, i) = {order[i]} \cup Rest(order, i + 1)
      BY <2>1 DEF Rest
    <3> QED
      BY <2>5, <3>1 DEF Reaches
  <2> HIDE DEF with, now
  <2>6. now[dev] = {} \/ \E d \in SUBSET C : now[dev] = {d} /\ Splits(rows, d)
    BY <2>2, <2>3, <2>4 DEF FindsRight
  <2>7. ASSUME now[dev] = {}, NEW d, Reaches(order, i, dev, d) PROVE ~Splits(rows, d)
    <3>1. next[with] = {} /\ next[dev] = {}
      BY <2>3, <2>7
    <3> QED
      BY <2>2, <2>4, <2>5, <2>7, <3>1 DEF FindsRight
  <2> QED
    BY <2>6, <2>7
<1> QED
  BY <1>3, <1>4, <1>5

(* The backtracking search (builder.py), for any rows and any order of any    *)
(* components: what it finds is a split, and when it finds none there is no    *)
(* choice of components that is one, so its cuts lose nothing.                *)
THEOREM SearchRight ==
  ASSUME NEW rows, IsFiniteSet(DOMAIN rows), NEW order, Len(order) \in Nat, DOMAIN order = 1..Len(order)
  PROVE  /\ Search(rows, order) = {} \/
               \E d \in SUBSET Range(order) : Search(rows, order) = {d} /\ Splits(rows, d)
         /\ Search(rows, order) = {} => \A d \in SUBSET Range(order) : ~Splits(rows, d)
<1>1. PICK g : Searching(g, rows, order) /\ Search(rows, order) = g[1][{}]
  BY SearchExists
<1> DEFINE n == Len(order)
           Right(i) == FindsRight(rows, order, i, g[i])
           bad == {k \in Nat : k <= n /\ ~Right(n + 1 - k)}
<1>2. \A i \in 1..(n + 1) : g[i] = SearchAt(rows, order, i, g[i + 1])
  BY <1>1 DEF Searching
<1>3. ASSUME NEW i \in 1..(n + 1), i <= n => Right(i + 1) PROVE Right(i)
  BY <1>2, <1>3, SearchStep
<1> HIDE DEF Right
<1>4. bad = {}
  <2> SUFFICES ASSUME bad # {} PROVE FALSE
    OBVIOUS
  <2>1. PICK m \in bad : \A k \in bad : m <= k
    <3>1. bad \in SUBSET Nat
      OBVIOUS
    <3> HIDE DEF bad
    <3> QED
      BY <3>1, LeastNat
  <2>2. m \in Nat /\ m <= n /\ n + 1 - m \in 1..(n + 1) /\ ~Right(n + 1 - m)
    BY <2>1
  <2>3. CASE m = 0
    BY <1>3, <2>2, <2>3
  <2>4. CASE m # 0
    <3>1. m - 1 \in Nat /\ m - 1 <= n /\ m - 1 \notin bad
      BY <2>1, <2>2, <2>4
    <3>2. Right(n + 1 - (m - 1)) /\ n + 1 - (m - 1) = (n + 1 - m) + 1
      BY <2>2, <3>1
    <3> QED
      BY <1>3, <2>2, <3>2
  <2> QED
    BY <2>3, <2>4
<1>5. Right(1)
  <2>1. n \in Nat /\ n \notin bad
    BY <1>4
  <2>2. n + 1 - n = 1
    OBVIOUS
  <2> HIDE DEF n
  <2> QED
    BY <2>1, <2>2
<1>6. \A d \in SUBSET Range(order) : Reaches(order, 1, {}, d)
  BY DEF Reaches, Rest, Range
<1> QED
  BY <1>1, <1>5, <1>6 DEF Right, FindsRight

-----------------------------------------------------------------------------
(* The split.                                                               *)

DevRows(rows) == {i \in DOMAIN rows : rows[i].split = "dev"}

\* No small cluster has images of both splits.
ClustersWhole(rows, file) ==
    \A i, j \in DOMAIN rows : rows[i].split # rows[j].split =>
        \A c \in file : ~(/\ Cardinality(c) <= MaxCluster
                          /\ \E a, b \in c : a[1] = rows[i].group /\ b[1] = rows[j].group)
DevAsPlanned(rows) ==
    /\ Cardinality(DevRows(rows)) = TotalDev
    /\ \A s \in DOMAIN DevQuota :
          Cardinality(DevRows(rows) \cap RowsOf(rows, s)) - DevQuota[s]
              \in -Tolerance(DevQuota[s])..Tolerance(DevQuota[s])
NoSplit(rows, file) ==
    \A dev \in SUBSET SplitComponents(rows, file) :
        Cardinality(RowsIn(rows, dev)) = TotalDev => ~WithinTolerance(rows, dev)

\* The first rows are those of tier A until the release; the split is right
\* from the moment it is made, for the clusters it was made for.
SplitInv ==
    /\ {"pc", "questions", "rows", "file", "read"} \subseteq DOMAIN gold
    /\ gold.questions \in QuestionSets /\ clusters \in ClusterFiles
    /\ gold.pc \in {"tier_b", "tier_c", "split"} \cup SplitStages => RowsOk(gold.rows)
    /\ gold.pc \in SplitStages =>
          /\ gold.file \in ClusterFiles
          /\ DevAsPlanned(gold.rows) /\ ClustersWhole(gold.rows, gold.file) /\ Together(gold.rows)
    /\ gold.pc = "infeasible" => NoSplit(gold.rows, gold.file)

\* The facts about numbers that the split rests on.
LEMMA RowsFinite ==
  ASSUME NEW rows, IsSeq(rows)
  PROVE  IsFiniteSet(DOMAIN rows)
BY IsSeqOf, FS_Interval DEF IsSeq

LEMMA ToleranceType ==
  ASSUME NEW s \in DOMAIN DevQuota
  PROVE  DevQuota[s] \in Nat /\ Tolerance(DevQuota[s]) \in Nat
<1> DEFINE q == DevQuota[s]
           share == (15 * q) \div 100
<1>1. q \in Nat /\ MinTolerance \in Nat
  BY GoldenAssumption
<1> HIDE DEF q
<1>2. share \in Nat
  BY <1>1
<1> HIDE DEF share
<1>3. \E x \in {MinTolerance, share} : \A y \in {MinTolerance, share} : x >= y
  BY <1>1, <1>2
<1>4. Max({MinTolerance, share}) \in {MinTolerance, share}
  BY <1>3 DEF Max
<1>5. Tolerance(q) \in Nat
  BY <1>1, <1>2, <1>4 DEF Tolerance, share
<1> QED
  BY <1>1, <1>5 DEF q

\* The rows of what the search finds are the dev rows, as many as planned.
LEMMA FoundIsPlanned ==
  ASSUME NEW rows, IsSeq(rows), NEW dev, Splits(rows, dev)
  PROVE  DevAsPlanned(Assigned(rows, dev))
<1> DEFINE out == Assigned(rows, dev)
<1>1. /\ DOMAIN out = DOMAIN rows
      /\ \A i \in DOMAIN rows : out[i].stratum = rows[i].stratum
            /\ out[i].split = IF rows[i].group \in UNION dev THEN "dev" ELSE "test"
  BY DEF Assigned, Row
<1> HIDE DEF out
<1>2. DevRows(out) = RowsIn(rows, dev) /\ \A s : RowsOf(out, s) = RowsOf(rows, s)
  BY <1>1 DEF DevRows, RowsIn, RowsOf
<1>3. Cardinality(DevRows(out)) = TotalDev /\ WithinTolerance(rows, dev)
  BY <1>2 DEF Splits, SizeOf
<1>4. ASSUME NEW s \in DOMAIN DevQuota
      PROVE  Cardinality(DevRows(out) \cap RowsOf(out, s)) - DevQuota[s]
                 \in -Tolerance(DevQuota[s])..Tolerance(DevQuota[s])
  <2> DEFINE n == Cardinality(RowsIn(rows, dev) \cap RowsOf(rows, s))
  <2>1. n \in Nat
    <3>1. (RowsIn(rows, dev) \cap RowsOf(rows, s)) \in SUBSET DOMAIN rows
      BY DEF RowsIn
    <3> QED
      BY <3>1, RowsFinite, FS_Subset, FS_CardinalityType
  <2>2. n - DevQuota[s] <= Tolerance(DevQuota[s]) /\ DevQuota[s] - n <= Tolerance(DevQuota[s])
    BY <1>3 DEF WithinTolerance
  <2>3. Cardinality(DevRows(out) \cap RowsOf(out, s)) = n
    BY <1>2
  <2> HIDE DEF n
  <2> QED
    BY <2>1, <2>2, <2>3, ToleranceType
<1> QED
  BY <1>3, <1>4 DEF DevAsPlanned, out

\* The dialogues of a small cluster are in one component, so in one split.
LEMMA FoundKeepsClusters ==
  ASSUME NEW rows, IsSeq(rows), NEW file \in ClusterFiles,
         NEW dev \in SUBSET SplitComponents(rows, file)
  PROVE  ClustersWhole(Assigned(rows, dev), file)
<1> DEFINE out == Assigned(rows, dev)
           groups == {rows[i].group : i \in DOMAIN rows}
<1>1. /\ DOMAIN out = DOMAIN rows
      /\ \A i \in DOMAIN rows : out[i].group = rows[i].group
            /\ out[i].split = IF rows[i].group \in UNION dev THEN "dev" ELSE "test"
  BY DEF Assigned, Row
<1>2. \A i \in DOMAIN rows : rows[i].group \in groups
  OBVIOUS
<1>3. \A a, b \in groups : <<a, b>> \in Edges(file) => (a \in UNION dev <=> b \in UNION dev)
  <2>1. IsFiniteSet(groups)
    <3> DEFINE of == [i \in DOMAIN rows |-> rows[i].group]
    <3>1. of \in Surjection(DOMAIN rows, groups)
      BY DEF Surjection
    <3>2. IsFiniteSet(DOMAIN rows)
      BY RowsFinite
    <3> HIDE DEF of, groups
    <3> QED
      BY <3>1, <3>2, FS_Surjection
  <2>2. \A e \in Edges(file) : e = <<e[1], e[2]>>
    BY DEF Edges
  <2>3. SplitComponents(rows, file) = Components(groups, Edges(file))
    BY DEF SplitComponents
  <2> HIDE DEF groups
  <2>4. \A a, b \in groups : <<a, b>> \in Edges(file) =>
            \A c \in Components(groups, Edges(file)) : a \in c <=> b \in c
    BY <2>1, <2>2, ComponentsJoin
  <2> QED
    BY <2>3, <2>4
<1> HIDE DEF out, groups
<1>4. ASSUME NEW i \in DOMAIN rows, NEW j \in DOMAIN rows, NEW c \in file, Cardinality(c) <= MaxCluster,
             NEW a \in c, NEW b \in c, a[1] = rows[i].group, b[1] = rows[j].group
      PROVE  out[i].split = out[j].split
  <2>1. IsFiniteSet(c) /\ Cardinality(c) \in Nat
    BY GoldenAssumption, FS_CardinalityType
  <2>2. CASE a = b
    BY <1>1, <1>4, <2>2
  <2>3. CASE a # b
    <3>1. {a, b} \in SUBSET c /\ Cardinality({a, b}) = 2
      <4>1. IsFiniteSet({a}) /\ Cardinality({a}) = 1 /\ b \notin {a} /\ {a, b} = {a} \cup {b}
        BY <2>3, FS_Singleton
      <4>2. Cardinality({a} \cup {b}) = Cardinality({a}) + 1
        BY <4>1, FS_AddElement
      <4> QED
        BY <4>1, <4>2
    <3>2. 1 < Cardinality(c)
      BY <2>1, <3>1, FS_Subset
    <3>3. <<a[1], b[1]>> \in Edges(file)
      BY <1>4, <3>2 DEF Edges
    <3> QED
      BY <1>1, <1>2, <1>3, <1>4, <3>3
  <2> QED
    BY <2>2, <2>3
<1> QED
  BY <1>1, <1>4 DEF ClustersWhole, out

\* A step that changes neither the split nor what was known about it.
LEMMA SplitKept ==
  ASSUME NEW rows, NEW out, out = [i \in DOMAIN rows |-> out[i]],
         \A i \in DOMAIN rows : /\ out[i].stratum = rows[i].stratum
                                /\ out[i].group = rows[i].group /\ out[i].split = rows[i].split
  PROVE  /\ DevAsPlanned(rows) => DevAsPlanned(out)
         /\ \A file : ClustersWhole(rows, file) => ClustersWhole(out, file)
         /\ Together(rows) => Together(out)
<1>1. DOMAIN out = DOMAIN rows
  OBVIOUS
<1>2. DevRows(out) = DevRows(rows) /\ \A s : RowsOf(out, s) = RowsOf(rows, s)
  BY <1>1 DEF DevRows, RowsOf
<1>3. DevAsPlanned(rows) => DevAsPlanned(out)
  BY <1>2 DEF DevAsPlanned
<1>4. \A file : ClustersWhole(rows, file) => ClustersWhole(out, file)
  BY <1>1 DEF ClustersWhole
<1>5. Together(rows) => Together(out)
  BY <1>1 DEF Together
<1> QED
  BY <1>3, <1>4, <1>5

\* What the search answers, whatever the order it tries the components in.
LEMMA SplitOrRefusal ==
  ASSUME NEW rows, IsSeq(rows), NEW file \in ClusterFiles,
         NEW order \in Orders(SplitComponents(rows, file))
  PROVE  LET found == Search(rows, order)
             out == Assigned(rows, CHOOSE dev \in found : TRUE)
         IN  /\ found = {} => NoSplit(rows, file)
             /\ found # {} => DevAsPlanned(out) /\ ClustersWhole(out, file) /\ Together(out)
<1> DEFINE S == SplitComponents(rows, file)
           found == Search(rows, order)
           chosen == CHOOSE dev \in found : TRUE
<1>1. IsFiniteSet(S)
  <2> DEFINE groups == {rows[i].group : i \in DOMAIN rows}
             of == [i \in DOMAIN rows |-> rows[i].group]
  <2>1. of \in Surjection(DOMAIN rows, groups)
    BY DEF Surjection
  <2>2. S = Components(groups, Edges(file))
    BY DEF SplitComponents
  <2>3. \A e \in Edges(file) : e = <<e[1], e[2]>>
    BY DEF Edges
  <2> HIDE DEF of, groups, S
  <2>4. IsFiniteSet(groups)
    BY <2>1, RowsFinite, FS_Surjection
  <2> QED
    BY <2>2, <2>3, <2>4, ComponentsJoin
<1>2. Cardinality(S) \in Nat /\ order \in [1..Cardinality(S) -> S] /\ Range(order) = S
  BY <1>1, FS_CardinalityType DEF Orders
<1> HIDE DEF S
<1>3. Len(order) \in Nat /\ DOMAIN order = 1..Len(order)
  <2>1. order = [i \in 1..Cardinality(S) |-> order[i]]
    BY <1>2
  <2> QED
    BY <1>2, <2>1, IsSeqOver
<1>4. /\ found = {} \/ \E d \in SUBSET S : found = {d} /\ Splits(rows, d)
      /\ found = {} => \A d \in SUBSET S : ~Splits(rows, d)
  BY <1>2, <1>3, RowsFinite, SearchRight
<1> HIDE DEF found
<1>5. found = {} => NoSplit(rows, file)
  BY <1>4 DEF NoSplit, Splits, SizeOf, S
<1>6. ASSUME found # {}
      PROVE  LET out == Assigned(rows, chosen)
             IN  DevAsPlanned(out) /\ ClustersWhole(out, file) /\ Together(out)
  <2>1. chosen \in SUBSET S /\ Splits(rows, chosen)
    BY <1>4, <1>6
  <2> HIDE DEF chosen
  <2> QED
    BY <2>1, FoundIsPlanned, FoundKeepsClusters, RowsAreMade DEF S
<1> QED
  BY <1>5, <1>6 DEF found

\* The corpus that is read has finitely many messages.
CorpusFinite == WrittenInv /\ IsFiniteSet(Messages)

\* A build writes the messages of a raw corpus, or a part of them.
LEMMA CorpusStaysFinite ==
  ASSUME CorpusFinite, [CorpusNext]_corpusVars
  PROVE  CorpusFinite'
<1>1. WrittenInv'
  BY WrittenStep DEF CorpusFinite
<1>2. IsFiniteSet(DOMAIN disk.messages) /\ FilesShape /\ raw \in RawCorpora
  BY DEF CorpusFinite, WrittenInv, Messages
<1>3. IsFiniteSet(MessageIds(raw)) /\ DOMAIN MessagesFile(raw) = MessageIds(raw)
  BY <1>2, FiniteMessages DEF MessagesFile
<1>4. \A cut \in CutFiles(MessagesFile(raw)) : DOMAIN cut \in SUBSET MessageIds(raw)
  BY <1>3 DEF CutFiles
<1>5. disk'.messages = disk.messages \/ disk'.messages = MessagesFile(raw)
      \/ disk'.messages \in CutFiles(MessagesFile(raw))
  <2>1. CASE UNCHANGED disk
    BY <2>1
  <2>2. ASSUME NEW c \in Contents, BeginCopy(c) \/ CopyObject(c) PROVE disk'.messages = disk.messages
    BY <1>2, <2>2, ObjectWritten DEF FilesShape
  <2>3. ASSUME NEW f \in DOMAIN NextFile, WritePart(f)
        PROVE  disk'.messages = disk.messages \/ disk'.messages \in CutFiles(MessagesFile(raw))
    <3>1. /\ disk'[f] \in Parts(raw, f)
          /\ \A g \in DOMAIN NextFile \ {f} : disk'[g] = disk[g]
      BY <1>2, <2>3, PartWritten
    <3>2. FileOf[raw].messages = MessagesFile(raw)
      BY <1>2 DEF FileOf
    <3> QED
      BY <3>1, <3>2, FilesWritten DEF Parts
  <2>4. ASSUME NEW f \in DOMAIN NextFile, WriteFile(f)
        PROVE  disk'.messages = disk.messages \/ disk'.messages = MessagesFile(raw)
    <3>1. disk'[f] = FileOf[raw][f] /\ \A g \in DOMAIN NextFile \ {f} : disk'[g] = disk[g]
      BY <1>2, <2>4, FileWritten
    <3>2. FileOf[raw].messages = MessagesFile(raw)
      BY <1>2 DEF FileOf
    <3> QED
      BY <3>1, <3>2, FilesWritten
  <2>5. CASE EditRaw \/ StartBuild \/ RefuseMissing \/ StopBuild
    BY <1>2, <2>5, FilesLeft
  <2>6. CASE UNCHANGED corpusVars
    BY <2>6 DEF corpusVars
  <2> QED
    BY <2>2, <2>3, <2>4, <2>5, <2>6 DEF CorpusNext
<1>6. IsFiniteSet(DOMAIN disk'.messages)
  BY <1>2, <1>3, <1>4, <1>5, FS_Subset
<1> QED
  BY <1>1, <1>6 DEF CorpusFinite, Messages

\* There are none at first.
LEMMA FirstCorpusFinite == CorpusInit => CorpusFinite
<1> SUFFICES ASSUME CorpusInit PROVE CorpusFinite
  OBVIOUS
<1>1. WrittenInv
  BY CorpusAssumption DEF CorpusInit, WrittenInv, FilesShape, Writing
<1>2. Messages = {}
  BY DEF CorpusInit, Messages
<1> QED
  BY <1>1, <1>2, FS_EmptySet DEF CorpusFinite

(* Every step keeps the invariant of the split.                              *)
LEMMA SplitStep ==
  ASSUME SplitInv, GateInv, CorpusFinite, BuildOrLabel
  PROVE  SplitInv'
<1>1. /\ {"pc", "questions", "rows", "file", "read"} \subseteq DOMAIN gold
      /\ gold.questions \in QuestionSets /\ clusters \in ClusterFiles
  BY DEF SplitInv
<1>2. CASE gold' = gold /\ clusters' \in ClusterFiles
  <2>1. gold' = gold /\ gold'.pc = gold.pc /\ gold'.rows = gold.rows /\ gold'.file = gold.file
        /\ gold'.questions = gold.questions
    BY <1>2
  <2>2. /\ RowsOk(gold.rows)' <=> RowsOk(gold.rows)
        /\ DevAsPlanned(gold.rows)' <=> DevAsPlanned(gold.rows)
        /\ ClustersWhole(gold.rows, gold.file)' <=> ClustersWhole(gold.rows, gold.file)
        /\ Together(gold.rows)' <=> Together(gold.rows)
        /\ NoSplit(gold.rows, gold.file)' <=> NoSplit(gold.rows, gold.file)
    BY <2>1
  <2> QED
    BY <1>2, <2>1, <2>2 DEF SplitInv
<1>3. CASE ReplaceClusters \/ (CorpusNext /\ UNCHANGED goldVars)
  BY <1>1, <1>2, <1>3 DEF ReplaceClusters, goldVars
<1>4. ASSUME clusters' = clusters, gold' = [gold EXCEPT !.pc = "refused"]
      PROVE  SplitInv'
  <2>1. /\ {"pc", "questions", "rows", "file", "read"} \subseteq DOMAIN gold'
        /\ gold'.pc = "refused" /\ gold'.questions = gold.questions
    BY <1>1, <1>4
  <2> QED
    BY <1>1, <1>4, <2>1 DEF SplitInv, SplitStages
<1>5. ASSUME clusters' = clusters, NEW pc \in {"tier_b", "tier_c", "split"}, NEW rows, RowsOk(rows),
             gold' = [gold EXCEPT !.pc = pc, !.rows = rows]
      PROVE  SplitInv'
  <2>1. /\ {"pc", "questions", "rows", "file", "read"} \subseteq DOMAIN gold'
        /\ gold'.pc = pc /\ gold'.rows = rows /\ gold'.questions = gold.questions
    BY <1>1, <1>5
  <2> QED
    BY <1>1, <1>5, <2>1 DEF SplitInv, SplitStages
<1>6. CASE BuildTierA
  <2> DEFINE places == {i \in DOMAIN gold.questions : gold.questions[i].image}
             images == Chosen(gold.questions, places)
  <2>1. clusters' = clusters
        /\ \/ gold' = [gold EXCEPT !.pc = "refused"]
           \/ Len(images) = TierACount /\ gold' = [gold EXCEPT !.pc = "tier_b", !.rows = TierA(images)]
    BY <1>6 DEF BuildTierA, Pass, Refuse
  <2>2. IsFiniteSet(places)
    <3>1. IsSeq(gold.questions)
      BY <1>1, GoldenAssumption DEF IsSeq
    <3>2. places \in SUBSET DOMAIN gold.questions
      OBVIOUS
    <3> QED
      BY <3>1, <3>2, RowsFinite, FS_Subset
  <2> HIDE DEF places
  <2>3. Len(images) = TierACount => DOMAIN images = 1..TierACount
    BY <2>2, ChosenIsSeq
  <2> HIDE DEF images
  <2>4. Len(images) = TierACount => RowsOk(TierA(images))
    BY <2>3, TierAMeetsQuotas
  <2> QED
    BY <1>4, <1>5, <2>1, <2>4
<1>7. CASE BuildTierB
  <2> DEFINE rows == gold.rows \o TierB(gold.questions)
  <2>1. clusters' = clusters /\ gold.pc = "tier_b"
        /\ \/ gold' = [gold EXCEPT !.pc = "refused"]
           \/ gold' = [gold EXCEPT !.pc = "tier_c", !.rows = rows]
    BY <1>7 DEF BuildTierB, Pass, Refuse
  <2>2. IsSeq(TierB(gold.questions))
    BY <1>1, GoldenAssumption, TierBIsSeq DEF IsSeq, CorpusFinite
  <2>3. RowsOk(rows)
    BY <2>1, <2>2, MoreTiers DEF SplitInv
  <2> HIDE DEF rows
  <2> QED
    BY <1>4, <1>5, <2>1, <2>3
<1>8. CASE BuildTierC
  <2> DEFINE rows == gold.rows \o TierC(gold.questions)
  <2>1. clusters' = clusters /\ gold.pc = "tier_c"
        /\ \/ gold' = [gold EXCEPT !.pc = "refused"]
           \/ gold' = [gold EXCEPT !.pc = "split", !.rows = rows]
    BY <1>8 DEF BuildTierC, Pass, Refuse
  <2>2. IsSeq(TierC(gold.questions))
    BY <1>1, GoldenAssumption, TierCIsSeq DEF IsSeq
  <2>3. RowsOk(rows)
    BY <2>1, <2>2, MoreTiers DEF SplitInv
  <2> HIDE DEF rows
  <2> QED
    BY <1>4, <1>5, <2>1, <2>3
<1>9. CASE AssignSplits
  <2>1. PICK order \in Orders(SplitComponents(gold.rows, clusters)) :
           LET found == Search(gold.rows, order)
           IN  gold' = [gold EXCEPT !.file = clusters,
                                    !.pc = IF found = {} THEN "infeasible" ELSE "gate",
                                    !.rows = IF found = {} THEN @ ELSE Assigned(@, CHOOSE dev \in found : TRUE)]
    BY <1>9 DEF AssignSplits
  <2>2. gold.pc = "split" /\ clusters' = clusters
    BY <1>9 DEF AssignSplits
  <2> DEFINE found == Search(gold.rows, order)
             dev == CHOOSE d \in found : TRUE
             out == Assigned(gold.rows, dev)
  <2>3. gold' = [gold EXCEPT !.file = clusters, !.pc = IF found = {} THEN "infeasible" ELSE "gate",
                             !.rows = IF found = {} THEN gold.rows ELSE out]
    BY <2>1
  <2>4. RowsOk(gold.rows)
    BY <2>2 DEF SplitInv
  <2>5. /\ found = {} => NoSplit(gold.rows, clusters)
        /\ found # {} => DevAsPlanned(out) /\ ClustersWhole(out, clusters) /\ Together(out)
    BY <1>1, <2>4, SplitOrRefusal DEF RowsOk
  <2>6. RowsOk(out)
    <3>1. out = [i \in DOMAIN gold.rows |-> out[i]] /\ \A i \in DOMAIN gold.rows : out[i].stratum = gold.rows[i].stratum
      BY DEF Assigned, Row
    <3> HIDE DEF out
    <3> QED
      BY <2>4, <3>1, SameStrata
  <2> HIDE DEF out, found, dev
  <2>7. /\ {"pc", "questions", "rows", "file", "read"} \subseteq DOMAIN gold'
        /\ gold'.pc = (IF found = {} THEN "infeasible" ELSE "gate")
        /\ gold'.rows = (IF found = {} THEN gold.rows ELSE out)
        /\ gold'.file = clusters /\ gold'.questions = gold.questions
    BY <1>1, <2>3
  <2>8. CASE found = {}
    BY <1>1, <2>2, <2>5, <2>7, <2>8 DEF SplitInv, SplitStages
  <2>9. CASE found # {}
    BY <1>1, <2>2, <2>5, <2>6, <2>7, <2>9 DEF SplitInv, SplitStages
  <2> QED
    BY <2>8, <2>9
<1>10. CASE AntiLeakGate
  <2> DEFINE out == GatedRows(gold.rows, Messages)
             ok == Messages # {} /\ ~TooLeaky(out, Messages) /\ ~Saturated(out, Messages)
  <2>1. /\ gold.pc = "gate" /\ clusters' = clusters
        /\ gold' = [gold EXCEPT !.pc = IF ok THEN "judge" ELSE "refused",
                                !.rows = IF ok THEN out ELSE gold.rows, !.read = Messages]
    BY <1>10 DEF AntiLeakGate
  <2>2. /\ RowsOk(gold.rows) /\ gold.file \in ClusterFiles
        /\ DevAsPlanned(gold.rows) /\ ClustersWhole(gold.rows, gold.file) /\ Together(gold.rows)
    BY <2>1 DEF SplitInv, SplitStages
  <2>3. /\ out = [i \in DOMAIN gold.rows |-> out[i]]
        /\ \A i \in DOMAIN gold.rows :
              /\ out[i].stratum = gold.rows[i].stratum
              /\ out[i].group = gold.rows[i].group /\ out[i].split = gold.rows[i].split
    BY <2>1, GatedRowsKeep DEF GateInv
  <2> HIDE DEF out, ok
  <2>4. RowsOk(out)
    BY <2>2, <2>3, SameStrata
  <2>5. DevAsPlanned(out) /\ ClustersWhole(out, gold.file) /\ Together(out)
    BY <2>2, <2>3, SplitKept
  <2>6. /\ {"pc", "questions", "rows", "file", "read"} \subseteq DOMAIN gold'
        /\ gold'.pc = (IF ok THEN "judge" ELSE "refused") /\ gold'.rows = (IF ok THEN out ELSE gold.rows)
        /\ gold'.file = gold.file /\ gold'.questions = gold.questions
    BY <1>1, <2>1
  <2>7. CASE ok
    BY <1>1, <2>1, <2>2, <2>4, <2>5, <2>6, <2>7 DEF SplitInv, SplitStages
  <2>8. CASE ~ok
    BY <1>1, <2>1, <2>6, <2>8 DEF SplitInv, SplitStages
  <2> QED
    BY <2>7, <2>8
<1>11. CASE JudgeMultiHop
  <2>1. /\ gold.pc = "judge" /\ clusters' = clusters
        /\ \/ gold' = [gold EXCEPT !.pc = "done", !.rows = gold.rows]
           \/ gold' = [gold EXCEPT !.pc = "refused"]
    BY <1>11 DEF JudgeMultiHop, Pass, Refuse
  <2>2. CASE gold' = [gold EXCEPT !.pc = "done", !.rows = gold.rows]
    <3>1. /\ {"pc", "questions", "rows", "file", "read"} \subseteq DOMAIN gold'
          /\ gold'.pc = "done" /\ gold'.rows = gold.rows
          /\ gold'.file = gold.file /\ gold'.questions = gold.questions
      BY <1>1, <2>2
    <3>2. /\ RowsOk(gold.rows) /\ gold.file \in ClusterFiles
          /\ DevAsPlanned(gold.rows) /\ ClustersWhole(gold.rows, gold.file) /\ Together(gold.rows)
      BY <2>1 DEF SplitInv, SplitStages
    <3> QED
      BY <1>1, <2>1, <3>1, <3>2 DEF SplitInv, SplitStages
  <2> QED
    BY <1>4, <2>1, <2>2
<1> QED
  BY <1>3, <1>6, <1>7, <1>8, <1>9, <1>10, <1>11 DEF BuildOrLabel, GoldenNext

(* The first rows meet the quotas of tier A through all the stages, and the   *)
(* split that AssignSplits made, or its reason to refuse, stays true of the   *)
(* rows and of the clusters it read, whatever is built in between.            *)
THEOREM SplitInductive == GoldenSpec => []SplitInv
<1>1. CorpusInit => CorpusFinite
  BY FirstCorpusFinite
<1>2. GoldenInit => SplitInv
  BY DEF GoldenInit, SplitInv, SplitStages
<1>3. CorpusFinite /\ [BuildOrLabel]_datasetVars => CorpusFinite'
  <2>1. [BuildOrLabel]_datasetVars => [CorpusNext]_corpusVars \/ UNCHANGED <<raw, disk, norm>>
    BY DEF BuildOrLabel, GoldenNext, datasetVars, corpusVars, ReplaceClusters, BuildTierA, BuildTierB,
           BuildTierC, AssignSplits, AntiLeakGate, JudgeMultiHop
  <2>2. CorpusFinite /\ UNCHANGED <<raw, disk, norm>> => CorpusFinite'
    BY DEF CorpusFinite, WrittenInv, FilesShape, Messages
  <2> QED
    BY <2>1, <2>2, CorpusStaysFinite
<1>4. SplitInv /\ GateInv /\ CorpusFinite /\ [BuildOrLabel]_datasetVars => SplitInv'
  <2> SUFFICES ASSUME SplitInv, UNCHANGED datasetVars PROVE SplitInv'
    BY SplitStep
  <2>1. gold' = gold /\ clusters' = clusters
    BY DEF datasetVars, goldVars
  <2> QED
    BY <2>1 DEF SplitInv
<1> QED
  BY <1>1, <1>2, <1>3, <1>4, GateInductive, PTL DEF GoldenSpec

(* Whatever the questions, their order and preferences, the corpus, the       *)
(* clusters and the order of the search: tier A has just its quotas, the dev *)
(* rows are as many as planned and within the tolerance of every stratum, no *)
(* small cluster of near duplicates has images in both splits and no         *)
(* dialogue has rows in both; and a split is refused as infeasible only if   *)
(* no union of the linked dialogues would have done (builder.py:288).        *)
THEOREM SplitIsSound == GoldenSpec => []SplitSound
<1>1. SplitInv => SplitSound
  <2> SUFFICES ASSUME SplitInv PROVE SplitSound
    OBVIOUS
  <2>1. CASE gold.pc \in {"gate", "judge", "done"}
    <3>1. /\ QuotasMet(gold.rows) /\ DevAsPlanned(gold.rows)
          /\ ClustersWhole(gold.rows, gold.file) /\ Together(gold.rows)
      BY <2>1 DEF SplitInv, SplitStages, RowsOk
    <3> QED
      BY <2>1, <3>1 DEF SplitSound, QuotasMet, Strata, DevAsPlanned, DevRows, ClustersWhole
  <2>2. CASE gold.pc = "infeasible"
    BY <2>2 DEF SplitInv, SplitSound, NoSplit
  <2> QED
    BY <2>1, <2>2 DEF SplitSound
<1> QED
  BY <1>1, SplitInductive, PTL
=============================================================================
