---------------------------- MODULE VisualBuild ----------------------------
(***************************************************************************)
(* The visual artifacts (src/artifacts/visual/pipeline.py) and their import *)
(* into pgvector (src/ingest/phase3.py).  Builds by several operators share *)
(* one output directory: they encode the images batch by batch into chunk   *)
(* files, which a later build takes over, stack the chunks into a matrix    *)
(* and write the artifact's files one after the other, the manifest last.   *)
(*                                                                         *)
(* A vector is [of, enc]: the content it was computed from and the version  *)
(* of the encoder.  Near duplicates are pairs of contents that are Similar  *)
(* (cosine, one encoder) or AlikeHash (perceptual hash).                    *)
(***************************************************************************)
EXTENDS Corpus, UnionFind

CONSTANTS Operators, Encoders, FirstEncoder, BatchSize, Similar, AlikeHash,
          MaxBuilds,
          NoFile, Torn   \* a file that is not there, or cut short

ASSUME VisualAssumption ==
    /\ FirstEncoder \in Encoders /\ BatchSize \in Nat \ {0} /\ MaxBuilds \in Nat
    /\ Similar \subseteq Contents \X Contents /\ AlikeHash \subseteq Contents \X Contents

VARIABLES encoder,   \* the version of the encoder a build started now would load
          dir,       \* .embedding_chunks exists
          chunks,    \* start |-> sequence of vectors; Torn while it is written
          art,       \* the files matrix, index, clusters and manifest
          ops,       \* the builds: pc, rows, enc, next, matrix
          builds,    \* how many were begun
          imp,       \* the import: pc, the artifact and media it validated
          emb,       \* media_embeddings
          spoiled    \* history: what could have mixed up an artifact
visualVars == <<encoder, dir, chunks, art, ops, builds, imp, emb, spoiled>>

Idle == [pc |-> "idle", rows |-> <<>>, enc |-> FirstEncoder, next |-> 0, matrix |-> <<>>]
NoImport == [pc |-> "idle", art |-> NoFile, rows |-> <<>>]

\* _media_rows: the rows of media.jsonl, sorted by id.
MediaRows == LET m == disk.media
                 ids == InOrder(DOMAIN m, LexLess)
             IN  [i \in DOMAIN ids |-> [id |-> ids[i], of |-> m[ids[i]]]]
Batch(rows, start) ==
    SubSeq(rows, start + 1, IF start + BatchSize < Len(rows) THEN start + BatchSize ELSE Len(rows))
Encoded(rows, enc) == [i \in DOMAIN rows |-> [of |-> rows[i].of, enc |-> enc]]
Starts(rows) == {s \in 0..(Len(rows) - 1) : s % BatchSize = 0}

\* Two vectors or two images close enough to be one; one edge per pair, and
\* the clusters are what the edges connect.
NearDuplicate(rows, matrix, i, j) ==
    \/ matrix[i].enc = matrix[j].enc /\ <<matrix[i].of, matrix[j].of>> \in Similar
    \/ <<rows[i].of, rows[j].of>> \in AlikeHash
NearDupClusters(rows, matrix) ==
    LET near == {p \in (DOMAIN rows) \X (DOMAIN rows) :
                    p[1] < p[2] /\ NearDuplicate(rows, matrix, p[1], p[2])}
    IN  {{rows[i].id : i \in c} : c \in Components(DOMAIN rows, near)}

-----------------------------------------------------------------------------
VisualInit ==
    /\ encoder = FirstEncoder /\ dir = FALSE /\ chunks = <<>>
    /\ art = [matrix |-> NoFile, index |-> NoFile, clusters |-> NoFile, manifest |-> NoFile]
    /\ ops = [o \in Operators |-> Idle] /\ builds = 0
    /\ imp = NoImport
    /\ emb = <<>> /\ spoiled = {}

At(o, pc) == ops[o].pc = pc
Goto(o, pc) == ops' = [ops EXCEPT ![o].pc = pc]
Fail(o) == ops' = [ops EXCEPT ![o] = Idle]

\* Somebody installs another revision of the model.
UpgradeEncoder ==
    /\ edits < MaxEdits /\ edits' = edits + 1
    /\ encoder' \in Encoders \ {encoder}
    /\ UNCHANGED <<raw, disk, norm, crashes, dir, chunks, art, builds, ops, imp, emb, spoiled>>

BeginBuild(o) ==
    /\ At(o, "idle") /\ MediaRows # <<>>
    /\ builds < MaxBuilds /\ builds' = builds + 1
    /\ ops' = [ops EXCEPT ![o] = [Idle EXCEPT !.pc = "batch", !.rows = MediaRows, !.enc = encoder]]
    /\ dir' = TRUE
    /\ UNCHANGED <<corpusVars, encoder, chunks, art, imp, emb, spoiled>>

\* One batch: a chunk that is there is loaded, else the images are encoded.
\* Either way every image is read (for its perceptual hash), so an object
\* that is missing or cut short ends the build.
Images(o) == {b.of : b \in Range(Batch(ops[o].rows, ops[o].next))}
TakeBatch(o) ==
    LET own == Batch(ops[o].rows, ops[o].next)
        start == ops[o].next
    IN  /\ At(o, "batch") /\ start < Len(ops[o].rows)
        /\ IF \E c \in Images(o) : disk.objects[c] # "whole" THEN Fail(o) /\ UNCHANGED spoiled
           ELSE IF start \notin DOMAIN chunks THEN Goto(o, "encode") /\ UNCHANGED spoiled
           ELSE IF chunks[start] = Torn \/ Len(chunks[start]) # Len(own) THEN Fail(o) /\ UNCHANGED spoiled
           ELSE /\ ops' = [ops EXCEPT ![o].next = start + BatchSize]
                /\ spoiled' = IF chunks[start] = Encoded(own, ops[o].enc) THEN spoiled
                              ELSE spoiled \cup {"chunk"}
        /\ UNCHANGED <<corpusVars, encoder, dir, chunks, art, builds, imp, emb>>

\* np.save truncates the file and fills it; the directory may be gone.
OpenChunk(o) ==
    /\ At(o, "encode")
    /\ IF dir THEN Goto(o, "save") /\ chunks' = (ops[o].next :> Torn) @@ chunks
       ELSE Fail(o) /\ UNCHANGED chunks
    /\ UNCHANGED <<corpusVars, encoder, dir, art, builds, imp, emb, spoiled>>
SaveChunk(o) ==
    LET start == ops[o].next
    IN  /\ At(o, "save")
        /\ chunks' = IF start \in DOMAIN chunks
                     THEN [chunks EXCEPT ![start] = Encoded(Batch(ops[o].rows, start), ops[o].enc)]
                     ELSE chunks
        /\ ops' = [ops EXCEPT ![o].pc = "batch", ![o].next = start + BatchSize]
        /\ UNCHANGED <<corpusVars, encoder, dir, art, builds, imp, emb, spoiled>>

\* Files two builds write for different rows or encoders at one time.
SameInput(o, p) == ops[o].rows = ops[p].rows /\ ops[o].enc = ops[p].enc
Overlap(o) ==
    IF \E p \in Operators \ {o} : ops[p].pc # "idle" /\ ~SameInput(o, p)
    THEN spoiled \cup {"overlap"} ELSE spoiled

\* np.vstack reads the chunk files again.
StackChunks(o) ==
    LET starts == InOrder(Starts(ops[o].rows), <)
        matrix == FlattenSeq([i \in DOMAIN starts |-> chunks[starts[i]]])
    IN  /\ At(o, "batch") /\ ops[o].next >= Len(ops[o].rows)
        /\ IF \E s \in Starts(ops[o].rows) : s \notin DOMAIN chunks \/ chunks[s] = Torn
           THEN Fail(o) /\ UNCHANGED <<art, spoiled>>
           ELSE /\ ops' = [ops EXCEPT ![o].pc = "index", ![o].matrix = matrix]
                /\ art' = [art EXCEPT !.matrix = matrix]
                /\ spoiled' = Overlap(o) \cup (IF matrix = Encoded(ops[o].rows, ops[o].enc) THEN {} ELSE {"chunk"})
        /\ UNCHANGED <<corpusVars, encoder, dir, chunks, builds, imp, emb>>
WriteIndex(o) ==
    /\ At(o, "index") /\ Goto(o, "clusters")
    /\ art' = [art EXCEPT !.index = [i \in DOMAIN ops[o].rows |-> ops[o].rows[i].id]]
    /\ spoiled' = Overlap(o)
    /\ UNCHANGED <<corpusVars, encoder, dir, chunks, builds, imp, emb>>
\* A matrix stacked from another build's shorter chunks ends the build here.
LeftIndex ==
    IF art.manifest \in {NoFile, Torn} \/ art.index = [i \in DOMAIN art.manifest.input |-> art.manifest.input[i].id]
    THEN spoiled ELSE spoiled \cup {"index"}
WriteClusters(o) ==
    /\ At(o, "clusters")
    /\ IF Len(ops[o].matrix) < Len(ops[o].rows)
       THEN Fail(o) /\ spoiled' = LeftIndex /\ UNCHANGED art
       ELSE /\ Goto(o, "manifest") /\ spoiled' = Overlap(o)
            /\ art' = [art EXCEPT !.clusters = NearDupClusters(ops[o].rows, ops[o].matrix)]
    /\ UNCHANGED <<corpusVars, encoder, dir, chunks, builds, imp, emb>>
\* The matrix hash is that of the file as it is now.
WriteManifest(o) ==
    /\ At(o, "manifest") /\ Goto(o, "clean")
    /\ art' = [art EXCEPT !.manifest = [input |-> ops[o].rows, version |-> ops[o].enc,
                                        count |-> Len(ops[o].rows), matrix |-> art.matrix]]
    /\ spoiled' = Overlap(o)
    /\ UNCHANGED <<corpusVars, encoder, dir, chunks, builds, imp, emb>>
RemoveChunks(o) ==
    /\ At(o, "clean") /\ Fail(o)
    /\ dir' = FALSE /\ chunks' = <<>>
    /\ UNCHANGED <<corpusVars, encoder, art, builds, imp, emb, spoiled>>

\* A build is interrupted; the file it was writing may be cut short.  An
\* index that stays behind for other media than the manifest's is noted.
InterruptBuild(o) ==
    /\ ops[o].pc # "idle" /\ crashes < MaxCrashes /\ crashes' = crashes + 1
    /\ Fail(o)
    /\ \/ UNCHANGED art
       \/ At(o, "index") /\ art' = [art EXCEPT !.index = Torn]
       \/ At(o, "clusters") /\ art' = [art EXCEPT !.clusters = Torn]
       \/ At(o, "manifest") /\ art' = [art EXCEPT !.manifest = Torn]
       \/ At(o, "batch") /\ ops[o].next >= Len(ops[o].rows) /\ art' = [art EXCEPT !.matrix = Torn]
    /\ spoiled' = IF At(o, "clusters") \/ At(o, "manifest") THEN LeftIndex ELSE spoiled
    /\ UNCHANGED <<raw, disk, norm, edits, encoder, dir, chunks, builds, imp, emb>>

-----------------------------------------------------------------------------
\* validate_visual_artifact.  The expected version is read from the manifest
\* itself, so only the input set and the matrix are really compared.
InputMatches_CountOnly(m) == m.count = Len(MediaRows)
InputMatches(m) == m.input = MediaRows
MatrixMatches(m) == m.matrix = art.matrix /\ art.matrix # Torn /\ Len(art.matrix) = m.count
ValidateArtifact ==
    /\ imp.pc = "idle"
    /\ art.manifest \notin {NoFile, Torn}
    /\ InputMatches(art.manifest) /\ MatrixMatches(art.manifest)
    /\ imp' = [pc |-> "load", art |-> art, rows |-> MediaRows]
    /\ UNCHANGED <<corpusVars, encoder, dir, chunks, art, builds, ops, emb, spoiled>>

\* import_visual_embeddings reads the matrix and the index after the
\* validation, and upserts one row per media id in one transaction.  It races
\* a build when the files are not those it validated, or when a build has
\* written its index and not yet the manifest of it.
Fits(m) ==
    /\ art.matrix # Torn /\ art.index \notin {NoFile, Torn}
    /\ Len(art.matrix) = m.count /\ Len(art.index) = m.count
Imported(id) ==
    LET i == CHOOSE j \in DOMAIN art.index : art.index[j] = id
    IN  [vec |-> art.matrix[i], version |-> imp.art.manifest.version,
         media |-> {imp.rows[j].of : j \in {k \in DOMAIN imp.rows : imp.rows[k].id = id}}]
ImportEmbeddings ==
    /\ imp.pc = "load"
    /\ imp' = NoImport
    /\ emb' = IF ~Fits(imp.art.manifest) THEN emb
              ELSE [id \in DOMAIN emb \cup Range(art.index) |->
                      IF id \in Range(art.index) THEN Imported(id) ELSE emb[id]]
    /\ spoiled' = IF art # imp.art \/ \E o \in Operators : ops[o].pc \in {"clusters", "manifest"}
                  THEN spoiled \cup {"race"} ELSE spoiled
    /\ UNCHANGED <<corpusVars, encoder, dir, chunks, art, builds, ops>>

BuildStep(o) ==
    \/ BeginBuild(o) \/ TakeBatch(o) \/ OpenChunk(o) \/ SaveChunk(o) \/ StackChunks(o)
    \/ WriteIndex(o) \/ WriteClusters(o) \/ WriteManifest(o) \/ RemoveChunks(o) \/ InterruptBuild(o)
VisualNext == UpgradeEncoder \/ ValidateArtifact \/ ImportEmbeddings \/ \E o \in Operators : BuildStep(o)

\* Corpus builds and visual builds beside each other.
offlineVars == <<corpusVars, visualVars>>
BuildOrEmbed == VisualNext \/ (CorpusNext /\ UNCHANGED visualVars)
VisualSpec == CorpusInit /\ VisualInit /\ [][BuildOrEmbed]_offlineVars

-----------------------------------------------------------------------------
\* Properties.

\* Every imported vector was computed from the content its media row had when
\* the artifact was validated, by the encoder version it is stored under:
\* validate_visual_artifact is to "reject an artifact before a downstream phase
\* can consume stale visual state".
EmbeddingsNeverStale ==
    \A id \in DOMAIN emb :
        /\ emb[id].media = {emb[id].vec.of}
        /\ emb[id].version = emb[id].vec.enc

\* They are, whatever build was interrupted between two writes, whatever media
\* changed and whatever encoder was installed, unless one of the four mix-ups
\* happened that the manifest cannot show (phase3.py:40): a chunk of another
\* input was taken over, builds over different inputs overlapped, an
\* interrupted build left its index, or the import raced a build.
VectorsAreTheirMedia == spoiled = {} => EmbeddingsNeverStale
=============================================================================
