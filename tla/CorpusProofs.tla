---------------------------- MODULE CorpusProofs ----------------------------
(***************************************************************************)
(* Theorems about Corpus and Seeding, for any raw corpora, edits, stopped  *)
(* builds, server starts and live messages.                                *)
(***************************************************************************)
EXTENDS Seeding, OrderFacts, FiniteSetTheorems, TLAPS

-----------------------------------------------------------------------------
(* The bytes behind the media rows.                                         *)

Present(c) == c \in Contents /\ disk.objects[c] # "absent"

\* The records keep their fields.
FilesShape ==
    /\ DOMAIN disk = {"objects", "messages", "media", "channels", "senders", "members", "made", "short"}
    /\ DOMAIN disk.objects = Contents
    /\ DOMAIN norm = {"pc", "todo", "open"}
TablesShape ==
    /\ DOMAIN db = {"rows", "media", "channels", "senders", "members", "last", "feed", "migrated", "short", "owed"}
    /\ DOMAIN srv = {"pc", "todo"}
    /\ DOMAIN store = Contents

\* The build has written messages.jsonl.
Writing == {"media", "channels", "senders", "members"}

\* A media file is written after every object it names is there, whole or cut.
FilesBehindMedia ==
    /\ raw \in RawCorpora
    /\ norm.pc = "objects" => \A c \in ImagesOf(raw) : c \in norm.todo \/ Present(c)
    /\ norm.pc \in Writing => \A c \in ImagesOf(raw) : Present(c)
    /\ \A id \in DOMAIN disk.media : Present(disk.media[id])

\* The bucket holds nothing but what it should; what is still missing of it
\* stands in the way of a seeding start and is owed until one has listened.
ObjectsBehindRows ==
    /\ \A id \in DOMAIN db.media : Present(db.media[id])
    /\ \A c \in Contents : store[c] \in {"absent", "whole"}
    /\ srv.pc = "objects" =>
          \A id \in DOMAIN db.media : db.media[id] \in srv.todo \/ store[db.media[id]] = "whole"
    /\ ~db.owed => \A id \in DOMAIN db.media : store[db.media[id]] = "whole"

ServingInv == FilesShape /\ TablesShape /\ FilesBehindMedia /\ ObjectsBehindRows

LEMMA ImagesKnown ==
  ASSUME NEW r \in RawCorpora
  PROVE  ImagesOf(r) \subseteq Contents \cup {Missing}
<1>1. \A id \in MessageIds(r) : Turn(r, id).img \in Contents \cup {Missing, NoImage}
  BY RawAssumption
<1> QED
  BY <1>1 DEF ImagesOf, Referenced

LEMMA MediaFileOfImages ==
  \A r : /\ DOMAIN MediaFile(r) = Referenced(r)
         /\ \A id \in DOMAIN MediaFile(r) : MediaFile(r)[id] \in ImagesOf(r)
BY DEF MediaFile, ImagesOf

LEMMA CutsOfMedia ==
  ASSUME NEW r, NEW cut \in CutFiles(MediaFile(r))
  PROVE  \A id \in DOMAIN cut : cut[id] \in ImagesOf(r)
<1>1. PICK c : cut = [id \in {i \in DOMAIN MediaFile(r) : LexLess(i, c)} |-> MediaFile(r)[id]]
  BY DEF CutFiles
<1> QED
  BY <1>1, MediaFileOfImages

LEMMA FilesWritten == DOMAIN NextFile = {"messages", "media", "channels", "senders", "members"}
BY DEF NextFile

(* What the writing of a part of a file, and of the whole file, changes.    *)
LEMMA PartWritten ==
  ASSUME FilesShape, NEW f \in DOMAIN NextFile, WritePart(f)
  PROVE  /\ FilesShape' /\ raw' = raw
         /\ norm.todo = {} /\ norm.pc = IF f = "messages" THEN "objects" ELSE f
         /\ norm'.pc = norm.pc /\ norm'.todo = {}
         /\ disk'.objects = disk.objects /\ disk'[f] \in Parts(raw, f)
         /\ \A g \in DOMAIN NextFile \ {f} : disk'[g] = disk[g]
         /\ disk'.short = (disk.short \/ f = "messages")
<1>1. f \in {"messages", "media", "channels", "senders", "members"}
  BY FilesWritten
<1>2. PICK part \in Parts(raw, f) :
        disk' = [disk EXCEPT ![f] = part, !.short = @ \/ f = "messages", !.made = @ \/ f = "members"]
  BY DEF WritePart
<1>3. norm' = [norm EXCEPT !.open = {f}] /\ raw' = raw /\ Reached(f)
  BY DEF WritePart
<1>4. /\ DOMAIN disk' = DOMAIN disk /\ disk'[f] = part /\ disk'.objects = disk.objects
      /\ \A g \in {"messages", "media", "channels", "senders", "members"} \ {f} : disk'[g] = disk[g]
      /\ disk'.short = (disk.short \/ f = "messages")
  BY <1>1, <1>2 DEF FilesShape
<1>5. DOMAIN norm' = DOMAIN norm /\ norm'.pc = norm.pc /\ norm'.todo = norm.todo
  BY <1>3 DEF FilesShape
<1> QED
  BY <1>2, <1>3, <1>4, <1>5, FilesWritten DEF FilesShape, Reached

LEMMA FileWritten ==
  ASSUME FilesShape, NEW f \in DOMAIN NextFile, WriteFile(f)
  PROVE  /\ FilesShape' /\ raw' = raw
         /\ norm.todo = {} /\ norm.pc = IF f = "messages" THEN "objects" ELSE f
         /\ norm'.pc = NextFile[f]
         /\ disk'.objects = disk.objects /\ disk'[f] = FileOf[raw][f]
         /\ \A g \in DOMAIN NextFile \ {f} : disk'[g] = disk[g]
         /\ disk'.short = (disk.short /\ f # "messages")
<1>1. f \in {"messages", "media", "channels", "senders", "members"}
  BY FilesWritten
<1>2. /\ disk' = [disk EXCEPT ![f] = FileOf[raw][f], !.short = @ /\ f # "messages", !.made = @ \/ f = "members"]
      /\ norm' = [norm EXCEPT !.pc = NextFile[f], !.open = {}]
      /\ raw' = raw /\ Reached(f)
  BY DEF WriteFile
<1>3. /\ DOMAIN disk' = DOMAIN disk /\ disk'[f] = FileOf[raw][f] /\ disk'.objects = disk.objects
      /\ \A g \in {"messages", "media", "channels", "senders", "members"} \ {f} : disk'[g] = disk[g]
      /\ disk'.short = (disk.short /\ f # "messages")
  BY <1>1, <1>2 DEF FilesShape
<1>4. DOMAIN norm' = DOMAIN norm /\ norm'.pc = NextFile[f]
  BY <1>2 DEF FilesShape
<1> QED
  BY <1>2, <1>3, <1>4, FilesWritten DEF FilesShape, Reached

(* An object is begun or copied; the files and the raw data stay.           *)
LEMMA ObjectWritten ==
  ASSUME FilesShape, NEW c \in Contents, BeginCopy(c) \/ CopyObject(c)
  PROVE  /\ FilesShape' /\ raw' = raw
         /\ norm.pc = "objects" /\ norm'.pc = "objects" /\ norm.todo \subseteq norm'.todo \cup {c}
         /\ \A g \in DOMAIN disk \ {"objects"} : disk'[g] = disk[g]
         /\ disk'.objects[c] # "absent" /\ \A d \in Contents \ {c} : disk'.objects[d] = disk.objects[d]
<1>1. CASE BeginCopy(c)
  <2>1. /\ disk' = [disk EXCEPT !.objects[c] = "partial"] /\ norm' = [norm EXCEPT !.open = {c}]
        /\ norm.pc = "objects" /\ raw' = raw
    BY <1>1 DEF BeginCopy
  <2>2. DOMAIN norm' = DOMAIN norm /\ norm'.pc = "objects" /\ norm'.todo = norm.todo
    BY <2>1 DEF FilesShape
  <2> QED
    BY <2>1, <2>2 DEF FilesShape
<1>2. CASE CopyObject(c)
  <2>1. /\ disk' = [disk EXCEPT !.objects[c] = Copied(c)]
        /\ norm' = [norm EXCEPT !.todo = @ \ {c}, !.open = {}]
        /\ norm.pc = "objects" /\ raw' = raw
    BY <1>2 DEF CopyObject
  <2>2. Copied(c) # "absent"
    BY DEF Copied
  <2>3. DOMAIN norm' = DOMAIN norm /\ norm'.pc = "objects" /\ norm'.todo = norm.todo \ {c}
    BY <2>1 DEF FilesShape
  <2> QED
    BY <2>1, <2>2, <2>3 DEF FilesShape
<1> QED
  BY <1>1, <1>2

(* An editor, the start of a build and its two ends leave the files alone.  *)
LEMMA FilesLeft ==
  ASSUME FilesShape, raw \in RawCorpora, EditRaw \/ StartBuild \/ RefuseMissing \/ StopBuild
  PROVE  /\ FilesShape' /\ raw' \in RawCorpora /\ disk' = disk
         /\ \/ norm'.pc = "idle"
            \/ norm'.pc = "objects" /\ raw' = raw /\ ImagesOf(raw) \subseteq norm'.todo
<1>1. CASE EditRaw
  BY <1>1 DEF EditRaw, FilesShape
<1>2. CASE StartBuild
  <2>1. PICK todo : norm' = [pc |-> "objects", todo |-> ImagesOf(raw) \cup todo, open |-> {}]
    BY <1>2 DEF StartBuild
  <2>2. UNCHANGED <<raw, disk>>
    BY <1>2 DEF StartBuild
  <2> QED
    BY <2>1, <2>2 DEF FilesShape
<1>3. CASE RefuseMissing
  BY <1>3 DEF RefuseMissing, FilesShape
<1>4. CASE StopBuild
  BY <1>4 DEF StopBuild, FilesShape
<1> QED
  BY <1>1, <1>2, <1>3, <1>4

(* A step of the build or of an editor keeps the files in shape and removes *)
(* no object.                                                               *)
LEMMA CorpusStep ==
  ASSUME FilesShape, FilesBehindMedia, CorpusNext
  PROVE  FilesShape' /\ FilesBehindMedia' /\ \A c : Present(c) => Present(c)'
<1>1. CASE EditRaw \/ StartBuild \/ RefuseMissing \/ StopBuild
  <2>1. /\ FilesShape' /\ raw' \in RawCorpora /\ disk' = disk
        /\ \/ norm'.pc = "idle"
           \/ norm'.pc = "objects" /\ raw' = raw /\ ImagesOf(raw) \subseteq norm'.todo
    BY <1>1, FilesLeft DEF FilesBehindMedia
  <2> QED
    BY <2>1 DEF FilesBehindMedia, Present, Writing
<1>2. ASSUME NEW c \in Contents, BeginCopy(c) \/ CopyObject(c)
      PROVE  FilesShape' /\ FilesBehindMedia' /\ \A d : Present(d) => Present(d)'
  <2>1. /\ FilesShape' /\ raw' = raw
        /\ norm.pc = "objects" /\ norm'.pc = "objects" /\ norm.todo \subseteq norm'.todo \cup {c}
        /\ \A g \in DOMAIN disk \ {"objects"} : disk'[g] = disk[g]
        /\ disk'.objects[c] # "absent" /\ \A d \in Contents \ {c} : disk'.objects[d] = disk.objects[d]
    BY <1>2, ObjectWritten
  <2>2. disk'.media = disk.media
    BY <2>1 DEF FilesShape
  <2>3. Present(c)' /\ \A d : Present(d) => Present(d)'
    BY <2>1 DEF Present
  <2> QED
    BY <2>1, <2>2, <2>3 DEF FilesBehindMedia, Writing
<1>3. ASSUME NEW f \in DOMAIN NextFile, WritePart(f)
      PROVE  FilesShape' /\ FilesBehindMedia' /\ \A d : Present(d) => Present(d)'
  <2>1. /\ FilesShape' /\ raw' = raw
        /\ norm.todo = {} /\ norm.pc = IF f = "messages" THEN "objects" ELSE f
        /\ norm'.pc = norm.pc /\ norm'.todo = {}
        /\ disk'.objects = disk.objects /\ disk'[f] \in Parts(raw, f)
        /\ \A g \in DOMAIN NextFile \ {f} : disk'[g] = disk[g]
    BY <1>3, PartWritten
  <2>2. \A d : Present(d)' <=> Present(d)
    BY <2>1 DEF Present
  <2>3. CASE f = "media"
    <3>1. disk'.media \in CutFiles(MediaFile(raw))
      BY <2>1, <2>3 DEF Parts, FileOf, FilesBehindMedia
    <3>2. norm.pc \in Writing
      BY <2>1, <2>3 DEF Writing
    <3> QED
      BY <2>1, <2>2, <3>1, <3>2, CutsOfMedia DEF FilesBehindMedia
  <2>4. CASE f # "media"
    <3>1. disk'.media = disk.media
      BY <2>1, <2>4, FilesWritten
    <3> QED
      BY <2>1, <2>2, <3>1 DEF FilesBehindMedia
  <2> QED
    BY <2>3, <2>4
<1>4. ASSUME NEW f \in DOMAIN NextFile, WriteFile(f)
      PROVE  FilesShape' /\ FilesBehindMedia' /\ \A d : Present(d) => Present(d)'
  <2>1. /\ FilesShape' /\ raw' = raw
        /\ norm.todo = {} /\ norm.pc = IF f = "messages" THEN "objects" ELSE f
        /\ norm'.pc = NextFile[f]
        /\ disk'.objects = disk.objects /\ disk'[f] = FileOf[raw][f]
        /\ \A g \in DOMAIN NextFile \ {f} : disk'[g] = disk[g]
    BY <1>4, FileWritten
  <2>2. \A d : Present(d)' <=> Present(d)
    BY <2>1 DEF Present
  <2>3. norm'.pc # "objects" /\ \A c \in ImagesOf(raw) : Present(c)
    BY <2>1, FilesWritten DEF FilesBehindMedia, Writing, NextFile
  <2>4. CASE f = "media"
    <3>1. disk'.media = MediaFile(raw)
      BY <2>1, <2>4 DEF FileOf, FilesBehindMedia
    <3> QED
      BY <2>1, <2>2, <2>3, <3>1, MediaFileOfImages DEF FilesBehindMedia
  <2>5. CASE f # "media"
    <3>1. disk'.media = disk.media
      BY <2>1, <2>5, FilesWritten
    <3> QED
      BY <2>1, <2>2, <2>3, <3>1 DEF FilesBehindMedia
  <2> QED
    BY <2>4, <2>5
<1> QED
  BY <1>1, <1>2, <1>3, <1>4 DEF CorpusNext

(* A step of a server start, of the server or of the offline loader.        *)
LEMMA SeedingStep ==
  ASSUME ServingInv, SeedingNext, UNCHANGED corpusVars
  PROVE  TablesShape' /\ ObjectsBehindRows'
<1> USE DEF ServingInv, TablesShape
<1>1. /\ disk' = disk /\ \A c : Present(c)' <=> Present(c)
  BY DEF corpusVars, Present
<1>2. CASE LoadPostgres
  <2>1. PICK rows, channels, senders, members :
           /\ srv.pc = "down"
           /\ db' = [db EXCEPT !.rows = rows, !.media = disk.media, !.channels = channels,
                               !.senders = senders, !.members = members, !.owed = TRUE]
           /\ UNCHANGED <<store, srv>>
    BY <1>2 DEF LoadPostgres
  <2>2. DOMAIN db' = DOMAIN db /\ db'.media = disk.media /\ db'.owed = TRUE
    BY <2>1
  <2> QED
    BY <1>1, <2>1, <2>2 DEF ObjectsBehindRows, FilesBehindMedia
<1>3. CASE SeedIdentity \/ StartUnseeded
  <2>1. /\ DOMAIN db' = DOMAIN db /\ db'.media = db.media /\ db'.owed = db.owed
        /\ UNCHANGED store
        /\ DOMAIN srv' = DOMAIN srv /\ srv'.pc \in {"down", "messages", "listening"}
    BY <1>3 DEF SeedIdentity, StartUnseeded
  <2> QED
    BY <1>1, <2>1 DEF ObjectsBehindRows
<1>4. CASE SeedMessages
  <2>1. CASE srv' = [srv EXCEPT !.pc = "down"] /\ UNCHANGED <<db, store>>
    <3>1. DOMAIN srv' = DOMAIN srv /\ srv'.pc = "down"
      BY <2>1
    <3> QED
      BY <1>1, <2>1, <3>1 DEF ObjectsBehindRows
  <2>2. CASE /\ DOMAIN db' = DOMAIN db /\ db'.media = WithRows(db.media, disk.media) /\ db'.owed
             /\ srv' = [pc |-> "objects", todo |-> {c \in Contents : disk.objects[c] # "absent"}]
             /\ UNCHANGED store
    <3>1. \A id \in DOMAIN db'.media : Present(db'.media[id])
      BY <2>2 DEF WithRows, ObjectsBehindRows, FilesBehindMedia
    <3>2. /\ DOMAIN srv' = {"pc", "todo"} /\ srv'.pc = "objects"
          /\ \A c : Present(c) => c \in srv'.todo
      BY <2>2 DEF Present
    <3> QED
      BY <1>1, <2>2, <3>1, <3>2 DEF ObjectsBehindRows
  <2> QED
    BY <1>4, <2>1, <2>2 DEF SeedMessages
<1>5. ASSUME NEW c \in Contents, SeedObject(c)
      PROVE  TablesShape' /\ ObjectsBehindRows'
  <2>1. srv.pc = "objects" /\ c \in srv.todo /\ UNCHANGED db
    BY <1>5 DEF SeedObject
  <2>2. CASE ~HashMatches(c)
    <3>1. srv' = [pc |-> "down", todo |-> {}] /\ UNCHANGED store
      BY <1>5, <2>2 DEF SeedObject
    <3>2. DOMAIN srv' = {"pc", "todo"} /\ srv'.pc = "down"
      BY <3>1
    <3> QED
      BY <1>1, <2>1, <3>1, <3>2 DEF ObjectsBehindRows
  <2>3. CASE HashMatches(c)
    <3>1. /\ srv' = [srv EXCEPT !.todo = @ \ {c}]
          /\ store' = IF store[c] = "absent" THEN [store EXCEPT ![c] = disk.objects[c]] ELSE store
      BY <1>5, <2>3 DEF SeedObject
    <3>2. DOMAIN srv' = DOMAIN srv /\ srv'.pc = "objects" /\ srv'.todo = srv.todo \ {c}
      BY <2>1, <3>1
    <3>3. /\ DOMAIN store' = Contents /\ store'[c] = "whole"
          /\ \A d \in Contents \ {c} : store'[d] = store[d]
      BY <2>3, <3>1 DEF HashMatches, ObjectsBehindRows
    <3> QED
      BY <1>1, <2>1, <3>2, <3>3 DEF ObjectsBehindRows, Present
  <2> QED
    BY <2>2, <2>3
<1>6. CASE Listen
  <2>1. /\ srv.pc = "objects" /\ srv.todo = {}
        /\ srv' = [srv EXCEPT !.pc = "listening"]
        /\ db' = [db EXCEPT !.owed = FALSE] /\ UNCHANGED store
    BY <1>6 DEF Listen
  <2>2. /\ DOMAIN srv' = DOMAIN srv /\ srv'.pc = "listening"
        /\ DOMAIN db' = DOMAIN db /\ db'.media = db.media
    BY <2>1
  <2> QED
    BY <1>1, <2>1, <2>2 DEF ObjectsBehindRows
<1>7. CASE SendLive
  <2>1. PICK rows, feed, last : db' = [db EXCEPT !.rows = rows, !.feed = feed, !.last = last]
    BY <1>7 DEF SendLive
  <2>2. DOMAIN db' = DOMAIN db /\ db'.media = db.media /\ db'.owed = db.owed /\ UNCHANGED <<store, srv>>
    BY <1>7, <2>1 DEF SendLive
  <2> QED
    BY <1>1, <2>2 DEF ObjectsBehindRows
<1>8. CASE StopServer
  <2>1. /\ srv' = [pc |-> "down", todo |-> {}]
        /\ UNCHANGED <<db, store>>
    BY <1>8 DEF StopServer
  <2>2. DOMAIN srv' = {"pc", "todo"} /\ srv'.pc = "down"
    BY <2>1
  <2> QED
    BY <1>1, <2>1, <2>2 DEF ObjectsBehindRows
<1> QED
  BY <1>2, <1>3, <1>4, <1>5, <1>6, <1>7, <1>8 DEF SeedingNext

LEMMA ServingStart == CorpusInit /\ SeedingInit => ServingInv
BY CorpusAssumption DEF CorpusInit, SeedingInit, ServingInv, FilesShape, TablesShape,
   FilesBehindMedia, ObjectsBehindRows, Writing

(* Whatever a build or a start does, the media rows name objects the build  *)
(* has left on disk, and what of it is in the bucket is whole               *)
(* (seed.go:180, pipeline.py:213).                                          *)
THEOREM ServingInductive == SeedingSpec => []ServingInv
<1>1. ServingInv /\ [BuildOrServe]_allVars => ServingInv'
  <2> SUFFICES ASSUME ServingInv, [BuildOrServe]_allVars PROVE ServingInv'
    OBVIOUS
  <2>1. CASE CorpusNext /\ UNCHANGED seedVars
    <3>1. FilesShape' /\ FilesBehindMedia' /\ \A c : Present(c) => Present(c)'
      BY <2>1, CorpusStep DEF ServingInv
    <3>2. UNCHANGED <<db, store, srv>>
      BY <2>1 DEF seedVars
    <3>3. TablesShape' /\ ObjectsBehindRows'
      BY <3>1, <3>2 DEF ServingInv, TablesShape, ObjectsBehindRows
    <3> QED
      BY <3>1, <3>3 DEF ServingInv
  <2>2. CASE SeedingNext /\ UNCHANGED corpusVars
    <3>1. TablesShape' /\ ObjectsBehindRows'
      BY <2>2, SeedingStep
    <3>2. FilesShape' /\ FilesBehindMedia'
      BY <2>2 DEF ServingInv, FilesShape, FilesBehindMedia, Present, corpusVars
    <3> QED
      BY <3>1, <3>2 DEF ServingInv
  <2>3. CASE UNCHANGED allVars
    BY <2>3 DEF allVars, corpusVars, seedVars, ServingInv, FilesShape, TablesShape, FilesBehindMedia,
       ObjectsBehindRows, Present
  <2> QED
    BY <2>1, <2>2, <2>3 DEF BuildOrServe
<1> QED
  BY <1>1, ServingStart, PTL DEF SeedingSpec

(* While the server listens, a media row's object is in the bucket with the *)
(* bytes its reference names, although no build repairs an object that an   *)
(* earlier one left half copied (seed.go:180), or, after a start without    *)
(* SEED_PROCESSED that followed an interrupted seed, not there at all.      *)
THEOREM ServedWhole == SeedingSpec => []ServedMediaReadable
<1>1. ServingInv => ServedMediaReadable
  BY DEF ServingInv, ObjectsBehindRows, ServedMediaReadable, Present
<1> QED
  BY <1>1, ServingInductive, PTL

-----------------------------------------------------------------------------
(* The key the messages are sorted by.                                      *)

LEMMA DaysPass ==
  ASSUME NEW n \in Nat \ {0}, NEW a \in Nat, NEW b \in Nat, a <= b
  PROVE  a \div n \in Nat /\ b \div n \in Nat /\ a \div n <= b \div n
OBVIOUS

LEMMA LexOfFour ==
  ASSUME NEW a1 \in Int, NEW a2 \in Int, NEW a3 \in Int, NEW a4 \in Int,
         NEW b1 \in Int, NEW b2 \in Int, NEW b3 \in Int, NEW b4 \in Int
  PROVE  LexLess(<<a1, a2, a3, a4>>, <<b1, b2, b3, b4>>) <=>
           \/ a1 < b1
           \/ a1 = b1 /\ a2 < b2
           \/ a1 = b1 /\ a2 = b2 /\ a3 < b3
           \/ a1 = b1 /\ a2 = b2 /\ a3 = b3 /\ a4 < b4
<1> DEFINE k == <<a1, a2, a3, a4>>
           l == <<b1, b2, b3, b4>>
<1>1. /\ DOMAIN k = {1, 2, 3, 4}
      /\ k[1] = a1 /\ k[2] = a2 /\ k[3] = a3 /\ k[4] = a4
      /\ l[1] = b1 /\ l[2] = b2 /\ l[3] = b3 /\ l[4] = b4
  OBVIOUS
<1>2. 1..(1 - 1) = {} /\ 1..(2 - 1) = {1} /\ 1..(3 - 1) = {1, 2} /\ 1..(4 - 1) = {1, 2, 3}
  OBVIOUS
<1> HIDE DEF k, l
<1>3. LexLess(k, l) <=>
        \/ k[1] < l[1]
        \/ k[2] < l[2] /\ k[1] = l[1]
        \/ k[3] < l[3] /\ k[1] = l[1] /\ k[2] = l[2]
        \/ k[4] < l[4] /\ k[1] = l[1] /\ k[2] = l[2] /\ k[3] = l[3]
  BY <1>1, <1>2 DEF LexLess
<1>4. LexLess(k, l) <=>
        \/ a1 < b1
        \/ a1 = b1 /\ a2 < b2
        \/ a1 = b1 /\ a2 = b2 /\ a3 < b3
        \/ a1 = b1 /\ a2 = b2 /\ a3 = b3 /\ a4 < b4
  BY <1>1, <1>3
<1> QED
  BY <1>4 DEF k, l

LEMMA LexOfThree ==
  ASSUME NEW a1 \in Int, NEW a2 \in Int, NEW a3 \in Int,
         NEW b1 \in Int, NEW b2 \in Int, NEW b3 \in Int
  PROVE  LexLess(<<a1, a2, a3>>, <<b1, b2, b3>>) <=>
           \/ a1 < b1
           \/ a1 = b1 /\ a2 < b2
           \/ a1 = b1 /\ a2 = b2 /\ a3 < b3
<1> DEFINE k == <<a1, a2, a3>>
           l == <<b1, b2, b3>>
<1>1. /\ DOMAIN k = {1, 2, 3}
      /\ k[1] = a1 /\ k[2] = a2 /\ k[3] = a3
      /\ l[1] = b1 /\ l[2] = b2 /\ l[3] = b3
  OBVIOUS
<1>2. 1..(1 - 1) = {} /\ 1..(2 - 1) = {1} /\ 1..(3 - 1) = {1, 2}
  OBVIOUS
<1> HIDE DEF k, l
<1>3. LexLess(k, l) <=>
        \/ k[1] < l[1]
        \/ k[2] < l[2] /\ k[1] = l[1]
        \/ k[3] < l[3] /\ k[1] = l[1] /\ k[2] = l[2]
  BY <1>1, <1>2 DEF LexLess
<1>4. LexLess(k, l) <=>
        \/ a1 < b1
        \/ a1 = b1 /\ a2 < b2
        \/ a1 = b1 /\ a2 = b2 /\ a3 < b3
  BY <1>1, <1>3
<1> QED
  BY <1>4 DEF k, l

-----------------------------------------------------------------------------
(* The messages of a corpus.                                                *)

LEMMA MessageOfSession ==
  ASSUME NEW r \in RawCorpora, NEW id \in MessageIds(r)
  PROVE  /\ id = <<id[1], id[2], id[3]>>
         /\ id[1] \in Int /\ id[2] \in Int /\ id[3] \in Nat
         /\ SessionOf(r, id) \in r.sessions
         /\ SessionOf(r, id).ch = id[1] /\ SessionOf(r, id).n = id[2]
         /\ SessionOf(r, id).date \in Int
<1>1. PICK s \in r.sessions : \E t \in 0..(Len(s.turns) - 1) : id = <<s.ch, s.n, t>>
  BY DEF MessageIds
<1>2. PICK t \in 0..(Len(s.turns) - 1) : id = <<s.ch, s.n, t>>
  BY <1>1
<1>3. /\ \A u \in r.sessions : u.ch \in Int /\ u.n \in Int /\ u.date \in Int /\ Len(u.turns) \in Nat
      /\ \A u, v \in r.sessions : u.ch = v.ch /\ u.n = v.n => u = v
  BY RawAssumption
<1>4. id[1] = s.ch /\ id[2] = s.n /\ id[3] = t
  BY <1>2
<1>5. SessionOf(r, id) = s
  BY <1>3, <1>4 DEF SessionOf
<1> QED
  BY <1>2, <1>3, <1>4, <1>5

LEMMA FiniteMessages ==
  ASSUME NEW r \in RawCorpora
  PROVE  IsFiniteSet(MessageIds(r))
<1> DEFINE Of(s) == {<<s.ch, s.n, t>> : t \in 0..(Len(s.turns) - 1)}
<1>1. IsFiniteSet(r.sessions) /\ \A s \in r.sessions : Len(s.turns) \in Nat
  BY RawAssumption
<1>2. ASSUME NEW s \in r.sessions PROVE IsFiniteSet(Of(s))
  <2> DEFINE T == 0..(Len(s.turns) - 1)
             f == [t \in T |-> <<s.ch, s.n, t>>]
  <2>1. IsFiniteSet(T)
    BY <1>1, FS_Interval
  <2>2. f \in Surjection(T, Of(s))
    BY DEF Surjection
  <2> HIDE DEF T, f, Of
  <2> QED
    BY <2>1, <2>2, FS_Surjection
<1> DEFINE g == [s \in r.sessions |-> Of(s)]
<1>3. g \in Surjection(r.sessions, {Of(s) : s \in r.sessions})
  BY DEF Surjection
<1> HIDE DEF g, Of
<1>4. IsFiniteSet({Of(s) : s \in r.sessions})
  BY <1>1, <1>3, FS_Surjection
<1>5. IsFiniteSet(UNION {Of(s) : s \in r.sessions})
  BY <1>2, <1>4, FS_UNION
<1> QED
  BY <1>5 DEF MessageIds, Of

Day(r, id) == SessionOf(r, id).date + (id[3] \div TurnsTillMidnight)

\* a comes before b in ordered_messages.
Earlier(a, da, b, db_) ==
    \/ a[2] < b[2]
    \/ a[2] = b[2] /\ da < db_
    \/ a[2] = b[2] /\ da = db_ /\ a[1] < b[1]
    \/ a[2] = b[2] /\ da = db_ /\ a[1] = b[1] /\ a[3] < b[3]

LEMMA KeyOrder ==
  ASSUME NEW r \in RawCorpora, NEW a \in MessageIds(r), NEW b \in MessageIds(r)
  PROVE  /\ Day(r, a) \in Int /\ Day(r, b) \in Int
         /\ LexLess(ChronologyKey(r, a), ChronologyKey(r, b)) <=> Earlier(a, Day(r, a), b, Day(r, b))
         /\ LexLess(a, b) <=>
              \/ a[1] < b[1]
              \/ a[1] = b[1] /\ a[2] < b[2]
              \/ a[1] = b[1] /\ a[2] = b[2] /\ a[3] < b[3]
<1>1. /\ a = <<a[1], a[2], a[3]>> /\ a[1] \in Int /\ a[2] \in Int /\ a[3] \in Nat
      /\ SessionOf(r, a).date \in Int
      /\ b = <<b[1], b[2], b[3]>> /\ b[1] \in Int /\ b[2] \in Int /\ b[3] \in Nat
      /\ SessionOf(r, b).date \in Int
  BY MessageOfSession
<1>2. a[3] \div TurnsTillMidnight \in Nat /\ b[3] \div TurnsTillMidnight \in Nat
  BY <1>1, CorpusAssumption, DaysPass
<1>3. Day(r, a) \in Int /\ Day(r, b) \in Int
  BY <1>1, <1>2 DEF Day
<1>4. /\ ChronologyKey(r, a) = <<a[2], Day(r, a), a[1], a[3]>>
      /\ ChronologyKey(r, b) = <<b[2], Day(r, b), b[1], b[3]>>
  BY DEF ChronologyKey, Day
<1>5. LexLess(<<a[2], Day(r, a), a[1], a[3]>>, <<b[2], Day(r, b), b[1], b[3]>>)
         <=> Earlier(a, Day(r, a), b, Day(r, b))
  BY <1>1, <1>3, LexOfFour DEF Earlier
<1>6. LexLess(<<a[1], a[2], a[3]>>, <<b[1], b[2], b[3]>>) <=>
        \/ a[1] < b[1]
        \/ a[1] = b[1] /\ a[2] < b[2]
        \/ a[1] = b[1] /\ a[2] = b[2] /\ a[3] < b[3]
  BY <1>1, LexOfThree
<1> QED
  BY <1>1, <1>3, <1>4, <1>5, <1>6

(* Sorting by the key gives every message a place of its own.               *)
LEMMA KeysFormChain ==
  ASSUME NEW r \in RawCorpora
  PROVE  Chain(MessageIds(r),
               [id \in MessageIds(r) |->
                   {o \in MessageIds(r) : LexLess(ChronologyKey(r, o), ChronologyKey(r, id))}])
<1> DEFINE M == MessageIds(r)
           Less(a, b) == LexLess(ChronologyKey(r, a), ChronologyKey(r, b))
           below == [id \in M |-> {o \in M : Less(o, id)}]
<1>1. \A a, b \in M : Less(a, b) <=> Earlier(a, Day(r, a), b, Day(r, b))
  BY KeyOrder
<1>2. \A a \in M : /\ a[1] \in Int /\ a[2] \in Int /\ a[3] \in Int /\ Day(r, a) \in Int
                   /\ a = <<a[1], a[2], a[3]>>
  BY MessageOfSession, KeyOrder
<1>3. /\ below \in [M -> SUBSET M]
      /\ \A a, b \in M : a \in below[b] <=> Less(a, b)
  OBVIOUS
<1> HIDE DEF M, Less, below
<1>4. \A a \in M : ~Less(a, a)
  BY <1>1, <1>2 DEF Earlier
<1>5. ASSUME NEW a \in M, NEW b \in M, a # b PROVE Less(a, b) \/ Less(b, a)
  <2>1. a[1] # b[1] \/ a[2] # b[2] \/ a[3] # b[3]
    BY <1>2, <1>5
  <2> QED
    BY <1>1, <1>2, <2>1 DEF Earlier
<1>6. ASSUME NEW a \in M, NEW b \in M, NEW c \in M, Less(c, a), Less(a, b) PROVE Less(c, b)
  BY <1>1, <1>2, <1>6 DEF Earlier
<1>7. \A a, b \in M : a \in below[b] => below[a] \subseteq below[b]
  BY <1>3, <1>6
<1>8. Chain(M, below)
  BY <1>3, <1>4, <1>5, <1>7 DEF Chain
<1> QED
  BY <1>8 DEF M, Less, below

LEMMA RanksOfMessages ==
  ASSUME NEW r \in RawCorpora
  PROVE  /\ {ChronologicalRank(r, id) : id \in MessageIds(r)} = 0..(Cardinality(MessageIds(r)) - 1)
         /\ \A a, b \in MessageIds(r) :
               (a[1] = b[1] /\ LexLess(a, b)) => ChronologicalRank(r, a) < ChronologicalRank(r, b)
<1> DEFINE M == MessageIds(r)
           below == [id \in M |-> {o \in M : LexLess(ChronologyKey(r, o), ChronologyKey(r, id))}]
           n == Cardinality(M)
<1>1. IsFiniteSet(M) /\ Chain(M, below)
  BY FiniteMessages, KeysFormChain
<1>2. \A id \in M : ChronologicalRank(r, id) = Cardinality(below[id])
  BY DEF ChronologicalRank
<1>3. \A a, b \in M : LexLess(ChronologyKey(r, a), ChronologyKey(r, b)) => a \in below[b]
  OBVIOUS
<1> HIDE DEF M, below, n
<1>4. /\ n \in Nat
      /\ \A x \in M : Cardinality(below[x]) \in 0..(n - 1)
      /\ \A x, y \in M : x \in below[y] => Cardinality(below[x]) < Cardinality(below[y])
      /\ \A i \in 1..n : \E x \in M : Cardinality(below[x]) = i - 1
  BY <1>1, Ranks DEF n
<1>5. {ChronologicalRank(r, id) : id \in M} = 0..(n - 1)
  <2>1. \A id \in M : ChronologicalRank(r, id) \in 0..(n - 1)
    BY <1>2, <1>4
  <2>2. ASSUME NEW i \in 0..(n - 1) PROVE \E id \in M : ChronologicalRank(r, id) = i
    <3>1. i + 1 \in 1..n /\ (i + 1) - 1 = i
      BY <1>4
    <3>2. PICK x \in M : Cardinality(below[x]) = (i + 1) - 1
      BY <1>4, <3>1
    <3> QED
      BY <1>2, <3>1, <3>2
  <2> QED
    BY <2>1, <2>2
<1>6. ASSUME NEW a \in M, NEW b \in M, a[1] = b[1], LexLess(a, b)
      PROVE  ChronologicalRank(r, a) < ChronologicalRank(r, b)
  <2>1. /\ a[1] \in Int /\ a[2] \in Int /\ a[3] \in Nat /\ SessionOf(r, a).date \in Int
        /\ b[2] \in Int /\ b[3] \in Nat
        /\ SessionOf(r, a) \in r.sessions /\ SessionOf(r, a).ch = a[1] /\ SessionOf(r, a).n = a[2]
        /\ SessionOf(r, b) \in r.sessions /\ SessionOf(r, b).ch = b[1] /\ SessionOf(r, b).n = b[2]
    BY MessageOfSession DEF M
  <2>2. a[2] < b[2] \/ (a[2] = b[2] /\ a[3] < b[3])
    BY <1>6, <2>1, KeyOrder DEF M
  <2>3. CASE a[2] < b[2]
    <3>1. Earlier(a, Day(r, a), b, Day(r, b))
      BY <2>3 DEF Earlier
    <3> QED
      BY <1>2, <1>3, <1>4, <3>1, KeyOrder DEF M
  <2>4. CASE a[2] = b[2] /\ a[3] < b[3]
    <3>1. SessionOf(r, a) = SessionOf(r, b)
      BY <1>6, <2>1, <2>4 DEF SessionOf
    <3>2. /\ a[3] \div TurnsTillMidnight \in Nat /\ b[3] \div TurnsTillMidnight \in Nat
          /\ a[3] \div TurnsTillMidnight <= b[3] \div TurnsTillMidnight
      BY <2>1, <2>4, CorpusAssumption, DaysPass
    <3>3. Day(r, a) \in Int /\ Day(r, b) \in Int /\ Day(r, a) <= Day(r, b)
      BY <2>1, <3>1, <3>2 DEF Day
    <3>4. Earlier(a, Day(r, a), b, Day(r, b))
      BY <1>6, <2>4, <3>3 DEF Earlier
    <3> QED
      BY <1>2, <1>3, <1>4, <3>4, KeyOrder DEF M
  <2> QED
    BY <2>2, <2>3, <2>4
<1> QED
  BY <1>5, <1>6 DEF M, n

-----------------------------------------------------------------------------
(* Dates that run backwards.                                                *)

(* Between a session and a later one with an earlier date there are two     *)
(* neighbours of which that is true.                                        *)
LEMMA NeighboursBackwards ==
  ASSUME NEW r \in RawCorpora, NEW s \in r.sessions, NEW u \in r.sessions,
         s.ch = u.ch, s.n < u.n, s.date > u.date
  PROVE  \E p \in Neighbours(r) :
            /\ p[1].ch = s.ch /\ p[1].date > p[2].date
            /\ s.n <= p[1].n /\ p[1].n <= u.n
<1>1. \A x \in r.sessions : x.ch \in Int /\ x.n \in Int /\ x.date \in Int
  BY RawAssumption
<1> DEFINE After == {x \in r.sessions : x.ch = s.ch /\ s.n < x.n /\ x.date < s.date}
           Steps == {x.n - s.n : x \in After}
<1>2. u \in After
  BY <1>1
<1>3. Steps \in SUBSET Nat /\ Steps # {}
  <2>1. \A x \in After : x.n - s.n \in Nat
    BY <1>1
  <2> QED
    BY <1>2, <2>1
<1>4. PICK m \in Steps : \A k \in Steps : m <= k
  BY <1>3, LeastNat
<1>5. PICK x \in After : m = x.n - s.n
  OBVIOUS
<1>6. x \in r.sessions /\ x.ch = s.ch /\ s.n < x.n /\ x.date < s.date
  OBVIOUS
<1>7. \A y \in After : x.n <= y.n
  <2> TAKE y \in After
  <2>1. x.n - s.n <= y.n - s.n
    BY <1>4, <1>5
  <2>2. x.n \in Int /\ y.n \in Int /\ s.n \in Int
    BY <1>1
  <2> QED
    BY <2>1, <2>2
<1> DEFINE Till == {y \in r.sessions : y.ch = s.ch /\ s.n <= y.n /\ y.n < x.n}
           Back == {x.n - y.n : y \in Till}
<1> HIDE DEF Steps
<1>8. s \in Till
  BY <1>1, <1>6
<1>9. Back \in SUBSET Nat /\ Back # {}
  <2>1. \A y \in Till : x.n - y.n \in Nat
    BY <1>1, <1>6
  <2> QED
    BY <1>8, <2>1
<1>10. PICK k \in Back : \A j \in Back : k <= j
  BY <1>9, LeastNat
<1>11. PICK y \in Till : k = x.n - y.n
  OBVIOUS
<1>12. y \in r.sessions /\ y.ch = s.ch /\ s.n <= y.n /\ y.n < x.n
  OBVIOUS
<1>13. \A z \in Till : z.n <= y.n
  <2> TAKE z \in Till
  <2>1. x.n - y.n <= x.n - z.n
    BY <1>10, <1>11
  <2>2. x.n \in Int /\ y.n \in Int /\ z.n \in Int
    BY <1>1, <1>6, <1>12
  <2> QED
    BY <2>1, <2>2
<1>14. y.date >= s.date
  <2>1. CASE y.n = s.n
    <3>1. y = s
      BY <1>12, <2>1, RawAssumption
    <3> QED
      BY <1>1, <3>1
  <2>2. CASE y.n # s.n
    <3>1. s.n < y.n
      BY <1>1, <1>12, <2>2
    <3>2. y \notin After
      BY <1>1, <1>6, <1>7, <1>12
    <3> QED
      BY <1>1, <1>12, <3>1, <3>2
  <2> QED
    BY <2>1, <2>2
<1>15. <<y, x>> \in Neighbours(r)
  <2>1. ~\E z \in r.sessions : z.ch = y.ch /\ y.n < z.n /\ z.n < x.n
    <3> SUFFICES ASSUME NEW z \in r.sessions, z.ch = y.ch, y.n < z.n, z.n < x.n PROVE FALSE
      OBVIOUS
    <3>1. z \in Till
      BY <1>1, <1>12
    <3>2. z.n <= y.n
      BY <1>13, <3>1
    <3> QED
      BY <1>1, <1>12, <3>2
  <2> QED
    BY <1>6, <1>12, <2>1 DEF Neighbours
<1>16. x.n <= u.n
  BY <1>2, <1>7
<1>17. y.date > x.date /\ y.n <= u.n
  BY <1>1, <1>6, <1>12, <1>14, <1>16
<1> QED
  BY <1>12, <1>15, <1>17

LEMMA BackwardsIsFlagged ==
  ASSUME NEW r \in RawCorpora, NEW s \in r.sessions, NEW u \in r.sessions,
         s.ch = u.ch, s.n < u.n, s.date > u.date,
         \A t \in r.sessions : t.ch = s.ch => Len(t.turns) > 0
  PROVE  \E id \in MessageIds(r) :
            /\ id[1] = s.ch /\ s.n <= id[2] /\ id[2] <= u.n
            /\ <<id[1], id[2]>> \in TemporalConflictSessions(r)
<1>1. PICK p \in Neighbours(r) :
        /\ p[1].ch = s.ch /\ p[1].date > p[2].date
        /\ s.n <= p[1].n /\ p[1].n <= u.n
  BY NeighboursBackwards
<1>2. p[1] \in r.sessions
  BY DEF Neighbours
<1> DEFINE id == <<p[1].ch, p[1].n, 0>>
<1>3. Len(p[1].turns) \in Nat /\ Len(p[1].turns) > 0
  BY <1>1, <1>2, RawAssumption
<1>4. 0 \in 0..(Len(p[1].turns) - 1)
  BY <1>3
<1>5. id \in MessageIds(r)
  BY <1>2, <1>4 DEF MessageIds
<1>6. <<p[1].ch, p[1].n>> \in TemporalConflictSessions(r)
  BY <1>1 DEF TemporalConflictSessions
<1>7. id[1] = p[1].ch /\ id[2] = p[1].n
  OBVIOUS
<1> QED
  BY <1>1, <1>5, <1>6, <1>7

-----------------------------------------------------------------------------
\* Once the messages are written, and until the build is over, they are the
\* messages of the raw corpus that is there.
WrittenInv ==
    /\ FilesShape /\ raw \in RawCorpora
    /\ norm.pc \in Writing => disk.messages = MessagesFile(raw)

LEMMA WrittenStep == WrittenInv /\ [CorpusNext]_corpusVars => WrittenInv'
<1> SUFFICES ASSUME WrittenInv, [CorpusNext]_corpusVars PROVE WrittenInv'
  OBVIOUS
<1> USE DEF WrittenInv
<1>1. CASE EditRaw \/ StartBuild \/ RefuseMissing \/ StopBuild
  <2>1. FilesShape' /\ raw' \in RawCorpora /\ norm'.pc \in {"idle", "objects"}
    BY <1>1, FilesLeft
  <2> QED
    BY <2>1 DEF Writing
<1>2. ASSUME NEW c \in Contents, BeginCopy(c) \/ CopyObject(c) PROVE WrittenInv'
  <2>1. FilesShape' /\ raw' = raw /\ norm'.pc = "objects"
    BY <1>2, ObjectWritten
  <2> QED
    BY <2>1 DEF Writing
<1>3. ASSUME NEW f \in DOMAIN NextFile, WritePart(f) PROVE WrittenInv'
  <2>1. /\ FilesShape' /\ raw' = raw
        /\ norm.pc = IF f = "messages" THEN "objects" ELSE f
        /\ norm'.pc = norm.pc
        /\ \A g \in DOMAIN NextFile \ {f} : disk'[g] = disk[g]
    BY <1>3, PartWritten
  <2>2. f # "messages" => disk'.messages = disk.messages
    BY <2>1, FilesWritten
  <2> QED
    BY <2>1, <2>2 DEF Writing
<1>4. ASSUME NEW f \in DOMAIN NextFile, WriteFile(f) PROVE WrittenInv'
  <2>1. /\ FilesShape' /\ raw' = raw
        /\ norm.pc = IF f = "messages" THEN "objects" ELSE f
        /\ disk'[f] = FileOf[raw][f]
        /\ \A g \in DOMAIN NextFile \ {f} : disk'[g] = disk[g]
    BY <1>4, FileWritten
  <2>2. CASE f = "messages"
    BY <2>1, <2>2 DEF FileOf
  <2>3. CASE f # "messages"
    <3>1. disk'.messages = disk.messages /\ norm.pc \in Writing
      BY <2>1, <2>3, FilesWritten DEF Writing
    <3> QED
      BY <2>1, <3>1
  <2> QED
    BY <2>2, <2>3
<1>5. CASE UNCHANGED corpusVars
  BY <1>5 DEF corpusVars, FilesShape
<1> QED
  BY <1>1, <1>2, <1>3, <1>4, <1>5 DEF CorpusNext

THEOREM WrittenInductive == CorpusSpec => []WrittenInv
<1>1. CorpusInit => WrittenInv
  BY CorpusAssumption DEF CorpusInit, WrittenInv, FilesShape, Writing
<1> QED
  BY <1>1, WrittenStep, PTL DEF CorpusSpec

(* chronological_rank numbers the messages of any corpus without a hole and *)
(* never against the authored order of a conversation, and a conversation   *)
(* whose dates run backwards has a flagged message in between               *)
(* (pipeline.py:265, D15).                                                  *)
THEOREM RanksAreCausal == CorpusSpec => []CausalRanks
<1>1. WrittenInv => CausalRanks
  <2> SUFFICES ASSUME WrittenInv, norm.pc \in Writing PROVE CausalRanks
    BY DEF CausalRanks, Writing
  <2> DEFINE m == disk.messages
             M == MessageIds(raw)
  <2>1. raw \in RawCorpora /\ m = MessagesFile(raw)
    BY DEF WrittenInv
  <2>2. /\ DOMAIN m = M
        /\ \A id \in M : /\ m[id].rank = ChronologicalRank(raw, id)
                          /\ m[id].conflict = (<<id[1], id[2]>> \in TemporalConflictSessions(raw))
    BY <2>1 DEF MessagesFile
  <2>6. /\ {ChronologicalRank(raw, id) : id \in M} = 0..(Cardinality(M) - 1)
        /\ \A a, b \in M :
              (a[1] = b[1] /\ LexLess(a, b)) => ChronologicalRank(raw, a) < ChronologicalRank(raw, b)
    BY <2>1, RanksOfMessages
  <2> HIDE DEF m, M
  <2>3. {m[id].rank : id \in DOMAIN m} = 0..(Cardinality(DOMAIN m) - 1)
    <3>1. {m[id].rank : id \in M} = {ChronologicalRank(raw, id) : id \in M}
      BY <2>2
    <3> QED
      BY <2>2, <2>6, <3>1
  <2>4. \A a, b \in DOMAIN m : (a[1] = b[1] /\ LexLess(a, b)) => m[a].rank < m[b].rank
    BY <2>2, <2>6
  <2>5. ASSUME NEW s \in raw.sessions, NEW u \in raw.sessions,
               s.ch = u.ch, s.n < u.n, s.date > u.date,
               \A t \in raw.sessions : t.ch = s.ch => Len(t.turns) > 0
        PROVE  \E id \in DOMAIN m :
                  /\ id[1] = s.ch /\ s.n <= id[2] /\ id[2] <= u.n
                  /\ m[id].conflict
    <3>1. PICK id \in M : /\ id[1] = s.ch /\ s.n <= id[2] /\ id[2] <= u.n
                         /\ <<id[1], id[2]>> \in TemporalConflictSessions(raw)
      BY <2>1, <2>5, BackwardsIsFlagged DEF M
    <3> QED
      BY <2>2, <3>1
  <2> QED
    BY <2>3, <2>4, <2>5 DEF CausalRanks, m
<1> QED
  BY <1>1, WrittenInductive, PTL

-----------------------------------------------------------------------------
(* Ordinals.                                                                *)

\* The ranks of m are 0..k-1, each of one message.
Numbered(m, k) ==
    /\ \A id \in DOMAIN m : m[id].rank \in 0..(k - 1)
    /\ \A n \in 0..(k - 1) : \E id \in DOMAIN m : m[id].rank = n
    /\ \A a, b \in DOMAIN m : m[a].rank = m[b].rank => a = b

\* A row whose ordinals are both n.
Given(n) == [feed |-> n, ord |-> n]

\* A table whose rows have ordinals up to top, or none yet, and the live ones the
\* ordinal they are named for.
Placed(rows, top) ==
    /\ rows = [id \in DOMAIN rows |-> rows[id]]
    /\ \A id \in DOMAIN rows : \E n \in (0..top) \cup {Null} : rows[id] = Given(n)
    /\ \A id \in DOMAIN rows : IsLive(id) => id = LiveId(rows[id].feed) /\ rows[id].feed # Null

\* And each of 0..top is the ordinal of one row.
Dense(rows, top) ==
    /\ \A n \in 0..top : \E id \in DOMAIN rows : rows[id].feed = n
    /\ \A a, b \in DOMAIN rows : rows[a].feed = rows[b].feed /\ rows[a].feed # Null => a = b

\* A messages file has ranks below some bound; one that was written to its end
\* numbers its messages.
FilesOrdered ==
    /\ FilesShape /\ raw \in RawCorpora /\ disk.short \in BOOLEAN
    /\ \A id \in DOMAIN disk.messages : ~IsLive(id)
    /\ \E k \in Nat :
          /\ \A id \in DOMAIN disk.messages : disk.messages[id].rank \in 0..(k - 1)
          /\ ~disk.short => Numbered(disk.messages, k)
    /\ DOMAIN disk.messages = {} => disk.messages = <<>>

\* The rows have ordinals up to the counters, which move together, and have all
\* of them while the server has seeded whole files only.
RowsOrdered ==
    /\ TablesShape /\ db.short \in BOOLEAN
    /\ srv.pc # "down" => db.migrated
    /\ ~db.migrated => \A id \in DOMAIN db.rows : db.rows[id].feed = Null
    /\ db.feed \in Nat \cup {Null}
    /\ db.last = IF db.feed = Null THEN 0 ELSE db.feed
    /\ Placed(db.rows, db.feed)
    /\ ~db.short => Dense(db.rows, db.feed)

OrdinalsInv == FilesOrdered /\ RowsOrdered

(* The heart of it: a seed that collides with no row finds every ordinal    *)
(* that is taken at the message it was given to.                            *)
LEMMA SeedFindsItsOwn ==
  ASSUME NEW rows, NEW top \in Nat \cup {Null}, Placed(rows, top), Dense(rows, top),
         NEW k \in Nat, Numbered(disk.messages, k), ~Collides(rows)
  PROVE  /\ \A id \in DOMAIN disk.messages : disk.messages[id].rank <= top =>
               id \in DOMAIN rows /\ rows[id].feed = disk.messages[id].rank
         /\ \A id \in DOMAIN disk.messages \cap DOMAIN rows :
               rows[id].feed # Null => rows[id].feed = disk.messages[id].rank
<1> DEFINE m == disk.messages
           Own(id) == id \in DOMAIN rows /\ rows[id].feed = m[id].rank
           Bad == {n \in 0..top : \E id \in DOMAIN m : m[id].rank = n /\ ~Own(id)}
<1>1. /\ \A id \in DOMAIN m : m[id].rank \in 0..(k - 1)
      /\ \A n \in 0..(k - 1) : \E id \in DOMAIN m : m[id].rank = n
      /\ \A a, b \in DOMAIN m : m[a].rank = m[b].rank => a = b
  BY DEF Numbered
<1>2. /\ \A n \in 0..top : \E id \in DOMAIN rows : rows[id].feed = n
      /\ \A a, b \in DOMAIN rows : rows[a].feed = rows[b].feed /\ rows[a].feed # Null => a = b
      /\ \A id \in DOMAIN rows : rows[id].feed \in (0..top) \cup {Null}
  BY DEF Placed, Dense, Given
<1>3. top \in Int /\ Null = -1
  BY DEF Null
<1>4. Bad = {}
  <2> SUFFICES ASSUME Bad # {} PROVE FALSE
    OBVIOUS
  <2>1. Bad \in SUBSET Nat
    BY <1>3
  <2>2. PICK n \in Bad : \A i \in Bad : n <= i
    BY <2>1, LeastNat
  <2>3. PICK id \in DOMAIN m : m[id].rank = n /\ ~Own(id)
    OBVIOUS
  <2>4. PICK o \in DOMAIN rows : rows[o].feed = n
    BY <1>2
  <2>5. o # id
    BY <2>3, <2>4
  <2> DEFINE done == {q \in DOMAIN m : m[q].rank < m[id].rank}
             now == Upserted(rows, done)
  <2>6. o \notin done
    <3> SUFFICES ASSUME o \in DOMAIN m, m[o].rank < n PROVE FALSE
      BY <2>3
    <3>1. m[o].rank \in Nat /\ n \in Nat /\ n \in 0..top
      BY <1>1, <2>1
    <3>2. m[o].rank \in 0..top /\ m[o].rank \notin Bad
      BY <1>3, <2>2, <3>1
    <3>3. Own(o)
      BY <3>2
    <3> QED
      BY <2>4, <3>1, <3>3
  <2>7. o \in DOMAIN now \ {id} /\ now[o] = rows[o]
    BY <2>5, <2>6 DEF Upserted
  <2>8. Taken(now, id, m[id].rank)
    BY <2>3, <2>4, <2>7 DEF Taken
  <2>9. Collides(rows)
    BY <2>8 DEF Collides, UpsertedBefore
  <2> QED
    BY <2>9
<1>5. ASSUME NEW id \in DOMAIN m, m[id].rank <= top PROVE Own(id)
  <2>1. m[id].rank \in 0..top
    BY <1>1, <1>3, <1>5
  <2> QED
    BY <1>4, <2>1
<1>6. ASSUME NEW id \in DOMAIN m, id \in DOMAIN rows, rows[id].feed # Null
      PROVE  rows[id].feed = m[id].rank
  <2>1. rows[id].feed \in 0..top /\ m[id].rank \in 0..(k - 1)
    BY <1>1, <1>2, <1>6
  <2>2. CASE m[id].rank <= top
    BY <1>5, <2>2
  <2>3. CASE m[id].rank > top
    <3>1. rows[id].feed \in 0..(k - 1)
      BY <1>3, <2>1, <2>3
    <3>2. PICK other \in DOMAIN m : m[other].rank = rows[id].feed
      BY <1>1, <3>1
    <3>3. other \in DOMAIN rows /\ rows[other].feed = rows[id].feed
      BY <1>3, <1>5, <2>1, <3>2
    <3>4. other = id
      BY <1>2, <1>6, <3>3
    <3> QED
      BY <3>2, <3>4
  <2> QED
    BY <1>3, <2>1, <2>2, <2>3
<1> QED
  BY <1>5, <1>6

\* A row that was given its ordinals is what it was, and the seed's are new.
Extends(rows, new) ==
    /\ \A id \in DOMAIN rows : id \in DOMAIN new /\ (rows[id].feed # Null => new[id] = rows[id])
    /\ \A id \in DOMAIN new \ DOMAIN disk.messages : id \in DOMAIN rows /\ new[id] = rows[id]
Greater(i, j) == IF i > j THEN i ELSE j

\* A seed gives each message its rank, and no live row is one of its messages.
LEMMA SeedPlaces ==
  ASSUME NEW rows, NEW top \in Nat \cup {Null}, Placed(rows, top),
         NEW high \in Nat, top <= high,
         \A id \in DOMAIN disk.messages : disk.messages[id].rank \in 0..high /\ ~IsLive(id)
  PROVE  Placed(Upserted(rows, DOMAIN disk.messages), high)
<1> DEFINE m == disk.messages
           new == Upserted(rows, DOMAIN disk.messages)
<1>1. /\ DOMAIN new = DOMAIN rows \cup DOMAIN m
      /\ \A id \in DOMAIN m : new[id] = Given(m[id].rank)
      /\ \A id \in DOMAIN rows \ DOMAIN m : new[id] = rows[id]
      /\ new = [id \in DOMAIN new |-> new[id]]
  BY DEF Upserted, Given
<1>2. /\ \A id \in DOMAIN rows : \E n \in (0..top) \cup {Null} : rows[id] = Given(n)
      /\ \A id \in DOMAIN rows : IsLive(id) => id = LiveId(rows[id].feed) /\ rows[id].feed # Null
  BY DEF Placed
<1>3. (0..top) \cup {Null} \subseteq (0..high) \cup {Null}
  BY DEF Null
<1> HIDE DEF new
<1>4. \A id \in DOMAIN new : \E n \in (0..high) \cup {Null} : new[id] = Given(n)
  <2> TAKE id \in DOMAIN new
  <2>1. CASE id \in DOMAIN m
    BY <1>1, <2>1
  <2>2. CASE id \notin DOMAIN m
    BY <1>1, <1>2, <1>3, <2>2
  <2> QED
    BY <2>1, <2>2
<1>5. \A id \in DOMAIN new : IsLive(id) => id = LiveId(new[id].feed) /\ new[id].feed # Null
  BY <1>1, <1>2
<1> QED
  BY <1>1, <1>4, <1>5 DEF Placed, new

LEMMA SeedKeepsDense ==
  ASSUME NEW rows, NEW top \in Nat \cup {Null}, Placed(rows, top), Dense(rows, top),
         NEW k \in Nat, k > 0, Numbered(disk.messages, k), ~Collides(rows)
  PROVE  /\ Dense(Upserted(rows, DOMAIN disk.messages), Greater(top, k - 1))
         /\ Extends(rows, Upserted(rows, DOMAIN disk.messages))
<1> DEFINE m == disk.messages
           new == Upserted(rows, DOMAIN disk.messages)
           highest == Greater(top, k - 1)
<1>1. /\ \A id \in DOMAIN m : m[id].rank \in 0..(k - 1)
      /\ \A n \in 0..(k - 1) : \E id \in DOMAIN m : m[id].rank = n
      /\ \A a, b \in DOMAIN m : m[a].rank = m[b].rank => a = b
  BY DEF Numbered
<1>2. /\ \A n \in 0..top : \E id \in DOMAIN rows : rows[id].feed = n
      /\ \A a, b \in DOMAIN rows : rows[a].feed = rows[b].feed /\ rows[a].feed # Null => a = b
      /\ \A id \in DOMAIN rows : rows[id].feed \in (0..top) \cup {Null} /\ rows[id] = Given(rows[id].feed)
  BY DEF Placed, Dense, Given
<1>3. /\ \A id \in DOMAIN m : m[id].rank <= top => id \in DOMAIN rows /\ rows[id].feed = m[id].rank
      /\ \A id \in DOMAIN m \cap DOMAIN rows : rows[id].feed # Null => rows[id].feed = m[id].rank
  BY SeedFindsItsOwn
<1>4. /\ top \in Int /\ Null = -1 /\ highest \in Nat /\ top <= highest /\ k - 1 <= highest
      /\ (highest > k - 1 => highest = top)
  BY DEF Null, Greater
<1>5. /\ DOMAIN new = DOMAIN rows \cup DOMAIN m
      /\ \A id \in DOMAIN m : new[id] = Given(m[id].rank) /\ new[id].feed = m[id].rank
      /\ \A id \in DOMAIN rows \ DOMAIN m : new[id] = rows[id]
  BY DEF Upserted, Given
<1> HIDE DEF m, new, highest
<1>7. \A n \in 0..highest : \E id \in DOMAIN new : new[id].feed = n
  <2> TAKE n \in 0..highest
  <2>1. CASE n <= k - 1
    <3>1. n \in 0..(k - 1)
      BY <2>1
    <3> QED
      BY <1>1, <1>5, <3>1
  <2>2. CASE n > k - 1
    <3>1. n \in 0..top
      BY <1>4, <2>2
    <3>2. PICK o \in DOMAIN rows : rows[o].feed = n
      BY <1>2, <3>1
    <3>3. o \notin DOMAIN m
      BY <1>1, <1>3, <1>4, <2>2, <3>2
    <3> QED
      BY <1>5, <3>2, <3>3
  <2> QED
    BY <2>1, <2>2
<1>8. ASSUME NEW a \in DOMAIN new, NEW b \in DOMAIN new, new[a].feed = new[b].feed, new[a].feed # Null
      PROVE  a = b
  <2>1. ASSUME NEW x \in DOMAIN m, NEW y \in DOMAIN new, y \notin DOMAIN m,
               new[x].feed = new[y].feed, new[y].feed # Null
        PROVE  FALSE
    <3>1. y \in DOMAIN rows /\ rows[y].feed = m[x].rank /\ rows[y].feed \in 0..top
      BY <1>2, <1>5, <2>1
    <3>2. x \in DOMAIN rows /\ rows[x].feed = m[x].rank
      BY <1>3, <1>4, <3>1
    <3> QED
      BY <1>2, <1>4, <2>1, <3>1, <3>2
  <2>2. CASE a \in DOMAIN m /\ b \in DOMAIN m
    BY <1>1, <1>5, <1>8, <2>2
  <2>3. CASE a \notin DOMAIN m /\ b \notin DOMAIN m
    BY <1>2, <1>5, <1>8, <2>3
  <2> QED
    BY <1>8, <2>1, <2>2, <2>3
<1>9. Dense(new, highest)
  BY <1>7, <1>8 DEF Dense
<1>10. ASSUME NEW id \in DOMAIN rows, rows[id].feed # Null PROVE new[id] = rows[id]
  BY <1>2, <1>3, <1>5, <1>10
<1> QED
  BY <1>5, <1>9, <1>10 DEF m, new, highest, Extends

(* What a build writes.                                                     *)
LEMMA BuildNumbers ==
  ASSUME NEW r \in RawCorpora
  PROVE  /\ DOMAIN MessagesFile(r) = MessageIds(r)
         /\ \A id \in MessageIds(r) : ~IsLive(id)
         /\ \E k \in Nat : Numbered(MessagesFile(r), k)
         /\ DOMAIN MessagesFile(r) = {} => MessagesFile(r) = <<>>
<1> DEFINE M == MessageIds(r)
           m == MessagesFile(r)
           k == Cardinality(M)
<1>1. DOMAIN m = M /\ \A id \in M : m[id].rank = ChronologicalRank(r, id)
  BY DEF MessagesFile
<1>2. \A id \in M : ~IsLive(id)
  BY MessageOfSession, DemoAssumption DEF IsLive
<1>3. DOMAIN m = {} => m = <<>>
  BY DEF MessagesFile
<1>4. k \in Nat
  BY FiniteMessages, FS_CardinalityType
<1>5. /\ {ChronologicalRank(r, id) : id \in M} = 0..(k - 1)
      /\ \A a, b \in M : ChronologicalRank(r, a) = ChronologicalRank(r, b) => a = b
  <2> DEFINE below == [id \in M |-> {o \in M : LexLess(ChronologyKey(r, o), ChronologyKey(r, id))}]
  <2>1. IsFiniteSet(M) /\ Chain(M, below)
    BY FiniteMessages, KeysFormChain
  <2>2. \A id \in M : ChronologicalRank(r, id) = Cardinality(below[id])
    BY DEF ChronologicalRank
  <2>3. {ChronologicalRank(r, id) : id \in M} = 0..(k - 1)
    BY RanksOfMessages
  <2> HIDE DEF below, M
  <2>4. \A x, y \in M : x \in below[y] => Cardinality(below[x]) < Cardinality(below[y])
    BY <2>1, Ranks
  <2>5. \A x \in M : Cardinality(below[x]) \in 0..(Cardinality(M) - 1)
    BY <2>1, Ranks
  <2>6. \A x, y \in M : x # y => x \in below[y] \/ y \in below[x]
    BY <2>1 DEF Chain
  <2>7. \A x, y \in M : Cardinality(below[x]) = Cardinality(below[y]) => x = y
    BY <2>4, <2>5, <2>6
  <2> QED
    BY <2>2, <2>3, <2>7
<1> HIDE DEF m, M, k
<1>6. Numbered(m, k)
  <2>1. \A id \in M : ChronologicalRank(r, id) \in 0..(k - 1)
    BY <1>5
  <2>2. \A n \in 0..(k - 1) : \E id \in M : ChronologicalRank(r, id) = n
    BY <1>5
  <2> QED
    BY <1>1, <1>5, <2>1, <2>2 DEF Numbered
<1> QED
  BY <1>1, <1>2, <1>3, <1>4, <1>6 DEF m, M

LEMMA FilesOrderedStep ==
  ASSUME FilesOrdered, CorpusNext
  PROVE  FilesOrdered'
<1> USE DEF FilesOrdered
<1>1. CASE EditRaw \/ StartBuild \/ RefuseMissing \/ StopBuild
  BY <1>1, FilesLeft
<1>2. ASSUME NEW c \in Contents, BeginCopy(c) \/ CopyObject(c) PROVE FilesOrdered'
  <2>1. FilesShape' /\ raw' = raw /\ \A g \in DOMAIN disk \ {"objects"} : disk'[g] = disk[g]
    BY <1>2, ObjectWritten
  <2>2. disk'.messages = disk.messages /\ disk'.short = disk.short
    BY <2>1 DEF FilesShape
  <2> QED
    BY <2>1, <2>2
<1>3. PICK k \in Nat : Numbered(MessagesFile(raw), k)
  BY BuildNumbers
<1>4. /\ DOMAIN MessagesFile(raw) = MessageIds(raw)
      /\ \A id \in DOMAIN MessagesFile(raw) : ~IsLive(id) /\ MessagesFile(raw)[id].rank \in 0..(k - 1)
      /\ DOMAIN MessagesFile(raw) = {} => MessagesFile(raw) = <<>>
  BY <1>3, BuildNumbers DEF Numbered
<1>5. ASSUME NEW f \in DOMAIN NextFile, WritePart(f) PROVE FilesOrdered'
  <2>1. /\ FilesShape' /\ raw' = raw /\ disk'[f] \in Parts(raw, f)
        /\ \A g \in DOMAIN NextFile \ {f} : disk'[g] = disk[g]
        /\ disk'.short = (disk.short \/ f = "messages")
    BY <1>5, PartWritten
  <2>2. CASE f = "messages"
    <3>1. disk'.short /\ disk'.messages \in CutFiles(MessagesFile(raw))
      BY <2>1, <2>2 DEF Parts, FileOf
    <3>2. PICK i \in DOMAIN MessagesFile(raw) :
             disk'.messages = [id \in {j \in DOMAIN MessagesFile(raw) : LexLess(j, i)} |-> MessagesFile(raw)[id]]
      BY <3>1 DEF CutFiles
    <3>3. /\ \A id \in DOMAIN disk'.messages : ~IsLive(id) /\ disk'.messages[id].rank \in 0..(k - 1)
          /\ DOMAIN disk'.messages = {} => disk'.messages = <<>>
      BY <1>4, <3>2
    <3>4. disk'.short = TRUE
      BY <2>1, <2>2
    <3> QED
      BY <2>1, <3>3, <3>4
  <2>3. CASE f # "messages"
    <3>1. disk'.messages = disk.messages /\ disk'.short = disk.short
      BY <2>1, <2>3, FilesWritten
    <3> QED
      BY <2>1, <3>1
  <2> QED
    BY <2>2, <2>3
<1>6. ASSUME NEW f \in DOMAIN NextFile, WriteFile(f) PROVE FilesOrdered'
  <2>1. /\ FilesShape' /\ raw' = raw /\ disk'[f] = FileOf[raw][f]
        /\ \A g \in DOMAIN NextFile \ {f} : disk'[g] = disk[g]
        /\ disk'.short = (disk.short /\ f # "messages")
    BY <1>6, FileWritten
  <2>2. CASE f = "messages"
    <3>1. disk'.short = FALSE /\ disk'.messages = MessagesFile(raw)
      BY <2>1, <2>2 DEF FileOf
    <3> QED
      BY <1>3, <1>4, <2>1, <3>1
  <2>3. CASE f # "messages"
    <3>1. disk'.messages = disk.messages /\ disk'.short = disk.short
      BY <2>1, <2>3, FilesWritten
    <3> QED
      BY <2>1, <3>1
  <2> QED
    BY <2>2, <2>3
<1> QED
  BY <1>1, <1>2, <1>5, <1>6 DEF CorpusNext

LEMMA AlignedAlready == RowsOrdered => LiveAligned(db.rows) = db.rows
<1> SUFFICES ASSUME RowsOrdered PROVE LiveAligned(db.rows) = db.rows
  OBVIOUS
<1>1. \A id \in DOMAIN db.rows : [db.rows[id] EXCEPT !.ord = db.rows[id].feed] = db.rows[id]
  <2> TAKE id \in DOMAIN db.rows
  <2>1. \A i \in DOMAIN db.rows : \E n \in (0..db.feed) \cup {Null} : db.rows[i] = Given(n)
    BY DEF RowsOrdered, Placed
  <2>2. PICK n : db.rows[id] = Given(n)
    BY <2>1
  <2> QED
    BY <2>2 DEF Given
<1>2. db.rows = [id \in DOMAIN db.rows |-> db.rows[id]]
  BY DEF RowsOrdered, Placed
<1> QED
  BY <1>1, <1>2 DEF LiveAligned

LEMMA GreatestInt ==
  ASSUME NEW S \in SUBSET Int, S # {}, NEW top \in Int, \A x \in S : x <= top
  PROVE  Max(S) \in S /\ \A y \in S : Max(S) >= y
<1> DEFINE Below == {top - x : x \in S}
<1>0. \A x \in S : x \in Int /\ top - x \in Nat
  OBVIOUS
<1>1. Below \in SUBSET Nat /\ Below # {}
  <2>1. Below \subseteq Nat
    BY <1>0
  <2>2. PICK x \in S : TRUE
    OBVIOUS
  <2>3. top - x \in Below
    OBVIOUS
  <2> QED
    BY <2>1, <2>3
<1>2. PICK n \in Below : \A i \in Below : n <= i
  BY <1>1, LeastNat
<1>3. PICK x \in S : n = top - x
  OBVIOUS
<1>4. \A y \in S : x >= y
  <2> TAKE y \in S
  <2>1. top - x <= top - y
    BY <1>2, <1>3
  <2>2. x \in Int /\ y \in Int
    OBVIOUS
  <2> QED
    BY <2>1, <2>2
<1> QED
  BY <1>4 DEF Max

LEMMA TopOfPlaced ==
  ASSUME NEW rows, NEW high \in Nat, Placed(rows, high),
         NEW given \in DOMAIN rows, rows[given].feed \in Nat
  PROVE  LET top == Max({rows[id].ord : id \in DOMAIN rows} \cup {0})
         IN  top \in 0..high /\ top >= rows[given].feed
<1> DEFINE S == {rows[id].ord : id \in DOMAIN rows} \cup {0}
<1>1. \A id \in DOMAIN rows : rows[id].ord = rows[id].feed /\ rows[id].feed \in (0..high) \cup {Null}
  BY DEF Placed, Given
<1>2. S \in SUBSET Int /\ 0 \in S /\ rows[given].feed \in S /\ \A n \in S : n <= high
  BY <1>1 DEF Null
<1> HIDE DEF S
<1>3. Max(S) \in S /\ \A y \in S : Max(S) >= y
  <2>1. S # {} /\ high \in Int
    BY <1>2
  <2> QED
    BY <1>2, <2>1, GreatestInt
<1>4. Max(S) \in 0..high /\ Max(S) >= rows[given].feed
  <2>1. Max(S) \in Int /\ Max(S) <= high /\ Max(S) >= 0 /\ Max(S) >= rows[given].feed
    BY <1>2, <1>3
  <2> QED
    BY <2>1
<1> QED
  BY <1>4 DEF S

(* A seed that is not refused.                                              *)
LEMMA SeedMessagesKeeps ==
  ASSUME FilesOrdered, RowsOrdered, SeedMessages, UNCHANGED corpusVars, db' # db
  PROVE  /\ db'.feed \in Nat /\ db'.last = db'.feed /\ Placed(db'.rows, db'.feed)
         /\ db'.short = (db.short \/ disk.short)
         /\ \A id \in DOMAIN db.rows : IsLive(id) => id \in DOMAIN db'.rows /\ db'.rows[id] = db.rows[id]
         /\ ~db'.short =>
               /\ Dense(db'.rows, db'.feed)
               /\ \A id \in DOMAIN db.rows :
                     id \in DOMAIN db'.rows /\ (db.rows[id].feed # Null => db'.rows[id] = db.rows[id])
<1> DEFINE old == LiveAligned(db.rows)
           new == Upserted(old, DOMAIN disk.messages)
           top == Max({new[id].ord : id \in DOMAIN new} \cup {0})
           highest == Max({disk.messages[id].rank : id \in DOMAIN disk.messages})
<1>1. /\ ~Collides(old) /\ disk.messages # <<>>
      /\ db' = [db EXCEPT !.rows = new, !.media = WithRows(@, disk.media),
                          !.feed = IF @ > highest THEN @ ELSE highest,
                          !.last = IF @ > top THEN @ ELSE top,
                          !.short = @ \/ disk.short, !.owed = TRUE]
  BY DEF SeedMessages
<1> HIDE DEF old, new, top, highest
<1>2. /\ db'.rows = new /\ db'.feed = Greater(db.feed, highest)
      /\ db'.last = Greater(db.last, top)
      /\ db'.short = (db.short \/ disk.short)
  BY <1>1 DEF RowsOrdered, TablesShape, Greater
<1>3. old = db.rows /\ new = Upserted(db.rows, DOMAIN disk.messages)
  BY AlignedAlready DEF old, new
<1>4. /\ db.feed \in Nat \cup {Null}
      /\ db.last = IF db.feed = Null THEN 0 ELSE db.feed
      /\ Placed(db.rows, db.feed) /\ (~db.short => Dense(db.rows, db.feed))
      /\ \A id \in DOMAIN disk.messages : ~IsLive(id)
      /\ DOMAIN disk.messages # {}
  BY <1>1 DEF RowsOrdered, FilesOrdered
<1>5. PICK k \in Nat : /\ \A id \in DOMAIN disk.messages : disk.messages[id].rank \in 0..(k - 1)
                       /\ ~disk.short => Numbered(disk.messages, k)
  BY DEF FilesOrdered
<1>6. /\ highest \in 0..(k - 1)
      /\ \A id \in DOMAIN disk.messages : highest >= disk.messages[id].rank
      /\ \E id \in DOMAIN disk.messages : disk.messages[id].rank = highest
  <2> DEFINE S == {disk.messages[id].rank : id \in DOMAIN disk.messages}
  <2>1. S \in SUBSET Int /\ S # {} /\ k - 1 \in Int /\ \A x \in S : x <= k - 1
    BY <1>4, <1>5
  <2>2. highest = Max(S)
    BY DEF highest
  <2> HIDE DEF S
  <2>3. highest \in S /\ \A y \in S : highest >= y
    BY <2>1, <2>2, GreatestInt
  <2> QED
    BY <1>5, <2>3 DEF S
<1> DEFINE up == Greater(db.feed, highest)
<1>7. up \in Nat /\ db.feed <= up /\ highest <= up /\ (up = db.feed \/ up = highest)
  BY <1>4, <1>6 DEF Greater, Null
<1> HIDE DEF up
<1>8. \A id \in DOMAIN disk.messages : disk.messages[id].rank \in 0..up /\ ~IsLive(id)
  BY <1>4, <1>5, <1>6, <1>7
<1>9. Placed(new, up)
  BY <1>3, <1>4, <1>7, <1>8, SeedPlaces
<1>10. /\ \A id \in DOMAIN disk.messages : id \in DOMAIN new /\ new[id].feed = disk.messages[id].rank
       /\ \A id \in DOMAIN db.rows \ DOMAIN disk.messages : id \in DOMAIN new /\ new[id] = db.rows[id]
  BY <1>3 DEF Upserted
<1>11. top \in 0..up /\ top >= highest
  <2>1. PICK id \in DOMAIN disk.messages : disk.messages[id].rank = highest
    BY <1>6
  <2>2. id \in DOMAIN new /\ new[id].feed = highest /\ highest \in Nat
    BY <1>6, <1>10, <2>1
  <2> QED
    BY <1>7, <1>9, <2>2, TopOfPlaced DEF top
<1>12. db'.feed = up /\ db'.last = up
  <2>1. db'.feed = up
    BY <1>2 DEF up
  <2>2. Greater(db.last, top) = up
    BY <1>4, <1>6, <1>7, <1>11 DEF Null, Greater
  <2> QED
    BY <1>2, <2>1, <2>2
<1>13. ASSUME ~db'.short
       PROVE  Dense(new, up) /\ Extends(db.rows, new)
  <2>1. ~db.short /\ ~disk.short
    BY <1>2, <1>13 DEF RowsOrdered, FilesOrdered
  <2>2. Numbered(disk.messages, k) /\ k > 0
    BY <1>5, <1>6, <2>1
  <2>3. highest = k - 1
    <3>1. k - 1 \in 0..(k - 1)
      BY <2>2
    <3>2. \E id \in DOMAIN disk.messages : disk.messages[id].rank = k - 1
      BY <2>2, <3>1 DEF Numbered
    <3> QED
      BY <1>6, <3>2
  <2>4. ~Collides(db.rows) /\ up = Greater(db.feed, k - 1)
    BY <1>1, <1>3, <2>3 DEF up
  <2> QED
    BY <1>3, <1>4, <2>1, <2>2, <2>4, SeedKeepsDense
<1>14. \A id \in DOMAIN db.rows : IsLive(id) => id \in DOMAIN new /\ new[id] = db.rows[id]
  BY <1>4, <1>10
<1> QED
  BY <1>2, <1>7, <1>9, <1>12, <1>13, <1>14 DEF Extends

(* A live message takes the ordinal after the last.                         *)
LEMMA SendLiveKeeps ==
  ASSUME RowsOrdered, SendLive
  PROVE  /\ DOMAIN db' = DOMAIN db /\ db'.migrated = db.migrated /\ db'.short = db.short
         /\ UNCHANGED srv
         /\ db'.feed \in Nat /\ db'.last = db'.feed /\ Placed(db'.rows, db'.feed)
         /\ ~db.short => Dense(db'.rows, db'.feed)
         /\ \A id \in DOMAIN db.rows : id \in DOMAIN db'.rows /\ db'.rows[id] = db.rows[id]
<1> DEFINE rows == db.rows
           top == db.feed
           live == LiveId(top + 1)
           new == WithRows(rows, [id \in {live} |-> [feed |-> top + 1, ord |-> db.last + 1]])
<1>1. /\ top # Null /\ UNCHANGED srv
      /\ db' = [db EXCEPT !.rows = new, !.feed = @ + 1, !.last = @ + 1]
  BY DEF SendLive
<1>2. /\ DOMAIN db' = DOMAIN db /\ db'.migrated = db.migrated /\ db'.short = db.short
      /\ db'.rows = new /\ db'.feed = top + 1 /\ db'.last = db.last + 1
  BY <1>1 DEF RowsOrdered, TablesShape
<1>3. /\ DOMAIN new = DOMAIN rows \cup {live}
      /\ \A id \in DOMAIN rows : new[id] = rows[id]
      /\ live \notin DOMAIN rows => new[live] = [feed |-> top + 1, ord |-> db.last + 1]
      /\ new = [id \in DOMAIN new |-> new[id]]
  BY DEF WithRows
<1>4. /\ top \in Nat /\ db.last = top /\ Placed(rows, top) /\ (~db.short => Dense(rows, top))
  BY <1>1 DEF RowsOrdered
<1>5. IsLive(live) /\ live = LiveId(top + 1) /\ \A n : LiveId(n) = live => n = top + 1
  BY DEF IsLive, LiveId
<1> HIDE DEF rows, top, new, live
<1>6. /\ \A id \in DOMAIN rows : \E n \in (0..top) \cup {Null} : rows[id] = Given(n)
      /\ \A id \in DOMAIN rows : rows[id].feed \in (0..top) \cup {Null}
      /\ \A id \in DOMAIN rows : IsLive(id) => id = LiveId(rows[id].feed) /\ rows[id].feed # Null
  BY <1>4 DEF Placed, Given
<1>7. live \notin DOMAIN rows
  <2> SUFFICES ASSUME live \in DOMAIN rows PROVE FALSE
    OBVIOUS
  <2>1. rows[live].feed = top + 1 /\ rows[live].feed # Null
    BY <1>5, <1>6
  <2>2. rows[live].feed \in 0..top
    BY <1>6, <2>1
  <2> QED
    BY <1>4, <2>1, <2>2
<1>8. new[live] = Given(top + 1) /\ new[live].feed = top + 1 /\ top + 1 \in 0..(top + 1) /\ top + 1 # Null
  BY <1>3, <1>4, <1>7 DEF Given, Null
<1>9. \A id \in DOMAIN rows : new[id].feed # top + 1
  BY <1>3, <1>4, <1>6 DEF Null
<1>10. Placed(new, top + 1)
  <2>1. \A id \in DOMAIN new : \E n \in (0..(top + 1)) \cup {Null} : new[id] = Given(n)
    <3> TAKE id \in DOMAIN new
    <3>1. CASE id = live
      BY <1>8, <3>1
    <3>2. CASE id # live
      <4>1. PICK n \in (0..top) \cup {Null} : new[id] = Given(n)
        BY <1>3, <1>6, <3>2
      <4>2. n \in (0..(top + 1)) \cup {Null}
        BY <1>4, <4>1
      <4> QED
        BY <4>1, <4>2
    <3> QED
      BY <3>1, <3>2
  <2>2. \A id \in DOMAIN new : IsLive(id) => id = LiveId(new[id].feed) /\ new[id].feed # Null
    BY <1>3, <1>5, <1>6, <1>8
  <2> QED
    BY <1>3, <2>1, <2>2 DEF Placed
<1>11. ASSUME ~db.short PROVE Dense(new, top + 1)
  <2>1. /\ \A n \in 0..top : \E id \in DOMAIN rows : rows[id].feed = n
        /\ \A a, b \in DOMAIN rows : rows[a].feed = rows[b].feed /\ rows[a].feed # Null => a = b
    BY <1>4, <1>11 DEF Dense
  <2>2. \A n \in 0..(top + 1) : \E id \in DOMAIN new : new[id].feed = n
    <3> TAKE n \in 0..(top + 1)
    <3>1. CASE n = top + 1
      BY <1>3, <1>8, <3>1
    <3>2. CASE n # top + 1
      <4>1. n \in 0..top
        BY <1>4, <3>2
      <4> QED
        BY <1>3, <2>1, <4>1
    <3> QED
      BY <3>1, <3>2
  <2>3. ASSUME NEW a \in DOMAIN new, NEW b \in DOMAIN new, new[a].feed = new[b].feed, new[a].feed # Null
        PROVE  a = b
    <3>1. CASE a \in DOMAIN rows /\ b \in DOMAIN rows
      BY <1>3, <2>1, <2>3, <3>1
    <3> QED
      BY <1>3, <1>8, <1>9, <2>3, <3>1
  <2> QED
    BY <2>2, <2>3 DEF Dense
<1>12. top + 1 \in Nat /\ db'.feed = top + 1 /\ db'.last = top + 1 /\ db'.rows = new
  BY <1>2, <1>4
<1> QED
  BY <1>1, <1>2, <1>3, <1>10, <1>11, <1>12 DEF rows

LEMMA RowsOrderedStep ==
  ASSUME FilesOrdered, RowsOrdered, SeedingNext, UNCHANGED corpusVars
  PROVE  RowsOrdered'
<1>1. CASE LoadPostgres
  <2> DEFINE fresh == [id \in DOMAIN disk.messages |-> [feed |-> Null, ord |-> Null]]
  <2>1. /\ srv.pc = "down" /\ ~db.migrated
        /\ DOMAIN db' = DOMAIN db /\ db'.rows = fresh /\ db'.feed = db.feed /\ db'.last = db.last
        /\ db'.migrated = db.migrated /\ db'.short = db.short
        /\ UNCHANGED <<store, srv>>
    BY <1>1 DEF LoadPostgres, RowsOrdered, TablesShape
  <2>2. /\ fresh = [id \in DOMAIN fresh |-> fresh[id]] /\ DOMAIN fresh = DOMAIN disk.messages
        /\ \A id \in DOMAIN fresh : fresh[id] = Given(Null) /\ fresh[id].feed = Null /\ ~IsLive(id)
    BY DEF Given, FilesOrdered
  <2> HIDE DEF fresh
  <2>3. Placed(fresh, db.feed)
    BY <2>2 DEF Placed
  <2>4. ASSUME ~db.short PROVE Dense(fresh, db.feed)
    <3>1. db.feed \in Nat \cup {Null} /\ Dense(db.rows, db.feed)
      BY <2>4 DEF RowsOrdered
    <3>2. \A id \in DOMAIN db.rows : db.rows[id].feed = Null
      BY <2>1 DEF RowsOrdered
    <3>3. db.feed = Null
      <4> SUFFICES ASSUME db.feed # Null PROVE FALSE
        OBVIOUS
      <4>1. db.feed \in 0..db.feed
        BY <3>1
      <4>2. PICK id \in DOMAIN db.rows : db.rows[id].feed = db.feed
        BY <3>1, <4>1 DEF Dense
      <4> QED
        BY <3>2, <4>2
    <3>4. 0..db.feed = {}
      BY <3>3 DEF Null
    <3> QED
      BY <2>2, <3>3, <3>4 DEF Dense
  <2> QED
    BY <2>1, <2>2, <2>3, <2>4 DEF RowsOrdered, TablesShape
<1>2. CASE SeedIdentity \/ StartUnseeded
  <2>1. /\ DOMAIN db' = DOMAIN db /\ db'.migrated = TRUE
        /\ db'.rows = db.rows /\ db'.feed = db.feed /\ db'.last = db.last /\ db'.short = db.short
        /\ DOMAIN srv' = DOMAIN srv /\ UNCHANGED store
    BY <1>2 DEF SeedIdentity, StartUnseeded, RowsOrdered, TablesShape
  <2> QED
    BY <2>1 DEF RowsOrdered, TablesShape
<1>3. CASE SeedMessages
  <2>1. /\ srv.pc = "messages" /\ db.migrated
        /\ DOMAIN db' = DOMAIN db /\ db'.migrated = db.migrated /\ db'.short \in BOOLEAN
        /\ DOMAIN srv' = {"pc", "todo"} /\ UNCHANGED store
    BY <1>3 DEF SeedMessages, RowsOrdered, TablesShape, FilesOrdered
  <2>2. CASE db' = db
    BY <2>1, <2>2 DEF RowsOrdered, TablesShape
  <2>3. CASE db' # db
    <3>1. /\ db'.feed \in Nat /\ db'.last = db'.feed /\ Placed(db'.rows, db'.feed)
          /\ ~db'.short => Dense(db'.rows, db'.feed)
      BY <1>3, <2>3, SeedMessagesKeeps
    <3> QED
      BY <2>1, <3>1 DEF RowsOrdered, TablesShape, Null
  <2> QED
    BY <2>2, <2>3
<1>4. ASSUME NEW c \in Contents, SeedObject(c) PROVE RowsOrdered'
  <2>1. UNCHANGED db /\ DOMAIN srv' = {"pc", "todo"} /\ DOMAIN store' = Contents /\ srv.pc # "down"
    BY <1>4 DEF SeedObject, RowsOrdered, TablesShape
  <2> QED
    BY <2>1 DEF RowsOrdered, TablesShape
<1>5. CASE Listen
  <2>1. /\ DOMAIN db' = DOMAIN db /\ db'.migrated = db.migrated
        /\ db'.rows = db.rows /\ db'.feed = db.feed /\ db'.last = db.last /\ db'.short = db.short
        /\ UNCHANGED store /\ DOMAIN srv' = DOMAIN srv /\ srv.pc # "down"
    BY <1>5 DEF Listen, RowsOrdered, TablesShape
  <2> QED
    BY <2>1 DEF RowsOrdered, TablesShape
<1>6. CASE SendLive
  <2>1. UNCHANGED store /\ srv.pc = "listening"
    BY <1>6 DEF SendLive
  <2> QED
    BY <1>6, <2>1, SendLiveKeeps DEF RowsOrdered, TablesShape, Null
<1>7. CASE StopServer
  <2>1. UNCHANGED <<db, store>> /\ DOMAIN srv' = {"pc", "todo"} /\ srv.pc # "down"
    BY <1>7 DEF StopServer
  <2> QED
    BY <2>1 DEF RowsOrdered, TablesShape
<1> QED
  BY <1>1, <1>2, <1>3, <1>4, <1>5, <1>6, <1>7 DEF SeedingNext

LEMMA OrdinalsStep == OrdinalsInv /\ [BuildOrServe]_allVars => OrdinalsInv'
<1> SUFFICES ASSUME OrdinalsInv, [BuildOrServe]_allVars PROVE OrdinalsInv'
  OBVIOUS
<1>1. CASE CorpusNext /\ UNCHANGED seedVars
  <2>1. FilesOrdered'
    BY <1>1, FilesOrderedStep DEF OrdinalsInv
  <2>2. RowsOrdered'
    BY <1>1 DEF OrdinalsInv, RowsOrdered, TablesShape, seedVars
  <2> QED
    BY <2>1, <2>2 DEF OrdinalsInv
<1>2. CASE SeedingNext /\ UNCHANGED corpusVars
  <2>1. RowsOrdered'
    BY <1>2, RowsOrderedStep DEF OrdinalsInv
  <2>2. FilesOrdered'
    BY <1>2 DEF OrdinalsInv, FilesOrdered, FilesShape, corpusVars
  <2> QED
    BY <2>1, <2>2 DEF OrdinalsInv
<1>3. CASE UNCHANGED allVars
  BY <1>3 DEF allVars, corpusVars, seedVars, OrdinalsInv, FilesOrdered, FilesShape, RowsOrdered, TablesShape
<1> QED
  BY <1>1, <1>2, <1>3 DEF BuildOrServe

THEOREM OrdinalsInductive == SeedingSpec => []OrdinalsInv
<1>1. CorpusInit /\ SeedingInit => OrdinalsInv
  <2> SUFFICES ASSUME CorpusInit, SeedingInit PROVE OrdinalsInv
    OBVIOUS
  <2>1. FilesOrdered
    <3>1. Numbered(<<>>, 0)
      BY DEF Numbered
    <3> QED
      BY <3>1, CorpusAssumption DEF CorpusInit, FilesOrdered, FilesShape
  <2>2. RowsOrdered
    <3>1. Placed(<<>>, Null) /\ Dense(<<>>, Null)
      BY DEF Placed, Dense, Null
    <3> QED
      BY <3>1 DEF SeedingInit, RowsOrdered, TablesShape
  <2> QED
    BY <2>1, <2>2 DEF OrdinalsInv
<1> QED
  BY <1>1, OrdinalsStep, PTL DEF SeedingSpec

(* A message keeps the ordinals it was given, whatever corpora are built    *)
(* and seeded over it and whatever is sent meanwhile, until a start has     *)
(* read a messages.jsonl that was not whole (seed.go:84), and a live        *)
(* message even then.                                                       *)
THEOREM OrdinalsNeverMove == SeedingSpec => OrdinalsStay
<1>1. OrdinalsInv /\ [BuildOrServe]_allVars =>
        [ \A id \in DOMAIN db.rows :
            db.rows[id].feed # Null =>
                \/ db'.short /\ ~IsLive(id)
                \/ id \in DOMAIN db'.rows /\ db'.rows[id] = db.rows[id] ]_db
  <2> SUFFICES ASSUME OrdinalsInv, BuildOrServe, db' # db, NEW id \in DOMAIN db.rows, db.rows[id].feed # Null,
                      ~(db'.short /\ ~IsLive(id))
               PROVE  id \in DOMAIN db'.rows /\ db'.rows[id] = db.rows[id]
    BY DEF allVars, seedVars
  <2>1. SeedingNext /\ UNCHANGED corpusVars
    BY DEF BuildOrServe, seedVars
  <2>2. CASE LoadPostgres
    BY <2>2 DEF LoadPostgres, OrdinalsInv, RowsOrdered
  <2>3. CASE SeedIdentity \/ StartUnseeded \/ Listen
    <3>1. db'.rows = db.rows
      BY <2>3 DEF SeedIdentity, StartUnseeded, Listen, OrdinalsInv, RowsOrdered, TablesShape
    <3> QED
      BY <3>1
  <2>4. CASE SeedMessages
    BY <2>1, <2>4, SeedMessagesKeeps DEF OrdinalsInv
  <2>5. CASE SendLive
    BY <2>5, SendLiveKeeps DEF OrdinalsInv
  <2>6. CASE (\E c \in Contents : SeedObject(c)) \/ StopServer
    BY <2>6 DEF SeedObject, StopServer
  <2> QED
    BY <2>1, <2>2, <2>3, <2>4, <2>5, <2>6 DEF SeedingNext
<1> QED
  BY <1>1, OrdinalsInductive, PTL DEF SeedingSpec, OrdinalsStay
=============================================================================
