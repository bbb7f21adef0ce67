------------------------------- MODULE Corpus -------------------------------
(***************************************************************************)
(* The normalised corpus: what src/ingest/normalization/pipeline.py       *)
(* computes from the raw sessions, and the order in which it writes the    *)
(* files every later tool reads.  A file is written where it is read, so a *)
(* reader may find a part of it, while the build runs and after it stopped.*)
(*                                                                         *)
(* A raw corpus is [sessions, orphans]: a session has its channel ch, its  *)
(* number n, its mapped calendar date and its turns; a turn has the role   *)
(* who, the mention at (or NoMention) and the content img of its image (or *)
(* NoImage).  A content stands for the bytes of a file and for their       *)
(* SHA-256.  The text, the copied raw fields and the reports are left out. *)
(***************************************************************************)
EXTENDS Integers, Sequences, FiniteSets, SequencesExt

CONSTANTS RawCorpora,         \* the raw directories a build may be given
          FirstCorpora,       \* those that may be there first
          SessionCount,       \* 308 in the code
          TurnsTillMidnight,  \* 600 in the code: from 09:00, a turn every 90 s
          Contents, Missing, NoImage, NoMention, Unmapped,
          Everyone, Aliases,  \* configs/senders_alias.yaml: role |-> canonical name
          SenderId, NoSender, \* canonical name |-> ASCII id, in the order of senders.jsonl
          Matches,            \* mention |-> known names it starts with, longest first
          Inaccessible,       \* channels configs/channel_access.yaml denies
          MaxEdits, MaxCrashes

ASSUME CorpusAssumption ==
    /\ FirstCorpora \subseteq RawCorpora
    /\ SessionCount \in Nat \ {0} /\ TurnsTillMidnight \in Nat \ {0}
    /\ MaxEdits \in Nat /\ MaxCrashes \in Nat
    /\ Missing \notin Contents /\ NoImage \notin Contents

VARIABLES raw,      \* the raw directory
          disk,     \* data/processed: objects and the five files that are read; made
                    \* says that all five exist, short that messages is a part
          norm,     \* the running build: pc, what it has to copy, what it has open
          edits, crashes
corpusVars == <<raw, disk, norm, edits, crashes>>

-----------------------------------------------------------------------------
\* What a build computes.

MessageIds(r) == UNION {{<<s.ch, s.n, t>> : t \in 0..(Len(s.turns) - 1)} : s \in r.sessions}
SessionOf(r, id) == CHOOSE s \in r.sessions : s.ch = id[1] /\ s.n = id[2]
Turn(r, id) == SessionOf(r, id).turns[id[3] + 1]

\* The directories name a session: <family>/dialogue<d>/.../session<n>.
ASSUME RawAssumption ==
    \A r \in RawCorpora :
        /\ IsFiniteSet(r.sessions) /\ r.orphans \subseteq Contents
        /\ \A s \in r.sessions : s.ch \in Int /\ s.n \in Int /\ s.date \in Int /\ Len(s.turns) \in Nat
        /\ \A s, u \in r.sessions : s.ch = u.ch /\ s.n = u.n => s = u
        /\ \A id \in MessageIds(r) : Turn(r, id).img \in Contents \cup {Missing, NoImage}

\* The elements of S, least first.
InOrder(S, less(_, _)) ==
    [i \in 1..Cardinality(S) |->
        CHOOSE x \in S : Cardinality({y \in S \ {x} : less(y, x)}) = i - 1]

LexLess(k, l) == \E i \in DOMAIN k : k[i] < l[i] /\ \A j \in 1..(i - 1) : k[j] = l[j]

\* The sort key of ordered_messages: session number, calendar day of the
\* synthetic time stamp, channel, turn.
ChronologyKey_ByDate(r, id) ==
    <<SessionOf(r, id).date + (id[3] \div TurnsTillMidnight), id[2], id[1], id[3]>>
ChronologyKey(r, id) ==
    <<id[2], SessionOf(r, id).date + (id[3] \div TurnsTillMidnight), id[1], id[3]>>
ChronologicalRank(r, id) ==
    Cardinality({o \in MessageIds(r) : LexLess(ChronologyKey(r, o), ChronologyKey(r, id))})

Neighbours(r) ==
    {p \in r.sessions \X r.sessions :
        /\ p[1].ch = p[2].ch /\ p[1].n < p[2].n
        /\ ~\E s \in r.sessions : s.ch = p[1].ch /\ p[1].n < s.n /\ s.n < p[2].n}
TemporalConflictSessions(r) ==
    UNION {{<<p[1].ch, p[1].n>>, <<p[2].ch, p[2].n>>} :
              p \in {q \in Neighbours(r) : q[1].date > q[2].date}}

\* Two roles are one sender when their canonical names have one ASCII form.
CanonicalSender(who) == IF who \in DOMAIN Aliases THEN Aliases[who] ELSE who
Sender(who) == IF who = Everyone THEN NoSender ELSE SenderId[CanonicalSender(who)]

SentBy(r, sender) == {id \in MessageIds(r) : Sender(Turn(r, id).who) = sender}
MentionRelations(r, at) ==
    IF at = NoMention \/ Matches[at] = <<>> THEN {}
    ELSE {[of |-> SenderId[Matches[at][1]], among |-> Len(Matches[at]),
           candidates |-> SentBy(r, SenderId[Matches[at][1]])]}

MessagesFile(r) ==
    [id \in MessageIds(r) |->
        [rank |-> ChronologicalRank(r, id), sender |-> Sender(Turn(r, id).who),
         conflict |-> <<id[1], id[2]>> \in TemporalConflictSessions(r),
         relations |-> MentionRelations(r, Turn(r, id).at)]]
Referenced(r) == {id \in MessageIds(r) : Turn(r, id).img # NoImage}
MediaFile(r) == [id \in Referenced(r) |-> Turn(r, id).img]
Channels(r) == {s.ch : s \in r.sessions}
Senders(r)  == {Sender(Turn(r, id).who) : id \in MessageIds(r)} \ {NoSender}

\* The files of a raw corpus; memberships.jsonl gives the benchmark caller the
\* channels it lists.
FileOf ==
    [r \in RawCorpora |->
        [messages |-> MessagesFile(r), media |-> MediaFile(r), channels |-> Channels(r),
         senders |-> Senders(r), members |-> Channels(r) \ Inaccessible]]

\* The order in which they are written, after the objects.
NextFile == [messages |-> "media", media |-> "channels", channels |-> "senders",
             senders |-> "members", members |-> "idle"]

\* A file is written in the order of its ids, so a part of it is a prefix
\* (a part that ends inside a line makes its reader fail).
CutFiles(f) == {[id \in {i \in DOMAIN f : LexLess(i, cut)} |-> f[id]] : cut \in DOMAIN f}
CutIds(S)   == {{x \in S : x < cut} : cut \in S}

IdsIn(f, part) == IF f \in {"messages", "media"} THEN DOMAIN part ELSE part
Parts(r, f) ==
    IF f \in {"messages", "media"} THEN CutFiles(FileOf[r][f]) ELSE CutIds(FileOf[r][f])

-----------------------------------------------------------------------------
CorpusInit ==
    /\ raw \in FirstCorpora
    /\ disk = [objects |-> [c \in Contents |-> "absent"], messages |-> <<>>, media |-> <<>>,
               channels |-> {}, senders |-> {}, members |-> {}, made |-> FALSE, short |-> FALSE]
    /\ norm = [pc |-> "idle", todo |-> {}, open |-> {}]
    /\ edits = 0 /\ crashes = 0

\* Somebody changes the raw data or a configuration table between two builds.
EditRaw ==
    /\ norm.pc = "idle" /\ edits < MaxEdits
    /\ raw' \in RawCorpora \ {raw}
    /\ edits' = edits + 1
    /\ UNCHANGED <<disk, norm, crashes>>

\* build_corpus reads every session first and refuses an unmapped date and a
\* wrong number of sessions.
ImagesOf(r) == {Turn(r, id).img : id \in Referenced(r)}
StartBuild ==
    /\ norm.pc = "idle"
    /\ \A s \in raw.sessions : s.date # Unmapped
    /\ Cardinality(raw.sessions) = SessionCount
    /\ norm' = [pc |-> "objects",
                todo |-> ImagesOf(raw) \cup (IF Missing \in ImagesOf(raw) THEN {} ELSE raw.orphans),
                open |-> {}]
    /\ UNCHANGED <<raw, disk, edits, crashes>>

\* A turn whose image is not there ends the build, after it copied others.
RefuseMissing ==
    /\ norm.pc = "objects" /\ norm.open = {} /\ Missing \in norm.todo
    /\ norm' = [pc |-> "idle", todo |-> {}, open |-> {}]
    /\ UNCHANGED <<raw, disk, edits, crashes>>

\* _copy_object skips a name that exists, whatever is in the file.  A new file
\* has its name before it has all its bytes.
BeginCopy(c) ==
    /\ norm.pc = "objects" /\ norm.open = {} /\ c \in norm.todo
    /\ disk.objects[c] = "absent"
    /\ disk' = [disk EXCEPT !.objects[c] = "partial"]
    /\ norm' = [norm EXCEPT !.open = {c}]
    /\ UNCHANGED <<raw, edits, crashes>>

Copied(c) == IF disk.objects[c] = "absent" \/ c \in norm.open THEN "whole" ELSE disk.objects[c]
CopyObject(c) ==
    /\ norm.pc = "objects" /\ norm.open \subseteq {c} /\ c \in norm.todo
    /\ disk' = [disk EXCEPT !.objects[c] = Copied(c)]
    /\ norm' = [norm EXCEPT !.todo = @ \ {c}, !.open = {}]
    /\ UNCHANGED <<raw, edits, crashes>>

\* _write_jsonl truncates the file and writes it through a buffer.
Reached(f) == norm.todo = {} /\ norm.pc = IF f = "messages" THEN "objects" ELSE f

WritePart(f) ==
    /\ Reached(f)
    /\ \E part \in Parts(raw, f) :
         /\ f \in norm.open => IdsIn(f, disk[f]) \subseteq IdsIn(f, part) /\ disk[f] # part
         /\ disk' = [disk EXCEPT ![f] = part, !.short = @ \/ f = "messages", !.made = @ \/ f = "members"]
    /\ norm' = [norm EXCEPT !.open = {f}]
    /\ UNCHANGED <<raw, edits, crashes>>

\* The files nobody reads back (orphan_media.jsonl and the reports) are left out.
WriteFile(f) ==
    /\ Reached(f)
    /\ disk' = [disk EXCEPT ![f] = FileOf[raw][f], !.short = @ /\ f # "messages", !.made = @ \/ f = "members"]
    /\ norm' = [norm EXCEPT !.pc = NextFile[f], !.open = {}]
    /\ UNCHANGED <<raw, edits, crashes>>

\* The build stops; the file it was writing keeps what was written of it.
StopBuild ==
    /\ norm.pc # "idle" /\ crashes < MaxCrashes
    /\ norm' = [pc |-> "idle", todo |-> {}, open |-> {}]
    /\ crashes' = crashes + 1
    /\ UNCHANGED <<raw, disk, edits>>

CorpusNext ==
    \/ EditRaw \/ StartBuild \/ RefuseMissing \/ StopBuild
    \/ \E c \in Contents : BeginCopy(c) \/ CopyObject(c)
    \/ \E f \in DOMAIN NextFile : WritePart(f) \/ WriteFile(f)

CorpusSpec == CorpusInit /\ [][CorpusNext]_corpusVars

-----------------------------------------------------------------------------
\* Properties.

\* chronological_rank (pipeline.py:265) numbers the messages without a hole,
\* never against the authored order of a conversation, whatever its dates say
\* (D15), and a conversation whose dates run backwards anywhere, between any
\* two of its sessions, has a flagged message, unless a session of it is empty.
CausalRanks ==
    (norm.pc \in {"media", "channels", "senders", "members"}) =>
        LET m == disk.messages
        IN  /\ {m[id].rank : id \in DOMAIN m} = 0..(Cardinality(DOMAIN m) - 1)
            /\ \A a, b \in DOMAIN m :
                 (a[1] = b[1] /\ LexLess(a, b)) => m[a].rank < m[b].rank
            /\ \A s, u \in raw.sessions :
                 (/\ s.ch = u.ch /\ s.n < u.n /\ s.date > u.date
                  /\ \A t \in raw.sessions : t.ch = s.ch => Len(t.turns) > 0) =>
                     \E id \in DOMAIN m :
                        /\ id[1] = s.ch /\ s.n <= id[2] /\ id[2] <= u.n
                        /\ m[id].conflict
=============================================================================
