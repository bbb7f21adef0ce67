------------------------------ MODULE Seeding ------------------------------
(***************************************************************************)
(* What a server start makes of the corpus files: SeedIdentity,            *)
(* SeedMessages and SeedObjects (src/internal/repository/seed.go), the     *)
(* offline loader load_postgres, and the live messages sent meanwhile,     *)
(* which SendTx models statement by statement and this module as one step. *)
(* Every start with SEED_PROCESSED seeds again, over whatever the last     *)
(* corpus left in the database; a start without it serves what is there.   *)
(*                                                                         *)
(* db.rows[id] = [feed, ord] are the ordinals of a message (Null before a   *)
(* seed assigned them), db.media the contents media rows refer to, db.last *)
(* the channel's last_ordinal, db.feed feed_state (Null: no row) and        *)
(* db.members the pairs <<caller, channel>>.  The demo channel, which every *)
(* message is put into, is channel 0.  Two facts are history: db.short (a   *)
(* seed has read a messages.jsonl that was a part) and db.owed (media rows  *)
(* were written and no start has listened after it copied the objects).     *)
(***************************************************************************)
EXTENDS Corpus

CONSTANTS MaxSends

ASSUME SeedingAssumption == MaxSends \in Nat

VARIABLES db,     \* the tables
          store,  \* MinIO: content |-> "absent", "partial" (other bytes) or "whole"
          srv     \* the server process: pc, todo
seedVars == <<db, store, srv>>

Null == -1
DemoChannel == 0
IsLive(id) == id[1] = DemoChannel

\* The channels of the corpus are named <family>:<dialogue>.
ASSUME DemoAssumption == \A r \in RawCorpora : \A s \in r.sessions : s.ch # DemoChannel

LiveId(n) == <<DemoChannel, 0, n>>
SendersKnown(senders) ==
    {disk.messages[id].sender : id \in DOMAIN disk.messages} \subseteq senders \cup {NoSender}

SeedingInit ==
    /\ db = [rows |-> <<>>, media |-> <<>>, channels |-> {}, senders |-> {}, members |-> {}, last |-> 0,
             feed |-> Null, migrated |-> FALSE, short |-> FALSE, owed |-> FALSE]
    /\ store = [c \in Contents |-> "absent"]
    /\ srv = [pc |-> "down", todo |-> {}]

\* load_postgres replaces the corpus tables in one transaction.  Once the
\* server has migrated, outbox and chunks refer to messages and TRUNCATE
\* is refused.
LoadPostgres ==
    /\ srv.pc = "down" /\ ~db.migrated
    /\ disk.made
    /\ {id[1] : id \in DOMAIN disk.messages} \cup disk.members \subseteq disk.channels
    /\ SendersKnown(disk.senders)
    /\ DOMAIN disk.media \subseteq DOMAIN disk.messages
    /\ db' = [db EXCEPT !.rows = [id \in DOMAIN disk.messages |-> [feed |-> Null, ord |-> Null]],
                        !.media = disk.media, !.channels = disk.channels, !.senders = disk.senders,
                        !.members = {"bench"} \X disk.members, !.owed = TRUE]
    /\ UNCHANGED <<store, srv>>

\* ValidateDemoConfig: the demo channel is there, with which the viewer is made,
\* and the viewer is a member of every channel.
DemoConfigured(t) == DemoChannel \in t.channels /\ {"demo"} \X t.channels \subseteq t.members

\* A start without SEED_PROCESSED migrates, validates and listens.
StartUnseeded ==
    /\ srv.pc = "down"
    /\ db' = [db EXCEPT !.migrated = TRUE]
    /\ srv' = [srv EXCEPT !.pc = IF DemoConfigured(db) THEN "listening" ELSE "down"]
    /\ UNCHANGED store

\* Migrate, and SeedIdentity, which inserts what is not there, removes nothing
\* and makes the demo caller a member of every channel.  It fails if a file was
\* never written or a membership names a channel that is nowhere.
SeedIdentity ==
    /\ srv.pc = "down"
    /\ IF ~disk.made \/ ~(disk.members \subseteq db.channels \cup disk.channels)
       THEN db' = [db EXCEPT !.migrated = TRUE] /\ UNCHANGED srv
       ELSE LET known == db.channels \cup disk.channels \cup {DemoChannel}
            IN  /\ srv' = [srv EXCEPT !.pc = "messages"]
                /\ db' = [db EXCEPT !.migrated = TRUE, !.channels = known, !.senders = @ \cup disk.senders,
                                    !.members = @ \cup ({"bench"} \X disk.members) \cup ({"demo"} \X known)]
    /\ UNCHANGED store

\* UPDATE messages SET ordinal = feed_ordinal WHERE source_session_id = 'live'
LiveAligned(rows) ==
    [id \in DOMAIN rows |-> IF IsLive(id) THEN [rows[id] EXCEPT !.ord = rows[id].feed] ELSE rows[id]]

\* The messages are upserted by rank, each with its rank for both ordinals:
\* the table once those of the ids in done are.
Upserted(rows, done) ==
    [id \in DOMAIN rows \cup done |->
        IF id \in done THEN [feed |-> disk.messages[id].rank, ord |-> disk.messages[id].rank] ELSE rows[id]]
UpsertedBefore(rows, id) ==
    Upserted(rows, {o \in DOMAIN disk.messages : disk.messages[o].rank < disk.messages[id].rank})

\* The unique indexes on feed_ordinal and on (channel_id, ordinal) are checked
\* at every row.
Taken_NoIndex(rows, id, n) == FALSE
Taken(rows, id, n) == \E o \in DOMAIN rows \ {id} : n \in {rows[o].feed, rows[o].ord}
Collides(rows) ==
    \E id \in DOMAIN disk.messages : Taken(UpsertedBefore(rows, id), id, disk.messages[id].rank)

\* The rows that a table does not have yet.
WithRows(table, rows) ==
    [id \in DOMAIN table \cup DOMAIN rows |-> IF id \in DOMAIN table THEN table[id] ELSE rows[id]]

\* A message needs its sender and a media row its message; an existing media
\* row keeps its content.
SeedMessages ==
    /\ srv.pc = "messages"
    /\ LET old == LiveAligned(db.rows)
           new == Upserted(old, DOMAIN disk.messages)
           top == Max({new[id].ord : id \in DOMAIN new} \cup {0})
           highest == Max({disk.messages[id].rank : id \in DOMAIN disk.messages})
           ok == /\ ~Collides(old) /\ disk.messages # <<>>
                 /\ SendersKnown(db.senders)
                 /\ DOMAIN disk.media \subseteq DOMAIN new
       IN  IF ~ok
           THEN srv' = [srv EXCEPT !.pc = "down"] /\ UNCHANGED <<db, store>>
           ELSE /\ db' = [db EXCEPT !.rows = new,
                                    !.media = WithRows(@, disk.media),
                                    !.feed = IF @ > highest THEN @ ELSE highest,
                                    !.last = IF @ > top THEN @ ELSE top,
                                    !.short = @ \/ disk.short,
                                    !.owed = TRUE]
                /\ srv' = [pc |-> "objects",
                           todo |-> {c \in Contents : disk.objects[c] # "absent"}]
                /\ UNCHANGED store

\* An object whose bytes do not hash to its name stops the start; one that is
\* in the bucket already is skipped.
HashMatches_NameOnly(c) == disk.objects[c] # "absent"
HashMatches(c) == disk.objects[c] = "whole"
SeedObject(c) ==
    /\ srv.pc = "objects" /\ c \in srv.todo
    /\ IF ~HashMatches(c)
       THEN srv' = [pc |-> "down", todo |-> {}] /\ UNCHANGED store
       ELSE /\ srv' = [srv EXCEPT !.todo = @ \ {c}]
            /\ store' = IF store[c] = "absent" THEN [store EXCEPT ![c] = disk.objects[c]] ELSE store
    /\ UNCHANGED db

Listen ==
    /\ srv.pc = "objects" /\ srv.todo = {} /\ DemoConfigured(db)
    /\ srv' = [srv EXCEPT !.pc = "listening"]
    /\ db' = [db EXCEPT !.owed = FALSE]
    /\ UNCHANGED store

\* A live message: see SendTx for the transaction.
SendLive ==
    /\ srv.pc = "listening" /\ db.feed # Null
    /\ Cardinality({id \in DOMAIN db.rows : IsLive(id)}) < MaxSends
    /\ db' = [db EXCEPT !.rows = WithRows(@, [id \in {LiveId(db.feed + 1)} |->
                                                 [feed |-> db.feed + 1, ord |-> db.last + 1]]),
                        !.feed = @ + 1, !.last = @ + 1]
    /\ UNCHANGED <<store, srv>>

\* The process is stopped or dies, in the middle of a start too.
StopServer ==
    /\ srv.pc # "down"
    /\ srv' = [pc |-> "down", todo |-> {}]
    /\ UNCHANGED <<db, store>>

SeedingNext ==
    \/ LoadPostgres \/ StartUnseeded \/ SeedIdentity \/ SeedMessages \/ (\E c \in Contents : SeedObject(c))
    \/ Listen \/ SendLive \/ StopServer

\* Builds and server starts beside each other: the corpus files are all they
\* share.
allVars == <<corpusVars, seedVars>>
BuildOrServe ==
    \/ CorpusNext /\ UNCHANGED seedVars
    \/ SeedingNext /\ UNCHANGED corpusVars
SeedingSpec == CorpusInit /\ SeedingInit /\ [][BuildOrServe]_allVars

-----------------------------------------------------------------------------
\* Properties.

\* A message keeps the ordinals it was given (clients hold feed ordinals as
\* cursors, chunks end at one), however often another corpus is built and
\* seeded over it: seed.go:104 writes the new ordinals in rank order and the
\* unique indexes stop every start that would move one - unless one of the
\* seeds read a messages.jsonl that was being written or was left short.  Live
\* messages are not moved even then, by the seed's UPDATE of their ordinals.
OrdinalsStay ==
    [][ \A id \in DOMAIN db.rows :
            db.rows[id].feed # Null =>
                \/ db'.short /\ ~IsLive(id)
                \/ id \in DOMAIN db'.rows /\ db'.rows[id] = db.rows[id] ]_db

\* "chronological_rank is the stable append order" (seed.go): a message keeps
\* the ordinals it was given, whatever its file was when it was read.
AppendOrderIsStable ==
    [][ \A id \in DOMAIN db.rows :
            db.rows[id].feed # Null =>
                id \in DOMAIN db'.rows /\ db'.rows[id] = db.rows[id] ]_db

\* While the server listens, the bytes of every media row are in the bucket
\* and are the ones its reference names, although a build that stopped while
\* it copied an object leaves a file that no later build repairs (seed.go:180).
\* Only a start without SEED_PROCESSED, after one that died between its media
\* rows and its objects, may serve a row whose object is not there; wrong bytes
\* are never served.
ServedMediaReadable ==
    srv.pc = "listening" =>
        \A id \in DOMAIN db.media :
            store[db.media[id]] = "whole" \/ (db.owed /\ store[db.media[id]] = "absent")
=============================================================================
