------------------------------- MODULE Seeding -------------------------------
(***************************************************************************)
(* The seed script (scripts/seed_phaser.py) and the API server             *)
(* (scripts/arxdb_serve.py) on one data directory: how the key pairs, the  *)
(* roster, the corpus and the anchor come into being, with either process  *)
(* killed or failing at any point and started again.                       *)
(*                                                                         *)
(* The storage layer appears as module Ledger promises it: a commit adds   *)
(* the entry and the edge at once.  What Ledger leaves out is kept, namely *)
(* that the blob of an edge is on disk before the edge is committed.  Path *)
(* .write_bytes truncates the file and then fills it.                      *)
(***************************************************************************)
EXTENDS Naturals, Sequences, FiniteSets

CONSTANTS
    Corpus,         \* the sequence CORPUS_EDGES
    Slow,           \* corpus edges whose check may run into its timeout
    Api,            \* edges that clients post to the server, none of them the corpus's
    MaxAborts,      \* bound on crashes and exceptions
    MaxLog          \* bound on the number of log entries

ASSUME SeedingAssumption ==
    /\ Corpus \in Seq({Corpus[i] : i \in DOMAIN Corpus})
    /\ \A i \in DOMAIN Corpus : Corpus[i] \notin Api
    /\ \A i, j \in DOMAIN Corpus : Corpus[i] = Corpus[j] => i = j
    /\ MaxAborts \in Nat /\ MaxLog \in Nat

VARIABLES
    file,           \* seed_keypair, server_keypair, roster, anchor
    keys,           \* number of key pairs generated so far; pair k is the k-th
    log,            \* signer and payload of each entry
    objects,        \* blobs of corpus edges on disk
    seed,           \* state of the seed script
    server,         \* state of the API server
    aborts,         \* crashes and exceptions so far
    collided,       \* history: both processes have been creating the server's key at once
    cut             \* history: the edges whose blob a run has written and then died

history == <<collided, cut>>
vars == <<file, keys, log, objects, seed, server, aborts, history>>

-----------------------------------------------------------------------------
Absent == <<"absent">>          \* the file does not exist
Torn == <<"torn">>              \* truncated by write_bytes and not yet filled
Content(x) == <<"content", x>>

\* The agents are bound to public keys; Roster() binds nobody.
Bind(roster, agent, key) ==
    [a \in DOMAIN roster \cup {agent} |-> IF a = agent THEN key ELSE roster[a]]

EmptyRoster == [a \in {} |-> 0]

\* Payloads.  An edge record contains its signer's public key, so the same corpus
\* edge under another key is another record.
EdgeRecord(c, key) == <<"edge", <<c, key>>>>
RosterRecord(roster) == <<"roster", roster>>

Off == [pc |-> "off", key |-> 0, serverKey |-> 0, roster |-> EmptyRoster,
        next |-> 1, root |-> <<>>]

Truncate(f) == file' = [file EXCEPT ![f] = Torn]
Fill(f, x) == file' = [file EXCEPT ![f] = Content(x)]

-----------------------------------------------------------------------------
(***************************************************************************)
(* main of the seed script.                                                *)
(***************************************************************************)

StartSeed ==
    /\ seed.pc = "off"
    /\ seed' = [Off EXCEPT !.pc = "key"]
    /\ UNCHANGED <<file, keys, log, objects, server, aborts, history>>

\* Mutation: the key pair is not written down.
NewKeyUnsaved ==
    /\ seed.pc = "key" /\ file["seed_keypair"] \in {Absent, Torn}
    /\ keys' = keys + 1
    /\ seed' = [seed EXCEPT !.pc = "server_key", !.key = keys']
    /\ UNCHANGED <<file, log, objects, server, aborts, history>>

\* _load_or_create_keypair: the file is there with its full size.
LoadKey ==
    /\ seed.pc = "key" /\ file["seed_keypair"] \notin {Absent, Torn}
    /\ seed' = [seed EXCEPT !.pc = "server_key", !.key = file["seed_keypair"][2]]
    /\ UNCHANGED <<file, keys, log, objects, server, aborts, history>>

\* ... or it is missing or too short.
NewKey ==
    /\ seed.pc = "key" /\ file["seed_keypair"] \in {Absent, Torn}
    /\ keys' = keys + 1
    /\ seed' = [seed EXCEPT !.pc = "write_key", !.key = keys']
    /\ Truncate("seed_keypair")
    /\ UNCHANGED <<log, objects, server, aborts, history>>

WriteKey ==
    /\ seed.pc = "write_key"
    /\ Fill("seed_keypair", seed.key)
    /\ seed' = [seed EXCEPT !.pc = "server_key"]
    /\ UNCHANGED <<keys, log, objects, server, aborts, history>>

\* _load_or_create_server_keypair reads the file that the server uses.
LoadServerKey ==
    /\ seed.pc = "server_key" /\ file["server_keypair"] \notin {Absent, Torn}
    /\ seed' = [seed EXCEPT !.pc = "len", !.serverKey = file["server_keypair"][2]]
    /\ UNCHANGED <<file, keys, log, objects, server, aborts, history>>

\* The file may have changed by the time the new pair is written.
NewServerKey ==
    /\ seed.pc = "server_key" /\ file["server_keypair"] \in {Absent, Torn}
    /\ keys' = keys + 1
    /\ seed' = [seed EXCEPT !.pc = "truncate_server_key", !.serverKey = keys']
    /\ collided' = (collided \/ server.pc \in {"truncate_key", "write_key"})
    /\ UNCHANGED <<file, log, objects, server, aborts, cut>>

TruncateServerKey ==
    /\ seed.pc = "truncate_server_key"
    /\ Truncate("server_keypair")
    /\ seed' = [seed EXCEPT !.pc = "write_server_key"]
    /\ UNCHANGED <<keys, log, objects, server, aborts, history>>

WriteServerKey ==
    /\ seed.pc = "write_server_key"
    /\ Fill("server_keypair", seed.serverKey)
    /\ seed' = [seed EXCEPT !.pc = "len"]
    /\ UNCHANGED <<keys, log, objects, server, aborts, history>>

\* Mutation: the two keys are mixed up.
GenesisRosterSwapped ==
    Bind(Bind(EmptyRoster, "Skye", seed.serverKey), "arxdb-server", seed.key)

GenesisRoster ==
    Bind(Bind(EmptyRoster, "Skye", seed.key), "arxdb-server", seed.serverKey)

\* commit_roster: an empty log gets the roster; any other log is left alone, and
\* main does not look at the result.
RosterLen ==
    /\ seed.pc = "len"
    /\ seed' = [seed EXCEPT !.pc = IF log = <<>> THEN "append_roster" ELSE "corpus",
                            !.roster = GenesisRoster]
    /\ UNCHANGED <<file, keys, log, objects, server, aborts, history>>

AppendRoster ==
    /\ seed.pc = "append_roster" /\ Len(log) < MaxLog
    /\ log' = Append(log, [signer |-> seed.key, payload |-> RosterRecord(seed.roster)])
    /\ seed' = [seed EXCEPT !.pc = "corpus"]
    /\ UNCHANGED <<file, keys, objects, server, aborts, history>>

-----------------------------------------------------------------------------
(***************************************************************************)
(* seed: the loop over the corpus.                                         *)
(***************************************************************************)

Current == Corpus[seed.next]

InCorpus == seed.pc = "corpus" /\ seed.next <= Len(Corpus)

\* Mutation: an edge is committed whether or not it is known.
NeverSkipped == FALSE

\* resolve_edge reads the object store, not the graph.
Known == EdgeRecord(Current, seed.key) \in objects

\* Rejected by the first or by the second verification, or known already.
SkipEdge ==
    /\ InCorpus
    /\ Current \in Slow \/ Known
    /\ seed' = [seed EXCEPT !.next = @ + 1]
    /\ UNCHANGED <<file, keys, log, objects, server, aborts, history>>

\* verify_and_commit: the blobs first ...
PutEdge ==
    /\ InCorpus /\ ~Known
    /\ objects' = objects \cup {EdgeRecord(Current, seed.key)}
    /\ seed' = [seed EXCEPT !.pc = "commit"]
    /\ UNCHANGED <<file, keys, log, server, aborts, history>>

\* Mutation: the loop moves on without the transaction.
CommitSkipped ==
    /\ seed.pc = "commit" /\ Len(log) < MaxLog
    /\ seed' = [seed EXCEPT !.pc = "corpus", !.next = @ + 1]
    /\ UNCHANGED <<file, keys, log, objects, server, aborts, history>>

\* ... then graph and log in one transaction.
CommitCorpusEdge ==
    /\ seed.pc = "commit" /\ Len(log) < MaxLog
    /\ log' = Append(log, [signer |-> seed.key, payload |-> EdgeRecord(Current, seed.key)])
    /\ seed' = [seed EXCEPT !.pc = "corpus", !.next = @ + 1]
    /\ UNCHANGED <<file, keys, objects, server, aborts, history>>

-----------------------------------------------------------------------------
(***************************************************************************)
(* persist_anchor.  The root stands for the entries it covers: for a given *)
(* entry count it determines them (module MerkleLog).                      *)
(***************************************************************************)

\* Mutation: the anchor is built from an entry that is not committed.
RootAhead ==
    /\ seed.pc = "corpus" /\ seed.next > Len(Corpus)
    /\ seed' = [seed EXCEPT !.pc = "count", !.root = Append(log, Off)]
    /\ UNCHANGED <<file, keys, log, objects, server, aborts, history>>

AnchorRoot ==
    /\ seed.pc = "corpus" /\ seed.next > Len(Corpus)
    /\ seed' = [seed EXCEPT !.pc = "count", !.root = log]
    /\ UNCHANGED <<file, keys, log, objects, server, aborts, history>>

\* The entry count is read separately; next holds it from here on.
AnchorCount ==
    /\ seed.pc = "count"
    /\ seed' = [seed EXCEPT !.pc = "write_roster", !.next = Len(log)]
    /\ Truncate("roster")
    /\ UNCHANGED <<keys, log, objects, server, aborts, history>>

WriteRoster ==
    /\ seed.pc = "write_roster"
    /\ Fill("roster", seed.roster)
    /\ seed' = [seed EXCEPT !.pc = "truncate_anchor"]
    /\ UNCHANGED <<keys, log, objects, server, aborts, history>>

TruncateAnchor ==
    /\ seed.pc = "truncate_anchor"
    /\ Truncate("anchor")
    /\ seed' = [seed EXCEPT !.pc = "write_anchor"]
    /\ UNCHANGED <<keys, log, objects, server, aborts, history>>

WriteAnchor ==
    /\ seed.pc = "write_anchor"
    /\ Fill("anchor", [root_hash |-> seed.root, entry_count |-> seed.next,
                       roster_hash |-> seed.roster])
    /\ seed' = [seed EXCEPT !.pc = "done"]
    /\ UNCHANGED <<keys, log, objects, server, aborts, history>>

\* The script may be run again.
Exit ==
    /\ seed.pc = "done"
    /\ seed' = Off
    /\ UNCHANGED <<file, keys, log, objects, server, aborts, history>>

\* Killed, or an exception that main does not catch: a full disk, a locked
\* database, a log entry taken by another process.
AbortSeed ==
    /\ seed.pc \notin {"off", "done"} /\ aborts < MaxAborts
    /\ seed' = Off
    /\ aborts' = aborts + 1
    /\ cut' = IF seed.pc = "commit" THEN cut \cup {EdgeRecord(Current, seed.key)} ELSE cut
    /\ UNCHANGED <<file, keys, log, objects, server, collided>>

-----------------------------------------------------------------------------
(***************************************************************************)
(* main of the server, and the commits it makes for its clients.           *)
(***************************************************************************)

ServerLoadKey ==
    /\ server.pc = "off" /\ file["server_keypair"] \notin {Absent, Torn}
    /\ server' = [server EXCEPT !.pc = "roster", !.key = file["server_keypair"][2]]
    /\ UNCHANGED <<file, keys, log, objects, seed, aborts, history>>

ServerNewKey ==
    /\ server.pc = "off" /\ file["server_keypair"] \in {Absent, Torn}
    /\ keys' = keys + 1
    /\ server' = [server EXCEPT !.pc = "truncate_key", !.key = keys']
    /\ collided' = (collided \/ seed.pc \in {"truncate_server_key", "write_server_key"})
    /\ UNCHANGED <<file, log, objects, seed, aborts, cut>>

ServerTruncateKey ==
    /\ server.pc = "truncate_key"
    /\ Truncate("server_keypair")
    /\ server' = [server EXCEPT !.pc = "write_key"]
    /\ UNCHANGED <<keys, log, objects, seed, aborts, history>>

ServerWriteKey ==
    /\ server.pc = "write_key"
    /\ Fill("server_keypair", server.key)
    /\ server' = [server EXCEPT !.pc = "roster"]
    /\ UNCHANGED <<keys, log, objects, seed, aborts, history>>

\* _load_or_create_roster: an existing binding of the server is kept.
ServerLoadRoster ==
    LET loaded == IF file["roster"] = Absent THEN EmptyRoster ELSE file["roster"][2]
    IN  /\ server.pc = "roster" /\ file["roster"] # Torn
        /\ server' = IF "arxdb-server" \in DOMAIN loaded
                     THEN [server EXCEPT !.pc = "serving", !.roster = loaded]
                     ELSE [server EXCEPT !.pc = "truncate_roster",
                                         !.roster = Bind(loaded, "arxdb-server", server.key)]
        /\ UNCHANGED <<file, keys, log, objects, seed, aborts, history>>

ServerTruncateRoster ==
    /\ server.pc = "truncate_roster"
    /\ Truncate("roster")
    /\ server' = [server EXCEPT !.pc = "write_roster"]
    /\ UNCHANGED <<keys, log, objects, seed, aborts, history>>

ServerWriteRoster ==
    /\ server.pc = "write_roster"
    /\ Fill("roster", server.roster)
    /\ server' = [server EXCEPT !.pc = "serving"]
    /\ UNCHANGED <<keys, log, objects, seed, aborts, history>>

\* POST /commit
ServerCommit(x) ==
    /\ server.pc = "serving" /\ Len(log) < MaxLog
    /\ log' = Append(log, [signer |-> server.key, payload |-> EdgeRecord(x, server.key)])
    /\ UNCHANGED <<file, keys, objects, seed, server, aborts, history>>

\* The server is stopped, or a roster file that is being written does not decode.
ServerStop ==
    /\ server.pc # "off" /\ aborts < MaxAborts
    /\ server' = Off
    /\ aborts' = aborts + 1
    /\ UNCHANGED <<file, keys, log, objects, seed, history>>

-----------------------------------------------------------------------------
Init ==
    /\ file = [f \in {"seed_keypair", "server_keypair", "roster", "anchor"} |-> Absent]
    /\ keys = 0
    /\ log = <<>>
    /\ objects = {}
    /\ seed = Off
    /\ server = Off
    /\ aborts = 0
    /\ collided = FALSE
    /\ cut = {}

SeedStep ==
    \/ StartSeed \/ LoadKey \/ NewKey \/ WriteKey
    \/ LoadServerKey \/ NewServerKey \/ TruncateServerKey \/ WriteServerKey
    \/ RosterLen \/ AppendRoster \/ SkipEdge \/ PutEdge \/ CommitCorpusEdge
    \/ AnchorRoot \/ AnchorCount \/ WriteRoster \/ TruncateAnchor \/ WriteAnchor
    \/ Exit \/ AbortSeed

ServerStep ==
    \/ ServerLoadKey \/ ServerNewKey \/ ServerTruncateKey \/ ServerWriteKey
    \/ ServerLoadRoster \/ ServerTruncateRoster \/ ServerWriteRoster
    \/ (\E x \in Api : ServerCommit(x)) \/ ServerStop

Next == SeedStep \/ ServerStep

Spec == Init /\ [][Next]_vars

-----------------------------------------------------------------------------
Logged(x) == {i \in DOMAIN log : log[i].payload = x}

Names == {Corpus[i] : i \in DOMAIN Corpus}

\* The script has one identity: whatever is interrupted, torn or repeated, it never
\* signs corpus edges with two different keys.
OneSeedIdentity ==
    \A i, j \in DOMAIN log :
        (log[i].payload[1] = "edge" /\ log[j].payload[1] = "edge"
            /\ log[i].payload[2][1] \in Names /\ log[j].payload[2][1] \in Names)
        => log[i].signer = log[j].signer

\* Running the script again never commits a corpus edge or a roster twice.
SeedIdempotent ==
    /\ \A i, j \in DOMAIN log :
           log[i].payload[1] = "roster" /\ log[j].payload[1] = "roster" => i = j
    /\ \A c \in Names, k \in 1 .. keys : Cardinality(Logged(EdgeRecord(c, k))) <= 1

\* A script that ran to its end leaves the whole corpus in the log, as far as its checks
\* do not time out, whatever happened to earlier runs and also while the server commits:
\* what is missing is just the edges whose blob a run had written when it died, and those
\* no later run repairs.
SeedComplete ==
    seed.pc = "done" =>
        \A c \in Names : LET x == EdgeRecord(c, seed.key)
                        IN  /\ Logged(x) = {} /\ c \notin Slow => x \in cut
                            /\ x \in cut => Logged(x) = {}

\* The anchor on disk is the root of a history that the log still begins with, and
\* its entry count is never smaller than that history.
AnchorIsHistory ==
    file["anchor"] \notin {Absent, Torn} =>
        LET a == file["anchor"][2]
        IN  /\ Len(a.root_hash) <= a.entry_count /\ a.entry_count <= Len(log)
            /\ SubSeq(log, 1, Len(a.root_hash)) = a.root_hash

\* The roster of a running server binds the script to the key in its file, and the server
\* to the key that it signs with, in whatever order the two processes created, read and
\* overwrote the shared files and were killed, unless both were ever creating the
\* server's key at the same time.
ServerNamed ==
    server.pc = "serving" =>
        /\ "Skye" \in DOMAIN server.roster => file["seed_keypair"] = Content(server.roster["Skye"])
        /\ collided \/ server.roster["arxdb-server"] = server.key

\* "An orphaned blob is harmless": a script that ran to its end has committed the
\* corpus, whatever happened to earlier runs.
OrphansHarmless ==
    seed.pc = "done" =>
        \A c \in Names \ Slow : Logged(EdgeRecord(c, seed.key)) # {}
==============================================================================
