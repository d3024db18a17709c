---------------------------- MODULE SeedingProofs ----------------------------
(***************************************************************************)
(* The seed script and the server keep their identities, the corpus and    *)
(* the anchor right, for every corpus and wherever either of them is       *)
(* interrupted and started again (module Seeding).  The last part is about *)
(* the loop over the real corpus (module CorpusSeeding).                   *)
(***************************************************************************)
EXTENDS Seeding, CorpusSeeding, FiniteSetTheorems, TLAPS

USE SeedingAssumption

-----------------------------------------------------------------------------
(***************************************************************************)
(* The inductive invariant, one conjunct for each question.                *)
(***************************************************************************)

Files == {"seed_keypair", "server_keypair", "roster", "anchor"}

\* Where the script is once its key is on disk, and once it has the server's key too.
Keyed == {"server_key", "truncate_server_key", "write_server_key", "len", "append_roster",
          "corpus", "commit", "count", "write_roster", "truncate_anchor", "write_anchor", "done"}
TwiceKeyed == Keyed \ {"server_key"}

\* Where the loop over the corpus is over.
Anchoring == {"count", "write_roster", "truncate_anchor", "write_anchor", "done"}

SeedPc == {"off", "key", "write_key"} \cup Keyed
Early == SeedPc \ ({"corpus", "commit"} \cup Anchoring)
ServerPc == {"off", "truncate_key", "write_key", "roster", "truncate_roster", "write_roster",
             "serving"}

Rosters == UNION {[A -> Nat] : A \in SUBSET {"Skye", "arxdb-server"}}

Records == {EdgeRecord(c, k) : c \in Names \cup Api, k \in Nat} \cup {RosterRecord(r) : r \in Rosters}

Entry == [signer : Nat, payload : Records]

Process(labels) == [pc : labels, key : Nat, serverKey : Nat, roster : Rosters,
                    next : Nat, root : Seq(Entry)]

Anchors == [root_hash : Seq(Entry), entry_count : Nat, roster_hash : Rosters]

OnDisk(X) == {Absent, Torn} \cup {Content(x) : x \in X}

Types ==
    /\ file = [f \in Files |-> file[f]]
    /\ file["seed_keypair"] \in OnDisk(Nat) /\ file["server_keypair"] \in OnDisk(Nat)
    /\ file["roster"] \in OnDisk(Rosters) /\ file["anchor"] \in OnDisk(Anchors)
    /\ keys \in Nat /\ aborts \in Nat
    /\ log \in Seq(Entry)
    /\ seed \in Process(SeedPc) /\ server \in Process(ServerPc)

ScriptEdge(x) == x.payload[1] = "edge" /\ x.payload[2][1] \in Names

\* The key that the script works with, and every key that it has signed corpus edges
\* with, is the one in its file: so nothing overwrites that file any more.
Identity ==
    /\ seed.pc \in Keyed => file["seed_keypair"] = Content(seed.key)
    /\ seed.pc = "write_key" => file["seed_keypair"] = Torn
    /\ \A i \in DOMAIN log : ScriptEdge(log[i]) => file["seed_keypair"] = Content(log[i].signer)

\* A roster is appended only where there is none, and a corpus edge only if its blob
\* was missing when the script last looked; a logged corpus edge has its blob.
Idempotent ==
    /\ \A i, j \in DOMAIN log :
           log[i].payload[1] = "roster" /\ log[j].payload[1] = "roster" => i = j
    /\ seed.pc = "append_roster" => \A i \in DOMAIN log : log[i].payload[1] # "roster"
    /\ seed.pc \in SeedPc \ Anchoring => seed.next >= 1
    /\ seed.pc = "commit" =>
           /\ seed.next <= Len(Corpus)
           /\ EdgeRecord(Current, seed.key) \in objects
           /\ \A i \in DOMAIN log : log[i].payload # EdgeRecord(Current, seed.key)
    /\ \A i \in DOMAIN log : ScriptEdge(log[i]) => log[i].payload \in objects
    /\ \A i, j \in DOMAIN log : ScriptEdge(log[i]) /\ log[i].payload = log[j].payload => i = j

Stored(i) == Corpus[i] \in Slow \/ EdgeRecord(Corpus[i], seed.key) \in objects

\* The loop starts with the first edge and has stored what it has passed.
Progress ==
    /\ seed.pc \in Early => seed.next = 1
    /\ seed.pc \in {"corpus", "commit"} => \A i \in DOMAIN Corpus : i < seed.next => Stored(i)
    /\ seed.pc \in Anchoring => \A i \in DOMAIN Corpus : Stored(i)

ScriptRecords == {EdgeRecord(c, k) : c \in Names, k \in Nat}

IsLogged(x) == \E i \in DOMAIN log : log[i].payload = x

Committing(x) == seed.pc = "commit" /\ x = EdgeRecord(Current, seed.key)

\* What is stored is logged, or is being committed, or its commit was cut off; and what
\* was cut off is never logged, because the script finds its blob and passes on.
CutOff ==
    /\ cut \subseteq ScriptRecords \cap objects
    /\ \A x \in cut : ~IsLogged(x) /\ ~Committing(x)
    /\ \A x \in objects : IsLogged(x) \/ Committing(x) \/ x \in cut

\* The log begins with these entries.
BeginsWith(root) ==
    Len(root) <= Len(log) /\ \A i \in 1 .. Len(root) : log[i] = root[i]

Anchored ==
    /\ seed.pc \in Anchoring => BeginsWith(seed.root)
    /\ seed.pc \in Anchoring \ {"count"} => Len(seed.root) <= seed.next /\ seed.next <= Len(log)
    /\ \A a \in Anchors : file["anchor"] = Content(a) =>
           /\ BeginsWith(a.root_hash)
           /\ Len(a.root_hash) <= a.entry_count /\ a.entry_count <= Len(log)

Bound(roster, k) == "arxdb-server" \in DOMAIN roster /\ roster["arxdb-server"] = k

RosterKnown == {"truncate_roster", "write_roster", "serving"}

\* Where a process makes the server's key, and where it works with one.
SeedMaking == {"truncate_server_key", "write_server_key"}
SeedSettled == TwiceKeyed \ SeedMaking
ServerMaking == {"truncate_key", "write_key"}
ServerSettled == {"roster"} \cup RosterKnown

\* The server's keys that a process works with or a roster binds.
InUse(k) ==
    \/ server.pc \in ServerSettled /\ server.key = k
    \/ seed.pc \in SeedSettled /\ seed.serverKey = k
    \/ Bound(seed.roster, k) \/ Bound(server.roster, k)
    \/ \E r \in Rosters : file["roster"] = Content(r) /\ Bound(r, k)

\* As long as the two processes have not made it at once, there is no server's key while
\* one of them makes it, and nobody makes it once it is in its file and in use.
MadeOnce ==
    /\ ~(seed.pc \in SeedMaking /\ server.pc \in ServerMaking)
    /\ seed.pc \in SeedMaking \/ server.pc \in ServerMaking => file["server_keypair"] \in {Absent, Torn}
    /\ \A k \in Nat : InUse(k) => file["server_keypair"] = Content(k)

BindsScript(roster, k) == "Skye" \in DOMAIN roster /\ roster["Skye"] = k

ScriptBound(k) ==
    \/ BindsScript(seed.roster, k) \/ BindsScript(server.roster, k)
    \/ \E r \in Rosters : file["roster"] = Content(r) /\ BindsScript(r, k)

Bindings ==
    /\ server.pc \in RosterKnown => "arxdb-server" \in DOMAIN server.roster
    /\ collided \in BOOLEAN /\ (~collided => MadeOnce)
    /\ \A k \in Nat : ScriptBound(k) => file["seed_keypair"] = Content(k)

SeedingInvariant ==
    Types /\ Identity /\ Idempotent /\ Progress /\ CutOff /\ Anchored /\ Bindings
-----------------------------------------------------------------------------
(***************************************************************************)
(* Facts about the values.                                                 *)
(***************************************************************************)

LEMMA FileValues ==
    /\ Absent # Torn
    /\ \A x : Content(x) # Absent /\ Content(x) # Torn /\ Content(x)[2] = x
    /\ \A x, y : Content(x) = Content(y) => x = y
  BY DEF Absent, Torn, Content

LEMMA RecordValues ==
    /\ \A c, k : EdgeRecord(c, k)[1] = "edge" /\ EdgeRecord(c, k)[2][1] = c /\ EdgeRecord(c, k)[2][2] = k
    /\ \A r : RosterRecord(r)[1] = "roster"
    /\ \A c, d, k, l : EdgeRecord(c, k) = EdgeRecord(d, l) => c = d /\ k = l
  BY DEF EdgeRecord, RosterRecord

\* A roster stays one when the server is bound in it, and then it has the server's key.
LEMMA RosterValues ==
    /\ EmptyRoster \in Rosters /\ "arxdb-server" \notin DOMAIN EmptyRoster
    /\ \A r \in Rosters, k \in Nat :
           /\ Bind(r, "arxdb-server", k) \in Rosters /\ Bind(r, "Skye", k) \in Rosters
           /\ Bound(Bind(r, "arxdb-server", k), k)
           /\ \A l : Bound(Bind(r, "arxdb-server", k), l) => l = k
  <1>1. EmptyRoster \in [{} -> Nat] /\ "arxdb-server" \notin DOMAIN EmptyRoster
    BY DEF EmptyRoster
  <1>2. ASSUME NEW r \in Rosters, NEW k \in Nat, NEW a \in {"Skye", "arxdb-server"}
        PROVE  /\ Bind(r, a, k) \in Rosters
               /\ a \in DOMAIN Bind(r, a, k) /\ Bind(r, a, k)[a] = k
    <2>1. PICK A \in SUBSET {"Skye", "arxdb-server"} : r \in [A -> Nat]
      BY DEF Rosters
    <2>2. Bind(r, a, k) \in [A \cup {a} -> Nat]
      BY <2>1 DEF Bind
    <2>3. A \cup {a} \in SUBSET {"Skye", "arxdb-server"}
      OBVIOUS
    <2> QED
      BY <2>2, <2>3 DEF Rosters, Bind
  <1> QED
    BY <1>1, <1>2 DEF Rosters, Bound

\* Who binds the server leaves the script's binding as it was.
LEMMA ScriptValues ==
    /\ \A l : ~BindsScript(EmptyRoster, l)
    /\ \A r \in Rosters, k \in Nat, l \in Nat :
           /\ BindsScript(Bind(r, "Skye", k), l) => l = k
           /\ BindsScript(Bind(r, "arxdb-server", k), l) => BindsScript(r, l)
  <1>1. \A l : ~BindsScript(EmptyRoster, l)
    BY DEF BindsScript, EmptyRoster
  <1>2. ASSUME NEW r \in Rosters, NEW k \in Nat, NEW l \in Nat
        PROVE  /\ BindsScript(Bind(r, "Skye", k), l) => l = k
               /\ BindsScript(Bind(r, "arxdb-server", k), l) => BindsScript(r, l)
    BY DEF BindsScript, Bind
  <1> QED
    BY <1>1, <1>2

\* A corpus position holds a corpus edge, which no client posts.
LEMMA CorpusValues ==
    /\ Len(Corpus) \in Nat /\ DOMAIN Corpus = 1 .. Len(Corpus)
    /\ \A i \in DOMAIN Corpus : Corpus[i] \in Names
    /\ Names \cap Api = {}
  <1>1. Len(Corpus) \in Nat /\ DOMAIN Corpus = 1 .. Len(Corpus)
    OBVIOUS
  <1> QED
    BY <1>1 DEF Names

\* The entries of a log one longer.
LEMMA Appended ==
    ASSUME NEW x \in Entry, log \in Seq(Entry), log' = Append(log, x)
    PROVE  /\ log' \in Seq(Entry) /\ Len(log) \in Nat /\ Len(log') = Len(log) + 1
           /\ DOMAIN log = 1 .. Len(log) /\ DOMAIN log' = 1 .. Len(log) + 1
           /\ log'[Len(log) + 1] = x
           /\ \A i \in DOMAIN log : log'[i] = log[i]
  OBVIOUS

-----------------------------------------------------------------------------
(***************************************************************************)
(* Types.                                                                  *)
(***************************************************************************)

\* A file operation changes one file.
LEMMA FileChanged ==
    ASSUME file = [f \in Files |-> file[f]], NEW g \in Files, NEW v,
           file' = [file EXCEPT ![g] = v]
    PROVE  /\ file' = [f \in Files |-> file'[f]] /\ file'[g] = v
           /\ \A f \in Files : f # g => file'[f] = file[f]
  OBVIOUS

\* What a process reads from a file that is neither missing nor torn.
LEMMA FileRead ==
    ASSUME NEW X, NEW v \in OnDisk(X), v \notin {Absent, Torn}
    PROVE  v[2] \in X /\ v = Content(v[2])
  BY FileValues DEF OnDisk

LEMMA FileFilled ==
    ASSUME NEW X
    PROVE  Absent \in OnDisk(X) /\ Torn \in OnDisk(X) /\ \A x \in X : Content(x) \in OnDisk(X)
  BY DEF OnDisk

LEMMA SeedTypes == Types /\ SeedStep => seed' \in Process(SeedPc)
  <1> SUFFICES ASSUME Types, SeedStep
               PROVE  seed' \in Process(SeedPc)
    OBVIOUS
  <1>0. seed \in Process(SeedPc) /\ keys \in Nat /\ log \in Seq(Entry) /\ Len(log) \in Nat
    BY DEF Types
  <1> USE DEF Process, SeedPc, Keyed
  <1>1. CASE StartSeed \/ Exit \/ AbortSeed
    <2>1. Off \in Process(SeedPc)
      BY RosterValues DEF Off
    <2> QED
      BY <1>1, <2>1 DEF StartSeed, Exit, AbortSeed
  <1>2. CASE LoadKey
    <2>1. file["seed_keypair"][2] \in Nat
      BY <1>2, FileRead DEF Types, LoadKey
    <2> QED
      BY <1>0, <1>2, <2>1 DEF LoadKey
  <1>3. CASE LoadServerKey
    <2>1. file["server_keypair"][2] \in Nat
      BY <1>3, FileRead DEF Types, LoadServerKey
    <2> QED
      BY <1>0, <1>3, <2>1 DEF LoadServerKey
  <1>4. CASE NewKey \/ NewServerKey
    <2>1. keys' \in Nat
      BY <1>0, <1>4 DEF NewKey, NewServerKey
    <2> QED
      BY <1>0, <1>4, <2>1 DEF NewKey, NewServerKey
  <1>5. CASE RosterLen
    <2>1. GenesisRoster \in Rosters
      BY <1>0, RosterValues DEF GenesisRoster
    <2> QED
      BY <1>0, <1>5, <2>1 DEF RosterLen
  <1>6. CASE SkipEdge \/ CommitCorpusEdge
    <2>1. seed.next + 1 \in Nat
      BY <1>0
    <2>2. CASE SkipEdge
      BY <1>0, <2>1, <2>2 DEF SkipEdge
    <2>3. CASE CommitCorpusEdge
      BY <1>0, <2>1, <2>3 DEF CommitCorpusEdge
    <2> QED
      BY <1>6, <2>2, <2>3
  <1>7. CASE AnchorRoot \/ AnchorCount
    BY <1>0, <1>7 DEF AnchorRoot, AnchorCount
  <1>8. CASE WriteKey \/ TruncateServerKey \/ WriteServerKey \/ AppendRoster \/ PutEdge
    BY <1>0, <1>8 DEF WriteKey, TruncateServerKey, WriteServerKey, AppendRoster, PutEdge
  <1>9. CASE WriteRoster \/ TruncateAnchor \/ WriteAnchor
    BY <1>0, <1>9 DEF WriteRoster, TruncateAnchor, WriteAnchor
  <1> QED
    BY <1>1, <1>2, <1>3, <1>4, <1>5, <1>6, <1>7, <1>8, <1>9 DEF SeedStep

LEMMA ServerTypes == Types /\ ServerStep => server' \in Process(ServerPc)
  <1> SUFFICES ASSUME Types, ServerStep
               PROVE  server' \in Process(ServerPc)
    OBVIOUS
  <1>0. server \in Process(ServerPc) /\ keys \in Nat
    BY DEF Types
  <1> USE DEF Process, ServerPc
  <1>1. CASE ServerStop
    BY <1>1, RosterValues DEF ServerStop, Off
  <1>2. CASE ServerLoadKey
    <2>1. file["server_keypair"][2] \in Nat
      BY <1>2, FileRead DEF Types, ServerLoadKey
    <2> QED
      BY <1>0, <1>2, <2>1 DEF ServerLoadKey
  <1>3. CASE ServerNewKey
    <2>1. keys' \in Nat
      BY <1>0, <1>3 DEF ServerNewKey
    <2> QED
      BY <1>0, <1>3, <2>1 DEF ServerNewKey
  <1>4. CASE ServerLoadRoster
    <2> DEFINE loaded == IF file["roster"] = Absent THEN EmptyRoster ELSE file["roster"][2]
    <2>1. loaded \in Rosters
      BY <1>4, FileRead, RosterValues DEF Types, ServerLoadRoster
    <2>2. Bind(loaded, "arxdb-server", server.key) \in Rosters
      <3> HIDE DEF loaded, Process
      <3>1. server.key \in Nat
        BY <1>0 DEF Process
      <3> QED
        BY <2>1, <3>1, RosterValues
    <2>3. \/ server' = [server EXCEPT !.pc = "serving", !.roster = loaded]
          \/ server' = [server EXCEPT !.pc = "truncate_roster",
                                      !.roster = Bind(loaded, "arxdb-server", server.key)]
      BY <1>4 DEF ServerLoadRoster
    <2> HIDE DEF loaded
    <2> QED
      BY <1>0, <2>1, <2>2, <2>3
  <1>5. CASE \/ ServerTruncateKey \/ ServerWriteKey \/ ServerTruncateRoster \/ ServerWriteRoster
             \/ \E x \in Api : ServerCommit(x)
    BY <1>0, <1>5 DEF ServerTruncateKey, ServerWriteKey, ServerTruncateRoster,
                      ServerWriteRoster, ServerCommit
  <1> QED
    BY <1>1, <1>2, <1>3, <1>4, <1>5 DEF ServerStep

\* The three ways in which the log grows.
LEMMA LogStep ==
    ASSUME Types, Idempotent, [Next]_vars
    PROVE  \/ log' = log
           \/ \E x \in Entry :
                  /\ log' = Append(log, x)
                  /\ \/ AppendRoster /\ x.payload = RosterRecord(seed.roster)
                     \/ /\ CommitCorpusEdge /\ seed.next \in DOMAIN Corpus
                        /\ x.signer = seed.key /\ x.payload = EdgeRecord(Current, seed.key)
                     \/ \E c \in Api : ServerCommit(c) /\ x.payload = EdgeRecord(c, server.key)
  <1>0. seed.key \in Nat /\ server.key \in Nat /\ seed.roster \in Rosters /\ seed.next \in Nat
    BY DEF Types, Process
  <1>1. CASE AppendRoster
    <2>1. [signer |-> seed.key, payload |-> RosterRecord(seed.roster)] \in Entry
      BY <1>0 DEF Entry, Records
    <2> QED
      BY <1>1, <2>1 DEF AppendRoster
  <1>2. CASE CommitCorpusEdge
    <2>1. seed.next \in DOMAIN Corpus
      BY <1>0, <1>2, CorpusValues DEF CommitCorpusEdge, Idempotent, SeedPc, Keyed, Anchoring
    <2>2. Current \in Names
      BY <2>1, CorpusValues DEF Current
    <2>3. [signer |-> seed.key, payload |-> EdgeRecord(Current, seed.key)] \in Entry
      BY <1>0, <2>2 DEF Entry, Records
    <2> QED
      BY <1>2, <2>1, <2>3 DEF CommitCorpusEdge
  <1>3. CASE \E c \in Api : ServerCommit(c)
    <2>1. PICK c \in Api : ServerCommit(c)
      BY <1>3
    <2>2. [signer |-> server.key, payload |-> EdgeRecord(c, server.key)] \in Entry
      BY <1>0 DEF Entry, Records
    <2> QED
      BY <2>1, <2>2 DEF ServerCommit
  <1>4. CASE UNCHANGED vars
    BY <1>4 DEF vars
  <1>5. CASE \/ StartSeed \/ LoadKey \/ NewKey \/ WriteKey
             \/ LoadServerKey \/ NewServerKey \/ TruncateServerKey \/ WriteServerKey
             \/ RosterLen \/ SkipEdge \/ PutEdge
             \/ AnchorRoot \/ AnchorCount \/ WriteRoster \/ TruncateAnchor \/ WriteAnchor
             \/ Exit \/ AbortSeed
    BY <1>5 DEF StartSeed, LoadKey, NewKey, WriteKey, LoadServerKey, NewServerKey,
                TruncateServerKey, WriteServerKey, RosterLen, SkipEdge, PutEdge, AnchorRoot,
                AnchorCount, WriteRoster, TruncateAnchor, WriteAnchor, Exit, AbortSeed
  <1>6. CASE \/ ServerLoadKey \/ ServerNewKey \/ ServerTruncateKey \/ ServerWriteKey
             \/ ServerLoadRoster \/ ServerTruncateRoster \/ ServerWriteRoster \/ ServerStop
    BY <1>6 DEF ServerLoadKey, ServerNewKey, ServerTruncateKey, ServerWriteKey,
                ServerLoadRoster, ServerTruncateRoster, ServerWriteRoster, ServerStop
  <1> QED
    BY <1>1, <1>2, <1>3, <1>4, <1>5, <1>6 DEF Next, SeedStep, ServerStep

\* Which file a step truncates or fills, and with what.
LEMMA FileStep ==
    ASSUME Types, [Next]_vars
    PROVE  /\ file' = [f \in Files |-> file'[f]]
           /\ \/ file'["seed_keypair"] = file["seed_keypair"]
              \/ NewKey /\ file'["seed_keypair"] = Torn
              \/ WriteKey /\ file'["seed_keypair"] = Content(seed.key)
           /\ \/ file'["server_keypair"] = file["server_keypair"]
              \/ TruncateServerKey /\ file'["server_keypair"] = Torn
              \/ WriteServerKey /\ file'["server_keypair"] = Content(seed.serverKey)
              \/ ServerTruncateKey /\ file'["server_keypair"] = Torn
              \/ ServerWriteKey /\ file'["server_keypair"] = Content(server.key)
           /\ \/ file'["roster"] = file["roster"]
              \/ AnchorCount /\ file'["roster"] = Torn
              \/ WriteRoster /\ file'["roster"] = Content(seed.roster)
              \/ ServerTruncateRoster /\ file'["roster"] = Torn
              \/ ServerWriteRoster /\ file'["roster"] = Content(server.roster)
           /\ \/ file'["anchor"] = file["anchor"]
              \/ TruncateAnchor /\ file'["anchor"] = Torn
              \/ /\ WriteAnchor
                 /\ file'["anchor"] = Content([root_hash |-> seed.root, entry_count |-> seed.next,
                                               roster_hash |-> seed.roster])
  <1>0. file = [f \in Files |-> file[f]]
    BY DEF Types
  <1>1. CASE NewKey \/ WriteKey
    BY <1>0, <1>1, FileChanged DEF NewKey, WriteKey, Truncate, Fill, Files
  <1>2. CASE TruncateServerKey \/ WriteServerKey \/ ServerTruncateKey \/ ServerWriteKey
    BY <1>0, <1>2, FileChanged DEF TruncateServerKey, WriteServerKey, ServerTruncateKey, ServerWriteKey,
       Truncate, Fill, Files
  <1>3. CASE AnchorCount \/ WriteRoster \/ ServerTruncateRoster \/ ServerWriteRoster
    BY <1>0, <1>3, FileChanged DEF AnchorCount, WriteRoster, ServerTruncateRoster, ServerWriteRoster,
       Truncate, Fill, Files
  <1>4. CASE TruncateAnchor \/ WriteAnchor
    BY <1>0, <1>4, FileChanged DEF TruncateAnchor, WriteAnchor, Truncate, Fill, Files
  <1>5. CASE \/ StartSeed \/ LoadKey \/ LoadServerKey \/ NewServerKey
             \/ RosterLen \/ AppendRoster \/ SkipEdge \/ PutEdge \/ CommitCorpusEdge
             \/ AnchorRoot \/ Exit \/ AbortSeed
    BY <1>0, <1>5 DEF StartSeed, LoadKey, LoadServerKey, NewServerKey, RosterLen, AppendRoster,
                      SkipEdge, PutEdge, CommitCorpusEdge, AnchorRoot, Exit, AbortSeed
  <1>6. CASE \/ ServerLoadKey \/ ServerNewKey \/ ServerLoadRoster \/ ServerStop
             \/ \E x \in Api : ServerCommit(x)
    BY <1>0, <1>6 DEF ServerLoadKey, ServerNewKey, ServerLoadRoster, ServerStop, ServerCommit
  <1>7. CASE UNCHANGED vars
    BY <1>0, <1>7 DEF vars
  <1> QED
    BY <1>1, <1>2, <1>3, <1>4, <1>5, <1>6, <1>7 DEF Next, SeedStep, ServerStep

\* Each process moves alone.
LEMMA Movers ==
    ASSUME [Next]_vars
    PROVE  /\ seed' = seed \/ (SeedStep /\ server' = server)
           /\ server' = server \/ (ServerStep /\ seed' = seed)
           /\ aborts' \in {aborts, aborts + 1}
           /\ keys' = keys \/ (keys' = keys + 1 /\ (NewKey \/ NewServerKey \/ ServerNewKey))
           /\ objects' = objects \/ (PutEdge /\ objects' = objects \cup {EdgeRecord(Current, seed.key)})
  <1>1. CASE SeedStep
    BY <1>1 DEF SeedStep, StartSeed, LoadKey, NewKey, WriteKey, LoadServerKey, NewServerKey,
                TruncateServerKey, WriteServerKey, RosterLen, AppendRoster, SkipEdge, PutEdge,
                CommitCorpusEdge, AnchorRoot, AnchorCount, WriteRoster, TruncateAnchor,
                WriteAnchor, Exit, AbortSeed
  <1>2. CASE ServerStep
    BY <1>2 DEF ServerStep, ServerLoadKey, ServerNewKey, ServerTruncateKey, ServerWriteKey,
                ServerLoadRoster, ServerTruncateRoster, ServerWriteRoster, ServerCommit, ServerStop
  <1>3. CASE UNCHANGED vars
    BY <1>3 DEF vars
  <1> QED
    BY <1>1, <1>2, <1>3 DEF Next

\* What is remembered of the steps.
LEMMA HistoryStep ==
    ASSUME [Next]_vars
    PROVE  /\ \/ cut' = cut
              \/ /\ AbortSeed /\ seed.pc = "commit"
                 /\ cut' = cut \cup {EdgeRecord(Current, seed.key)}
           /\ collided' = collided \/ NewServerKey \/ ServerNewKey
           /\ NewServerKey => collided' = (collided \/ server.pc \in ServerMaking)
           /\ ServerNewKey => collided' = (collided \/ seed.pc \in SeedMaking)
  <1> USE DEF history, SeedMaking, ServerMaking
  <1>1. CASE NewServerKey \/ ServerNewKey
    BY <1>1 DEF NewServerKey, ServerNewKey
  <1>2. CASE AbortSeed
    BY <1>2 DEF AbortSeed, NewServerKey, ServerNewKey
  <1>3. CASE (SeedStep \/ ServerStep) /\ ~NewServerKey /\ ~ServerNewKey /\ ~AbortSeed
    <2>1. history' = history
      BY <1>3 DEF SeedStep, StartSeed, LoadKey, NewKey, WriteKey, LoadServerKey, TruncateServerKey,
                  WriteServerKey, RosterLen, AppendRoster, SkipEdge, PutEdge, CommitCorpusEdge,
                  AnchorRoot, AnchorCount, WriteRoster, TruncateAnchor, WriteAnchor, Exit,
                  ServerStep, ServerLoadKey, ServerTruncateKey, ServerWriteKey, ServerLoadRoster,
                  ServerTruncateRoster, ServerWriteRoster, ServerCommit, ServerStop
    <2> QED
      BY <1>3, <2>1
  <1>4. CASE UNCHANGED vars /\ ~NewServerKey /\ ~ServerNewKey
    BY <1>4 DEF vars
  <1> QED
    BY <1>1, <1>2, <1>3, <1>4 DEF Next

LEMMA TypesStep == Types /\ Idempotent /\ [Next]_vars => Types'
  <1> SUFFICES ASSUME Types, Idempotent, [Next]_vars
               PROVE  Types'
    OBVIOUS
  <1>0. /\ seed \in Process(SeedPc) /\ server \in Process(ServerPc)
        /\ keys \in Nat /\ aborts \in Nat /\ log \in Seq(Entry)
    BY DEF Types
  <1>1. seed' \in Process(SeedPc) /\ server' \in Process(ServerPc)
    BY <1>0, SeedTypes, ServerTypes, Movers
  <1>2. keys' \in Nat /\ aborts' \in Nat
    BY <1>0, Movers
  <1>3. log' \in Seq(Entry)
    BY <1>0, LogStep, Appended
  <1>4. /\ seed.key \in Nat /\ seed.serverKey \in Nat /\ seed.roster \in Rosters
        /\ seed.root \in Seq(Entry) /\ seed.next \in Nat
        /\ server.key \in Nat /\ server.roster \in Rosters
    BY <1>0 DEF Process
  <1>5. file'["seed_keypair"] \in OnDisk(Nat) /\ file'["server_keypair"] \in OnDisk(Nat)
    BY <1>4, FileStep, FileFilled DEF Types
  <1>6. file'["roster"] \in OnDisk(Rosters)
    BY <1>4, FileStep, FileFilled DEF Types
  <1>7. file'["anchor"] \in OnDisk(Anchors)
    <2>1. [root_hash |-> seed.root, entry_count |-> seed.next, roster_hash |-> seed.roster] \in Anchors
      BY <1>4 DEF Anchors
    <2> QED
      BY <2>1, FileStep, FileFilled DEF Types
  <1> QED
    BY <1>1, <1>2, <1>3, <1>5, <1>6, <1>7, FileStep DEF Types
-----------------------------------------------------------------------------
(***************************************************************************)
(* Identity.                                                               *)
(***************************************************************************)

\* A step of the script that does not make or load its key leaves it alone.
LEMMA KeyKept ==
    ASSUME Types, SeedStep
    PROVE  \/ seed'.pc \in {"off", "key"}
           \/ NewKey /\ seed.pc = "key" /\ seed'.pc = "write_key"
           \/ LoadKey /\ seed.pc = "key" /\ seed'.pc = "server_key" /\ seed'.key = file["seed_keypair"][2]
           \/ WriteKey /\ seed.pc = "write_key" /\ seed'.pc = "server_key" /\ seed'.key = seed.key
           \/ seed.pc \in Keyed /\ seed'.pc \in Keyed /\ seed'.key = seed.key
  <1>0. seed \in Process(SeedPc)
    BY DEF Types
  <1> USE DEF Process, Keyed
  <1>1. CASE StartSeed \/ Exit \/ AbortSeed
    BY <1>0, <1>1 DEF StartSeed, Exit, AbortSeed, Off
  <1>2. CASE NewKey \/ LoadKey \/ WriteKey
    BY <1>0, <1>2 DEF NewKey, LoadKey, WriteKey
  <1>3. CASE LoadServerKey \/ NewServerKey \/ TruncateServerKey \/ WriteServerKey
    BY <1>0, <1>3 DEF LoadServerKey, NewServerKey, TruncateServerKey, WriteServerKey
  <1>4. CASE RosterLen \/ AppendRoster \/ SkipEdge \/ PutEdge \/ CommitCorpusEdge
    BY <1>0, <1>4 DEF RosterLen, AppendRoster, SkipEdge, InCorpus, PutEdge, CommitCorpusEdge
  <1>5. CASE AnchorRoot \/ AnchorCount \/ WriteRoster \/ TruncateAnchor \/ WriteAnchor
    BY <1>0, <1>5 DEF AnchorRoot, AnchorCount, WriteRoster, TruncateAnchor, WriteAnchor
  <1> QED
    BY <1>1, <1>2, <1>3, <1>4, <1>5 DEF SeedStep

LEMMA IdentityStep == SeedingInvariant /\ [Next]_vars => Identity'
  <1> SUFFICES ASSUME SeedingInvariant, [Next]_vars
               PROVE  Identity'
    OBVIOUS
  <1>0. Types /\ Idempotent /\ Identity
    BY DEF SeedingInvariant
  <1>1. \/ file'["seed_keypair"] = file["seed_keypair"]
        \/ /\ NewKey /\ seed.pc = "key" /\ file["seed_keypair"] \in {Absent, Torn}
           /\ file'["seed_keypair"] = Torn
        \/ /\ WriteKey /\ seed.pc = "write_key" /\ file["seed_keypair"] = Torn
           /\ file'["seed_keypair"] = Content(seed.key)
    BY <1>0, FileStep DEF NewKey, WriteKey, Identity
  <1>2. /\ seed'.pc \in Keyed => file'["seed_keypair"] = Content(seed'.key)
        /\ seed'.pc = "write_key" => file'["seed_keypair"] = Torn
    <2>1. CASE SeedStep
      <3>1. CASE NewKey
        BY <1>0, <3>1, FileChanged DEF Types, NewKey, Truncate, Files, Process, Keyed
      <3>2. CASE WriteKey
        BY <1>0, <3>2, FileChanged DEF Types, WriteKey, Fill, Files, Process, Keyed
      <3>3. CASE ~NewKey /\ ~WriteKey
        <4>1. file'["seed_keypair"] = file["seed_keypair"]
          BY <1>1, <3>3
        <4>2. LoadKey => file["seed_keypair"] = Content(file["seed_keypair"][2])
          BY <1>0, FileRead DEF Types, LoadKey
        <4> QED
          BY <1>0, <2>1, <3>3, <4>1, <4>2, KeyKept DEF Identity, Keyed
      <3> QED
        BY <3>1, <3>2, <3>3
    <2>2. CASE ~SeedStep
      <3>1. seed' = seed /\ file'["seed_keypair"] = file["seed_keypair"]
        BY <1>1, <2>2, Movers DEF SeedStep
      <3> QED
        BY <1>0, <3>1 DEF Identity
    <2> QED
      BY <2>1, <2>2
  <1>3. ASSUME NEW i \in DOMAIN log, ScriptEdge(log[i])
        PROVE  file'["seed_keypair"] = Content(log[i].signer)
    <2>1. file["seed_keypair"] = Content(log[i].signer)
      BY <1>0, <1>3 DEF Identity
    <2> QED
      BY <1>1, <2>1, FileValues
  <1>4. \A i \in DOMAIN log' : ScriptEdge(log'[i]) => file'["seed_keypair"] = Content(log'[i].signer)
    <2>1. CASE log' = log
      BY <1>3, <2>1
    <2>2. CASE log' # log
      <3>1. PICK x \in Entry :
                /\ log' = Append(log, x)
                /\ \/ AppendRoster /\ x.payload = RosterRecord(seed.roster)
                   \/ /\ CommitCorpusEdge /\ seed.next \in DOMAIN Corpus
                      /\ x.signer = seed.key /\ x.payload = EdgeRecord(Current, seed.key)
                   \/ \E c \in Api : ServerCommit(c) /\ x.payload = EdgeRecord(c, server.key)
        BY <1>0, <2>2, LogStep
      <3>2. ScriptEdge(x) => CommitCorpusEdge /\ x.signer = seed.key
        BY <3>1, RecordValues, CorpusValues DEF ScriptEdge
      <3>3. CommitCorpusEdge => file'["seed_keypair"] = Content(seed.key)
        BY <1>0, <1>1, FileValues DEF CommitCorpusEdge, Identity, Keyed
      <3>4. \A i \in DOMAIN log' : (i \in DOMAIN log /\ log'[i] = log[i]) \/ log'[i] = x
        BY <1>0, <3>1, Appended DEF Types
      <3> QED
        BY <1>3, <3>2, <3>3, <3>4
    <2> QED
      BY <2>1, <2>2
  <1> QED
    BY <1>2, <1>4 DEF Identity, ScriptEdge

-----------------------------------------------------------------------------
(***************************************************************************)
(* No repetition.                                                          *)
(***************************************************************************)

\* The statements of the script after which an edge or the roster is about to be
\* committed, and the position in the corpus.
LEMMA PositionKept ==
    ASSUME Types, SeedStep
    PROVE  /\ seed'.pc = "append_roster" => log = <<>> /\ log' = <<>>
           /\ seed'.pc = "commit" =>
                  /\ PutEdge /\ seed.pc = "corpus" /\ seed.next <= Len(Corpus) /\ ~Known
                  /\ seed'.next = seed.next /\ seed'.key = seed.key
                  /\ UNCHANGED log
           /\ seed'.pc \in SeedPc \ Anchoring =>
                  \/ seed'.next = 1
                  \/ seed.pc \in SeedPc \ Anchoring /\ seed'.next \in {seed.next, seed.next + 1}
  <1>0. seed \in Process(SeedPc)
    BY DEF Types
  <1> USE DEF Process, SeedPc, Keyed, Anchoring
  <1>1. CASE StartSeed \/ Exit \/ AbortSeed
    BY <1>0, <1>1 DEF StartSeed, Exit, AbortSeed, Off
  <1>2. CASE NewKey \/ LoadKey \/ WriteKey
    BY <1>0, <1>2 DEF NewKey, LoadKey, WriteKey
  <1>3. CASE LoadServerKey \/ NewServerKey \/ TruncateServerKey \/ WriteServerKey
    BY <1>0, <1>3 DEF LoadServerKey, NewServerKey, TruncateServerKey, WriteServerKey
  <1>4. CASE RosterLen
    BY <1>0, <1>4 DEF RosterLen
  <1>5. CASE AppendRoster \/ SkipEdge \/ CommitCorpusEdge
    BY <1>0, <1>5 DEF AppendRoster, SkipEdge, InCorpus, CommitCorpusEdge
  <1>6. CASE PutEdge
    BY <1>0, <1>6 DEF PutEdge, InCorpus
  <1>7. CASE AnchorRoot \/ AnchorCount \/ WriteRoster \/ TruncateAnchor \/ WriteAnchor
    BY <1>0, <1>7 DEF AnchorRoot, AnchorCount, WriteRoster, TruncateAnchor, WriteAnchor
  <1> QED
    BY <1>1, <1>2, <1>3, <1>4, <1>5, <1>6, <1>7 DEF SeedStep

LEMMA IdempotentStep == SeedingInvariant /\ [Next]_vars => Idempotent'
  <1> SUFFICES ASSUME SeedingInvariant, [Next]_vars
               PROVE  Idempotent'
    OBVIOUS
  <1>0. Types /\ Idempotent /\ seed \in Process(SeedPc) /\ log \in Seq(Entry)
    BY DEF SeedingInvariant, Types
  <1>m. /\ seed' = seed \/ (SeedStep /\ server' = server)
        /\ objects \subseteq objects'
    BY Movers
  \* what the new entry, if there is one, may be
  <1>n. \/ log' = log
        \/ \E x \in Entry :
               /\ log' = Append(log, x)
               /\ \/ seed.pc = "append_roster" /\ ~ScriptEdge(x)
                  \/ /\ seed.pc = "commit" /\ x.payload = EdgeRecord(Current, seed.key)
                     /\ x.payload[1] # "roster"
                  \/ seed' = seed /\ ~ScriptEdge(x) /\ x.payload[1] # "roster"
    <2>1. CASE log' = log
      BY <2>1
    <2>2. CASE log' # log
      <3>1. PICK x \in Entry :
                /\ log' = Append(log, x)
                /\ \/ AppendRoster /\ x.payload = RosterRecord(seed.roster)
                   \/ /\ CommitCorpusEdge /\ seed.next \in DOMAIN Corpus
                      /\ x.signer = seed.key /\ x.payload = EdgeRecord(Current, seed.key)
                   \/ \E c \in Api : ServerCommit(c) /\ x.payload = EdgeRecord(c, server.key)
        BY <1>0, <2>2, LogStep
      <3>2. CASE AppendRoster /\ x.payload = RosterRecord(seed.roster)
        <4>1. seed.pc = "append_roster" /\ ~ScriptEdge(x)
          BY <3>2, RecordValues DEF AppendRoster, ScriptEdge
        <4> QED
          BY <3>1, <4>1
      <3>3. CASE CommitCorpusEdge /\ x.payload = EdgeRecord(Current, seed.key)
        <4>1. seed.pc = "commit" /\ x.payload[1] # "roster"
          BY <3>3, RecordValues DEF CommitCorpusEdge
        <4> QED
          BY <3>1, <3>3, <4>1
      <3>4. CASE \E c \in Api : ServerCommit(c) /\ x.payload = EdgeRecord(c, server.key)
        <4>1. PICK c \in Api : ServerCommit(c) /\ x.payload = EdgeRecord(c, server.key)
          BY <3>4
        <4>2. seed' = seed
          BY <4>1 DEF ServerCommit
        <4>3. x.payload[1] # "roster" /\ x.payload[2][1] = c
          BY <4>1, RecordValues
        <4>4. ~ScriptEdge(x)
          BY <4>3, CorpusValues DEF ScriptEdge
        <4> QED
          BY <3>1, <4>2, <4>3, <4>4
      <3> QED
        BY <3>1, <3>2, <3>3, <3>4
    <2> QED
      BY <2>1, <2>2
  <1>c. seed.pc = "commit" =>
            /\ EdgeRecord(Current, seed.key) \in objects
            /\ \A i \in DOMAIN log : log[i].payload # EdgeRecord(Current, seed.key)
    BY <1>0 DEF Idempotent
  <1>1. /\ \A i, j \in DOMAIN log' :
               log'[i].payload[1] = "roster" /\ log'[j].payload[1] = "roster" => i = j
        /\ \A i \in DOMAIN log' : ScriptEdge(log'[i]) => log'[i].payload \in objects'
        /\ \A i, j \in DOMAIN log' :
               ScriptEdge(log'[i]) /\ log'[i].payload = log'[j].payload => i = j
    <2>1. CASE log' = log
      BY <1>0, <1>m, <2>1 DEF Idempotent
    <2>2. CASE log' # log
      <3>1. PICK x \in Entry :
                /\ log' = Append(log, x)
                /\ \/ seed.pc = "append_roster" /\ ~ScriptEdge(x)
                   \/ /\ seed.pc = "commit" /\ x.payload = EdgeRecord(Current, seed.key)
                      /\ x.payload[1] # "roster"
                   \/ seed' = seed /\ ~ScriptEdge(x) /\ x.payload[1] # "roster"
        BY <1>n, <2>2
      <3>2. \A i \in DOMAIN log' : (i \in DOMAIN log /\ log'[i] = log[i])
                                      \/ (i = Len(log) + 1 /\ log'[i] = x)
        BY <1>0, <3>1, Appended
      <3>3. \A i \in DOMAIN log : ScriptEdge(log[i]) => log[i].payload \in objects
        BY <1>0 DEF Idempotent
      <3>4. \A i, j \in DOMAIN log :
                ScriptEdge(log[i]) /\ log[i].payload = log[j].payload => i = j
        BY <1>0 DEF Idempotent
      <3>5. /\ \A i, j \in DOMAIN log :
                   log[i].payload[1] = "roster" /\ log[j].payload[1] = "roster" => i = j
            /\ x.payload[1] = "roster" => \A i \in DOMAIN log : log[i].payload[1] # "roster"
        BY <1>0, <3>1 DEF Idempotent
      <3>6. \A i, j \in DOMAIN log' :
                log'[i].payload[1] = "roster" /\ log'[j].payload[1] = "roster" => i = j
        BY <3>2, <3>5
      <3>7. ScriptEdge(x) => seed.pc = "commit" /\ x.payload = EdgeRecord(Current, seed.key)
        BY <3>1
      <3>8. \A i \in DOMAIN log' : ScriptEdge(log'[i]) => log'[i].payload \in objects'
        BY <1>c, <1>m, <3>2, <3>3, <3>7
      <3>9. \A i \in DOMAIN log : log[i].payload = x.payload => ~ScriptEdge(x)
        BY <1>c, <3>7
      <3>10. \A i \in DOMAIN log : log[i].payload = x.payload => ~ScriptEdge(log[i])
        BY <3>9 DEF ScriptEdge
      <3>11. \A i, j \in DOMAIN log' :
                 ScriptEdge(log'[i]) /\ log'[i].payload = log'[j].payload => i = j
        BY <3>2, <3>4, <3>9, <3>10
      <3> QED
        BY <3>6, <3>8, <3>11
    <2> QED
      BY <2>1, <2>2
  <1>2. seed'.pc = "append_roster" => \A i \in DOMAIN log' : log'[i].payload[1] # "roster"
    <2>1. CASE SeedStep
      BY <1>0, <2>1, PositionKept
    <2>2. CASE ~SeedStep
      <3>1. seed' = seed
        BY <1>m, <2>2
      <3>2. CASE log' = log
        BY <1>0, <3>1, <3>2 DEF Idempotent
      <3>3. CASE log' # log /\ seed'.pc = "append_roster"
        <4>1. PICK x \in Entry : log' = Append(log, x) /\ x.payload[1] # "roster"
          <5>1. ~AppendRoster /\ ~CommitCorpusEdge
            BY <2>2 DEF SeedStep
          <5>2. PICK x \in Entry :
                    log' = Append(log, x) /\ \E c \in Api : x.payload = EdgeRecord(c, server.key)
            BY <1>0, <3>3, <5>1, LogStep
          <5> QED
            BY <5>2, RecordValues
        <4>2. \A i \in DOMAIN log' : (i \in DOMAIN log /\ log'[i] = log[i]) \/ log'[i] = x
          BY <1>0, <4>1, Appended
        <4>3. \A i \in DOMAIN log : log[i].payload[1] # "roster"
          BY <1>0, <3>1, <3>3 DEF Idempotent
        <4> QED
          BY <4>1, <4>2, <4>3
      <3> QED
        BY <3>2, <3>3
    <2> QED
      BY <2>1, <2>2
  <1>3. seed'.pc \in SeedPc \ Anchoring => seed'.next >= 1
    BY <1>0, <1>m, PositionKept DEF Idempotent, Process
  <1>4. seed'.pc = "commit" =>
            /\ seed'.next <= Len(Corpus)
            /\ EdgeRecord(Corpus[seed'.next], seed'.key) \in objects'
            /\ \A i \in DOMAIN log' : log'[i].payload # EdgeRecord(Corpus[seed'.next], seed'.key)
    <2> SUFFICES ASSUME seed'.pc = "commit"
                 PROVE  /\ seed'.next <= Len(Corpus)
                        /\ EdgeRecord(Corpus[seed'.next], seed'.key) \in objects'
                        /\ \A i \in DOMAIN log' :
                               log'[i].payload # EdgeRecord(Corpus[seed'.next], seed'.key)
      OBVIOUS
    <2>1. CASE SeedStep
      <3>1. /\ PutEdge /\ seed.pc = "corpus" /\ seed.next <= Len(Corpus) /\ ~Known
            /\ seed'.next = seed.next /\ seed'.key = seed.key /\ log' = log
        BY <1>0, <2>1, PositionKept
      <3>2. seed.next \in DOMAIN Corpus
        BY <1>0, <3>1, CorpusValues DEF Idempotent, Process, SeedPc, Keyed, Anchoring
      <3>3. EdgeRecord(Current, seed.key) \in objects' /\ EdgeRecord(Current, seed.key) \notin objects
        BY <3>1 DEF PutEdge, Known
      <3>4. Current \in Names
        BY <3>2, CorpusValues DEF Current
      <3>5. \A i \in DOMAIN log : log[i].payload # EdgeRecord(Current, seed.key)
        <4> SUFFICES ASSUME NEW i \in DOMAIN log, log[i].payload = EdgeRecord(Current, seed.key)
                     PROVE  FALSE
          OBVIOUS
        <4>1. ScriptEdge(log[i])
          BY <3>4, RecordValues DEF ScriptEdge
        <4> QED
          BY <1>0, <3>3, <4>1 DEF Idempotent
      <3> QED
        BY <3>1, <3>3, <3>5 DEF Current
    <2>2. CASE ~SeedStep
      <3>1. seed' = seed /\ seed.pc = "commit" /\ seed.next <= Len(Corpus)
        BY <1>0, <1>m, <2>2 DEF Idempotent
      <3>2. /\ EdgeRecord(Current, seed.key) \in objects
            /\ \A i \in DOMAIN log : log[i].payload # EdgeRecord(Current, seed.key)
        BY <1>c, <3>1
      <3>3. Current \in Names
        BY <1>0, <3>1, CorpusValues DEF Current, Idempotent, Process, SeedPc, Keyed, Anchoring
      <3>4. \A i \in DOMAIN log' : log'[i].payload # EdgeRecord(Current, seed.key)
        <4>1. CASE log' = log
          BY <3>2, <4>1
        <4>2. CASE log' # log
          <5>1. ~AppendRoster /\ ~CommitCorpusEdge
            BY <2>2 DEF SeedStep
          <5>2. PICK x \in Entry :
                    log' = Append(log, x) /\ \E c \in Api : x.payload = EdgeRecord(c, server.key)
            BY <1>0, <4>2, <5>1, LogStep
          <5>3. x.payload # EdgeRecord(Current, seed.key)
            BY <3>3, <5>2, RecordValues, CorpusValues
          <5>4. \A i \in DOMAIN log' : (i \in DOMAIN log /\ log'[i] = log[i]) \/ log'[i] = x
            BY <1>0, <5>2, Appended
          <5> QED
            BY <3>2, <5>3, <5>4
        <4> QED
          BY <4>1, <4>2
      <3> QED
        BY <1>m, <3>1, <3>2, <3>4 DEF Current
    <2> QED
      BY <2>1, <2>2
  <1> QED
    BY <1>1, <1>2, <1>3, <1>4 DEF Idempotent, ScriptEdge, EdgeRecord, Current

-----------------------------------------------------------------------------
(***************************************************************************)
(* Completeness.                                                           *)
(***************************************************************************)

\* Where the loop stands after a step of the script.
LEMMA LoopStep ==
    ASSUME Types, SeedStep
    PROVE  \/ seed'.pc \in Early /\ (seed'.next = 1 \/ (seed.pc \in Early /\ seed'.next = seed.next))
           \/ seed.pc \in Early /\ seed'.pc = "corpus" /\ seed'.next = seed.next
           \/ /\ seed.pc = "corpus" /\ seed'.pc = "corpus" /\ seed.next <= Len(Corpus)
              /\ Current \in Slow \/ Known
              /\ seed'.next = seed.next + 1 /\ seed'.key = seed.key
           \/ /\ seed.pc = "corpus" /\ seed'.pc = "commit"
              /\ seed'.next = seed.next /\ seed'.key = seed.key
           \/ /\ seed.pc = "commit" /\ seed'.pc = "corpus"
              /\ seed'.next = seed.next + 1 /\ seed'.key = seed.key
           \/ /\ seed.pc = "corpus" /\ seed'.pc \in Anchoring /\ seed.next > Len(Corpus)
              /\ seed'.key = seed.key
           \/ seed.pc \in Anchoring /\ seed'.pc \in Anchoring /\ seed'.key = seed.key
  <1>0. seed \in Process(SeedPc)
    BY DEF Types
  <1> USE DEF Process, SeedPc, Keyed, Anchoring, Early
  <1>1. CASE StartSeed \/ Exit \/ AbortSeed
    BY <1>0, <1>1 DEF StartSeed, Exit, AbortSeed, Off
  <1>2. CASE NewKey \/ LoadKey \/ WriteKey
    BY <1>0, <1>2 DEF NewKey, LoadKey, WriteKey
  <1>3. CASE LoadServerKey \/ NewServerKey \/ TruncateServerKey \/ WriteServerKey
    BY <1>0, <1>3 DEF LoadServerKey, NewServerKey, TruncateServerKey, WriteServerKey
  <1>4. CASE RosterLen \/ AppendRoster
    BY <1>0, <1>4 DEF RosterLen, AppendRoster
  <1>5. CASE SkipEdge \/ PutEdge \/ CommitCorpusEdge
    BY <1>0, <1>5 DEF SkipEdge, InCorpus, PutEdge, CommitCorpusEdge
  <1>6. CASE AnchorRoot \/ AnchorCount \/ WriteRoster \/ TruncateAnchor \/ WriteAnchor
    BY <1>0, <1>6 DEF AnchorRoot, AnchorCount, WriteRoster, TruncateAnchor, WriteAnchor
  <1> QED
    BY <1>1, <1>2, <1>3, <1>4, <1>5, <1>6 DEF SeedStep

\* The log only grows at its end.
LEMMA LogGrows ==
    ASSUME Types, Idempotent, [Next]_vars
    PROVE  /\ log \in Seq(Entry) /\ log' \in Seq(Entry) /\ Len(log) <= Len(log')
           /\ \A i \in 1 .. Len(log) : log'[i] = log[i]
  <1>1. log \in Seq(Entry)
    BY DEF Types
  <1>2. CASE log' = log
    BY <1>1, <1>2
  <1>3. CASE log' # log
    <2>1. PICK x \in Entry : log' = Append(log, x)
      BY <1>3, LogStep
    <2> QED
      BY <1>1, <2>1, Appended
  <1> QED
    BY <1>2, <1>3

LEMMA ProgressStep == SeedingInvariant /\ [Next]_vars => Progress'
  <1> SUFFICES ASSUME SeedingInvariant, [Next]_vars
               PROVE  Progress'
    OBVIOUS
  <1>0. Types /\ Idempotent /\ Progress /\ seed \in Process(SeedPc) /\ seed.next \in Nat
    BY DEF SeedingInvariant, Types, Process
  <1>m. /\ seed' = seed \/ SeedStep
        /\ objects \subseteq objects'
        /\ objects' = objects \/ (PutEdge /\ objects' = objects \cup {EdgeRecord(Current, seed.key)})
    BY Movers
  <1>c. seed.pc = "commit" => EdgeRecord(Current, seed.key) \in objects
    BY <1>0 DEF Idempotent
  <1>l. DOMAIN Corpus = 1 .. Len(Corpus) /\ Len(Corpus) \in Nat
    BY CorpusValues
  <1> DEFINE Passed(n) == \A i \in DOMAIN Corpus : i < n => Stored(i)
             Passed1(n) == \A i \in DOMAIN Corpus : i < n =>
                               Corpus[i] \in Slow \/ EdgeRecord(Corpus[i], seed'.key) \in objects'
  <1>p. ASSUME seed'.key = seed.key, NEW n \in Nat, Passed(n)
        PROVE  /\ Passed1(n)
               /\ n \in DOMAIN Corpus /\ (Corpus[n] \in Slow \/ EdgeRecord(Corpus[n], seed.key) \in objects)
                     => Passed1(n + 1)
    <2>1. Passed1(n)
      BY <1>m, <1>p DEF Stored
    <2>2. \A i \in DOMAIN Corpus : i < n + 1 => i < n \/ i = n
      BY <1>l
    <2>3. \A v : v \in objects => v \in objects'
      BY <1>m
    <2> QED
      BY <1>p, <2>1, <2>2, <2>3
  <1>1. /\ seed'.pc \in Early => seed'.next = 1
        /\ seed'.pc \in {"corpus", "commit"} => Passed1(seed'.next)
        /\ seed'.pc \in Anchoring => Passed1(Len(Corpus) + 1)
    <2>a. /\ seed.pc \in Early => seed.next = 1
          /\ seed.pc \in {"corpus", "commit"} => Passed(seed.next)
          /\ seed.pc \in Anchoring => Passed(Len(Corpus) + 1)
      BY <1>0 DEF Progress
    <2>b. Len(Corpus) + 1 \in Nat
      BY <1>l
    <2>c. seed.pc = "corpus" /\ seed.next > Len(Corpus) => Passed(Len(Corpus) + 1)
      <3>1. \A i \in DOMAIN Corpus : seed.next > Len(Corpus) => i < seed.next
        BY <1>0, <1>l
      <3> QED
        BY <2>a, <3>1
    <2>d. Passed1(1)
      BY <1>l
    <2>e. seed.pc \in {"corpus", "commit"} /\ seed.next <= Len(Corpus) => seed.next \in DOMAIN Corpus
      BY <1>0, <1>l DEF Idempotent, SeedPc, Keyed, Anchoring
    <2> HIDE DEF Passed, Passed1
    <2>1. CASE seed' = seed
      BY <1>0, <1>p, <2>1, <2>a, <2>b
    <2>2. CASE SeedStep
      <3>1. CASE seed'.pc \in Early
        BY <1>0, <2>2, <2>a, <3>1, LoopStep DEF Early, Anchoring
      <3>2. CASE seed'.pc = "corpus" /\ seed.pc \in Early
        <4>1. seed'.next = 1
          BY <1>0, <2>2, <2>a, <3>2, LoopStep DEF Early, Anchoring
        <4> QED
          BY <2>d, <3>2, <4>1 DEF Early, Anchoring
      <3>3. CASE seed'.pc = "corpus" /\ seed.pc = "corpus"
        <4>1. /\ seed.next <= Len(Corpus) /\ (Current \in Slow \/ Known)
              /\ seed'.next = seed.next + 1 /\ seed'.key = seed.key
          BY <1>0, <2>2, <3>3, LoopStep DEF Early, Anchoring
        <4>2. /\ seed.next \in DOMAIN Corpus /\ Passed(seed.next)
              /\ Corpus[seed.next] \in Slow \/ EdgeRecord(Corpus[seed.next], seed.key) \in objects
          BY <2>a, <2>e, <3>3, <4>1 DEF Current, Known
        <4>3. Passed1(seed.next + 1)
          BY <1>0, <1>p, <4>1, <4>2
        <4> QED
          BY <3>3, <4>1, <4>3 DEF Early, Anchoring
      <3>4. CASE seed'.pc = "corpus" /\ seed.pc = "commit"
        <4>1. seed'.next = seed.next + 1 /\ seed'.key = seed.key /\ seed.next <= Len(Corpus)
          BY <1>0, <2>2, <3>4, LoopStep DEF Early, Anchoring, Idempotent
        <4> QED
          BY <1>0, <1>c, <1>p, <2>a, <2>e, <3>4, <4>1 DEF Current, Early, Anchoring
      <3>5. CASE seed'.pc = "commit"
        <4>1. seed.pc = "corpus" /\ seed'.next = seed.next /\ seed'.key = seed.key
          BY <1>0, <2>2, <3>5, LoopStep DEF Early, Anchoring
        <4> QED
          BY <1>0, <1>p, <2>a, <3>5, <4>1 DEF Early, Anchoring
      <3>6. CASE seed'.pc \in Anchoring
        <4>1. seed'.key = seed.key /\ Passed(Len(Corpus) + 1)
          BY <1>0, <2>2, <2>a, <2>c, <3>6, LoopStep DEF Early, Anchoring
        <4> QED
          BY <1>p, <2>b, <3>6, <4>1 DEF Early, Anchoring
      <3> QED
        BY <1>0, <2>2, <3>1, <3>2, <3>3, <3>4, <3>5, <3>6, LoopStep DEF Early, Anchoring
    <2> QED
      BY <1>m, <2>1, <2>2
  <1>2. seed'.pc \in Anchoring => \A i \in DOMAIN Corpus : Stored(i)'
    BY <1>1, <1>l DEF Stored
  <1>3. seed'.pc \in {"corpus", "commit"} =>
            \A i \in DOMAIN Corpus : i < seed'.next => Stored(i)'
    BY <1>1 DEF Stored
  <1> HIDE DEF Passed, Passed1
  <1> QED
    BY <1>1, <1>2, <1>3 DEF Progress

\* The script's one way to a commit, and its two ways out of one.
LEMMA CommittingStep ==
    ASSUME Types, [Next]_vars, NEW x
    PROVE  /\ Committing(x)' => \/ Committing(x)
                                \/ PutEdge /\ x \notin objects
           /\ Committing(x) => Committing(x)' \/ CommitCorpusEdge \/ AbortSeed
           /\ PutEdge /\ x = EdgeRecord(Current, seed.key) => Committing(x)'
  <1>0. seed \in Process(SeedPc)
    BY DEF Types
  <1>m. seed' = seed \/ SeedStep
    BY Movers
  <1>1. ASSUME Committing(x)', SeedStep
        PROVE  PutEdge /\ x \notin objects
    <2>1. PutEdge /\ ~Known /\ seed'.next = seed.next /\ seed'.key = seed.key
      BY <1>1, PositionKept DEF Committing
    <2> QED
      BY <1>1, <2>1 DEF Committing, Known, Current
  <1>2. ASSUME Committing(x), SeedStep
        PROVE  CommitCorpusEdge \/ AbortSeed
    BY <1>2 DEF Committing, SeedStep, StartSeed, LoadKey, NewKey, WriteKey, LoadServerKey,
       NewServerKey, TruncateServerKey, WriteServerKey, RosterLen, AppendRoster, SkipEdge,
       InCorpus, PutEdge, AnchorRoot, AnchorCount, WriteRoster, TruncateAnchor, WriteAnchor, Exit
  <1>3. ASSUME PutEdge, x = EdgeRecord(Current, seed.key)
        PROVE  Committing(x)'
    <2>1. seed'.pc = "commit" /\ seed'.next = seed.next /\ seed'.key = seed.key
      BY <1>0, <1>3 DEF PutEdge, Process
    <2> QED
      BY <1>3, <2>1 DEF Committing, Current
  <1>4. seed' = seed => (Committing(x)' <=> Committing(x))
    BY DEF Committing, Current
  <1> QED
    BY <1>m, <1>1, <1>2, <1>3, <1>4

\* An edge of the corpus comes into the log by the commit of the script, and stays.
LEMMA LoggedStep ==
    ASSUME Types, Idempotent, [Next]_vars, NEW x \in ScriptRecords
    PROVE  /\ IsLogged(x) => IsLogged(x)'
           /\ IsLogged(x)' => IsLogged(x) \/ Committing(x)
  <1>1. CASE log' = log
    BY <1>1 DEF IsLogged
  <1>2. CASE log' # log
    <2>1. PICK e \in Entry :
              /\ log' = Append(log, e)
              /\ \/ AppendRoster /\ e.payload = RosterRecord(seed.roster)
                 \/ /\ CommitCorpusEdge /\ seed.next \in DOMAIN Corpus
                    /\ e.signer = seed.key /\ e.payload = EdgeRecord(Current, seed.key)
                 \/ \E c \in Api : ServerCommit(c) /\ e.payload = EdgeRecord(c, server.key)
      BY <1>2, LogStep
    <2>2. e.payload = x => CommitCorpusEdge /\ e.payload = EdgeRecord(Current, seed.key)
      BY <2>1, RecordValues, CorpusValues DEF ScriptRecords
    <2>3. e.payload = x => Committing(x)
      BY <2>2 DEF CommitCorpusEdge, Committing
    <2>4. /\ \A i \in DOMAIN log' : (i \in DOMAIN log /\ log'[i] = log[i]) \/ log'[i] = e
          /\ \A i \in DOMAIN log : i \in DOMAIN log' /\ log'[i] = log[i]
      BY <2>1, Appended DEF Types
    <2> QED
      BY <2>3, <2>4 DEF IsLogged
  <1> QED
    BY <1>1, <1>2

LEMMA CutOffStep == SeedingInvariant /\ [Next]_vars => CutOff'
  <1> SUFFICES ASSUME SeedingInvariant, [Next]_vars
               PROVE  CutOff'
    OBVIOUS
  <1>0. Types /\ Idempotent /\ CutOff /\ seed.next \in Nat /\ seed.key \in Nat
    BY DEF SeedingInvariant, Types, Process
  <1>m. objects' = objects \/ (PutEdge /\ objects' = objects \cup {EdgeRecord(Current, seed.key)})
    BY Movers
  <1>h. \/ cut' = cut
        \/ AbortSeed /\ seed.pc = "commit" /\ cut' = cut \cup {EdgeRecord(Current, seed.key)}
    BY HistoryStep
  \* what is being committed is stored and not yet logged
  <1>c. ASSUME NEW x, Committing(x)
        PROVE  x \in ScriptRecords /\ x \in objects /\ ~IsLogged(x)
    <2>1. seed.next \in DOMAIN Corpus
      BY <1>0, <1>c, CorpusValues DEF Committing, Idempotent, SeedPc, Keyed, Anchoring
    <2>2. Current \in Names
      BY <2>1, CorpusValues DEF Current
    <2>3. x \in ScriptRecords
      BY <1>0, <1>c, <2>2 DEF Committing, ScriptRecords
    <2>4. x \in objects /\ ~IsLogged(x)
      BY <1>0, <1>c DEF Committing, Idempotent, IsLogged
    <2> QED
      BY <2>3, <2>4
  <1>1. ASSUME NEW x \in cut'
        PROVE  x \in ScriptRecords /\ x \in objects' /\ ~IsLogged(x)' /\ ~Committing(x)'
    <2>1. CASE x \in cut
      <3>1. x \in ScriptRecords /\ x \in objects /\ ~IsLogged(x) /\ ~Committing(x)
        BY <1>0, <2>1 DEF CutOff
      <3>2. ~IsLogged(x)'
        BY <1>0, <3>1, LoggedStep
      <3>3. ~Committing(x)'
        BY <1>0, <3>1, CommittingStep
      <3> QED
        BY <1>m, <3>1, <3>2, <3>3
    <2>2. CASE x \notin cut
      <3>1. AbortSeed /\ Committing(x)
        BY <1>1, <1>h, <2>2 DEF Committing
      <3>2. x \in ScriptRecords /\ x \in objects /\ ~IsLogged(x)
        BY <1>c, <3>1
      <3>3. ~IsLogged(x)'
        BY <3>1, <3>2 DEF AbortSeed, IsLogged
      <3>4. ~Committing(x)'
        BY <3>1 DEF AbortSeed, Off, Committing
      <3> QED
        BY <1>m, <3>2, <3>3, <3>4
    <2> QED
      BY <2>1, <2>2
  <1>2. ASSUME NEW x \in objects'
        PROVE  IsLogged(x)' \/ Committing(x)' \/ x \in cut'
    <2>1. CASE IsLogged(x)
      <3>1. \A i \in DOMAIN log : i \in DOMAIN log' /\ log'[i] = log[i]
        BY <1>0, LogGrows
      <3> QED
        BY <2>1, <3>1 DEF IsLogged
    <2>2. CASE x \in cut
      BY <1>h, <2>2
    <2>3. CASE Committing(x)
      <3>1. CASE CommitCorpusEdge
        <4> DEFINE e == [signer |-> seed.key, payload |-> EdgeRecord(Current, seed.key)]
        <4>1. log' = Append(log, e) /\ log \in Seq(Entry)
          BY <1>0, <3>1 DEF CommitCorpusEdge, Types
        <4>2. Len(log) + 1 \in DOMAIN log' /\ log'[Len(log) + 1] = e
          BY <4>1
        <4>3. e.payload = x
          BY <2>3 DEF Committing
        <4> QED
          BY <4>2, <4>3 DEF IsLogged
      <3>2. CASE AbortSeed
        <4>1. cut' = cut \cup {EdgeRecord(Current, seed.key)}
          BY <2>3, <3>2 DEF AbortSeed, Committing
        <4> QED
          BY <2>3, <4>1 DEF Committing
      <3> QED
        BY <1>0, <2>3, <3>1, <3>2, CommittingStep
    <2>4. CASE x \notin objects
      <3>1. PutEdge /\ x = EdgeRecord(Current, seed.key)
        BY <1>m, <1>2, <2>4
      <3> QED
        BY <1>0, <3>1, CommittingStep
    <2> QED
      BY <1>0, <2>1, <2>2, <2>3, <2>4 DEF CutOff
  <1>3. cut' \subseteq ScriptRecords \cap objects'
    BY <1>1
  <1> QED
    BY <1>1, <1>2, <1>3 DEF CutOff, ScriptRecords, Names

-----------------------------------------------------------------------------
(***************************************************************************)
(* The anchor.                                                             *)
(***************************************************************************)

\* What a step of the script does to the anchor it is preparing.
LEMMA AnchorStep ==
    ASSUME Types, SeedStep, seed'.pc \in Anchoring
    PROVE  \/ seed'.pc = "count" /\ seed'.root = log /\ log' = log
           \/ seed.pc = "count" /\ seed'.root = seed.root /\ seed'.next = Len(log) /\ log' = log
           \/ /\ seed.pc \in Anchoring \ {"count"} /\ seed'.pc # "count"
              /\ seed'.root = seed.root /\ seed'.next = seed.next
  <1>0. seed \in Process(SeedPc)
    BY DEF Types
  <1> USE DEF Process, SeedPc, Keyed, Anchoring
  <1>1. CASE StartSeed \/ Exit \/ AbortSeed
    BY <1>0, <1>1 DEF StartSeed, Exit, AbortSeed, Off
  <1>2. CASE NewKey \/ LoadKey \/ WriteKey
    BY <1>0, <1>2 DEF NewKey, LoadKey, WriteKey
  <1>3. CASE LoadServerKey \/ NewServerKey \/ TruncateServerKey \/ WriteServerKey
    BY <1>0, <1>3 DEF LoadServerKey, NewServerKey, TruncateServerKey, WriteServerKey
  <1>4. CASE RosterLen \/ AppendRoster
    BY <1>0, <1>4 DEF RosterLen, AppendRoster
  <1>5. CASE SkipEdge \/ PutEdge \/ CommitCorpusEdge
    BY <1>0, <1>5 DEF SkipEdge, InCorpus, PutEdge, CommitCorpusEdge
  <1>6. CASE AnchorRoot \/ AnchorCount
    BY <1>0, <1>6 DEF AnchorRoot, AnchorCount
  <1>7. CASE WriteRoster \/ TruncateAnchor \/ WriteAnchor
    BY <1>0, <1>7 DEF WriteRoster, TruncateAnchor, WriteAnchor
  <1> QED
    BY <1>1, <1>2, <1>3, <1>4, <1>5, <1>6, <1>7 DEF SeedStep

LEMMA AnchoredStep == SeedingInvariant /\ [Next]_vars => Anchored'
  <1> SUFFICES ASSUME SeedingInvariant, [Next]_vars
               PROVE  Anchored'
    OBVIOUS
  <1>0. Types /\ Idempotent /\ Anchored
    BY DEF SeedingInvariant
  <1>t. /\ seed.root \in Seq(Entry) /\ seed.next \in Nat
        /\ log \in Seq(Entry) /\ log' \in Seq(Entry)
        /\ Len(log) \in Nat /\ Len(log') \in Nat /\ Len(log) <= Len(log')
    BY <1>0, LogGrows DEF Types, Process
  <1>l. ASSUME NEW root \in Seq(Entry), BeginsWith(root)
        PROVE  Len(root) <= Len(log') /\ \A i \in 1 .. Len(root) : log'[i] = root[i]
    <2>1. \A i \in 1 .. Len(log) : log'[i] = log[i]
      BY <1>0, LogGrows
    <2>2. Len(root) \in Nat /\ Len(root) <= Len(log) /\ \A i \in 1 .. Len(root) : log[i] = root[i]
      BY <1>l DEF BeginsWith
    <2>3. \A i \in 1 .. Len(root) : i \in 1 .. Len(log)
      BY <1>t, <2>2
    <2>4. \A i \in 1 .. Len(root) : log'[i] = root[i]
      BY <2>1, <2>2, <2>3
    <2> QED
      BY <1>t, <2>2, <2>4
  <1>1. seed'.pc \in Anchoring =>
            /\ Len(seed'.root) <= Len(log') /\ \A i \in 1 .. Len(seed'.root) : log'[i] = seed'.root[i]
            /\ seed'.pc # "count" => Len(seed'.root) <= seed'.next /\ seed'.next <= Len(log')
    <2>1. CASE seed' = seed
      <3>1. seed.pc \in Anchoring =>
                /\ BeginsWith(seed.root)
                /\ seed.pc # "count" => Len(seed.root) <= seed.next /\ seed.next <= Len(log)
        BY <1>0 DEF Anchored
      <3>2. seed.pc \in Anchoring =>
                Len(seed.root) <= Len(log') /\ \A i \in 1 .. Len(seed.root) : log'[i] = seed.root[i]
        BY <1>t, <1>l, <3>1
      <3> QED
        BY <1>t, <2>1, <3>1, <3>2
    <2>2. CASE SeedStep /\ seed'.pc \in Anchoring
      <3>1. CASE seed'.pc = "count" /\ seed'.root = log /\ log' = log
        BY <1>t, <3>1
      <3>2. CASE seed.pc = "count" /\ seed'.root = seed.root /\ seed'.next = Len(log) /\ log' = log
        BY <1>0, <1>t, <1>l, <3>2 DEF Anchored, Anchoring, BeginsWith
      <3>3. CASE /\ seed.pc \in Anchoring \ {"count"} /\ seed'.pc # "count"
                 /\ seed'.root = seed.root /\ seed'.next = seed.next
        BY <1>0, <1>t, <1>l, <3>3 DEF Anchored
      <3> QED
        BY <1>0, <2>2, <3>1, <3>2, <3>3, AnchorStep
    <2> QED
      BY <2>1, <2>2, Movers
  <1>2. ASSUME NEW a \in Anchors, file'["anchor"] = Content(a)
        PROVE  /\ Len(a.root_hash) <= Len(log') /\ \A i \in 1 .. Len(a.root_hash) : log'[i] = a.root_hash[i]
               /\ Len(a.root_hash) <= a.entry_count /\ a.entry_count <= Len(log')
    <2>0. a.root_hash \in Seq(Entry) /\ a.entry_count \in Nat
      BY DEF Anchors
    <2>1. CASE file'["anchor"] = file["anchor"]
      <3>1. BeginsWith(a.root_hash) /\ Len(a.root_hash) <= a.entry_count /\ a.entry_count <= Len(log)
        BY <1>0, <1>2, <2>1 DEF Anchored
      <3> QED
        BY <1>t, <1>l, <2>0, <3>1
    <2>2. CASE file'["anchor"] = Torn
      BY <1>2, <2>2, FileValues
    <2>3. CASE /\ WriteAnchor
               /\ file'["anchor"] = Content([root_hash |-> seed.root, entry_count |-> seed.next,
                                             roster_hash |-> seed.roster])
      <3>1. a.root_hash = seed.root /\ a.entry_count = seed.next
        <4>1. a = [root_hash |-> seed.root, entry_count |-> seed.next, roster_hash |-> seed.roster]
          BY <1>2, <2>3, FileValues
        <4> QED
          BY <4>1
      <3>2. BeginsWith(seed.root) /\ Len(seed.root) <= seed.next /\ seed.next <= Len(log)
        BY <1>0, <2>3 DEF WriteAnchor, Anchored, Anchoring
      <3> QED
        BY <1>t, <1>l, <3>1, <3>2
    <2> QED
      BY <1>0, <2>1, <2>2, <2>3, FileStep
  <1> QED
    BY <1>1, <1>2 DEF Anchored, BeginsWith

-----------------------------------------------------------------------------
(***************************************************************************)
(* The keys that the rosters bind.                                         *)
(***************************************************************************)

\* Where the script's copy of the server's key and its roster come from.
LEMMA ScriptSources ==
    ASSUME Types, SeedStep
    PROVE  /\ seed'.pc \in SeedMaking => seed.pc \in SeedMaking \/ NewServerKey
           /\ seed'.pc \in SeedSettled =>
                  \/ seed.pc \in SeedSettled /\ seed'.serverKey = seed.serverKey
                  \/ LoadServerKey /\ seed'.serverKey = file["server_keypair"][2]
                  \/ WriteServerKey /\ seed'.serverKey = seed.serverKey
           /\ \/ seed'.roster \in {seed.roster, EmptyRoster}
              \/ /\ seed.pc = "len" /\ seed'.roster = GenesisRoster
                 /\ seed'.pc \in SeedSettled /\ seed'.serverKey = seed.serverKey
  <1>0. seed \in Process(SeedPc)
    BY DEF Types
  <1> USE DEF Process, SeedSettled, SeedMaking, TwiceKeyed, Keyed
  <1>1. CASE StartSeed \/ Exit \/ AbortSeed
    BY <1>0, <1>1 DEF StartSeed, Exit, AbortSeed, Off
  <1>2. CASE NewKey \/ LoadKey \/ WriteKey
    BY <1>0, <1>2 DEF NewKey, LoadKey, WriteKey
  <1>3. CASE LoadServerKey \/ NewServerKey
    BY <1>0, <1>3 DEF LoadServerKey, NewServerKey
  <1>4. CASE TruncateServerKey \/ WriteServerKey
    BY <1>0, <1>4 DEF TruncateServerKey, WriteServerKey
  <1>5. CASE RosterLen
    BY <1>0, <1>5 DEF RosterLen
  <1>6. CASE AppendRoster \/ SkipEdge \/ PutEdge \/ CommitCorpusEdge
    BY <1>0, <1>6 DEF AppendRoster, SkipEdge, InCorpus, PutEdge, CommitCorpusEdge
  <1>7. CASE AnchorRoot \/ AnchorCount \/ WriteRoster \/ TruncateAnchor \/ WriteAnchor
    BY <1>0, <1>7 DEF AnchorRoot, AnchorCount, WriteRoster, TruncateAnchor, WriteAnchor
  <1> QED
    BY <1>1, <1>2, <1>3, <1>4, <1>5, <1>6, <1>7 DEF SeedStep

\* The same for the server.
LEMMA ServerSources ==
    ASSUME Types, ServerStep
    PROVE  /\ server'.pc \in ServerMaking => server.pc \in ServerMaking \/ ServerNewKey
           /\ server'.pc \in ServerSettled =>
                  \/ server.pc \in ServerSettled /\ server'.key = server.key
                  \/ ServerLoadKey /\ server'.key = file["server_keypair"][2]
                  \/ ServerWriteKey /\ server'.key = server.key
           /\ \/ server'.roster \in {server.roster, EmptyRoster}
              \/ /\ server.pc = "roster"
                 /\ \E loaded \in Rosters :
                        /\ loaded = EmptyRoster \/ file["roster"] = Content(loaded)
                        /\ \/ server'.roster = loaded
                           \/ server'.roster = Bind(loaded, "arxdb-server", server.key)
           /\ server'.pc \in RosterKnown =>
                  \/ server.pc \in RosterKnown /\ server'.roster = server.roster
                  \/ ServerLoadRoster
  <1>0. server \in Process(ServerPc)
    BY DEF Types
  <1> USE DEF Process, ServerPc, RosterKnown, ServerMaking, ServerSettled
  <1>1. CASE ServerStop
    BY <1>0, <1>1 DEF ServerStop, Off
  <1>2. CASE ServerLoadKey \/ ServerNewKey
    BY <1>0, <1>2 DEF ServerLoadKey, ServerNewKey
  <1>3. CASE ServerTruncateKey \/ ServerWriteKey
    BY <1>0, <1>3 DEF ServerTruncateKey, ServerWriteKey
  <1>4. CASE ServerLoadRoster
    <2> DEFINE loaded == IF file["roster"] = Absent THEN EmptyRoster ELSE file["roster"][2]
    <2>1. loaded \in Rosters /\ (loaded = EmptyRoster \/ file["roster"] = Content(loaded))
      BY <1>4, FileRead, RosterValues DEF Types, ServerLoadRoster
    <2>2. /\ server.pc = "roster"
          /\ \/ server' = [server EXCEPT !.pc = "serving", !.roster = loaded]
             \/ server' = [server EXCEPT !.pc = "truncate_roster",
                                         !.roster = Bind(loaded, "arxdb-server", server.key)]
      BY <1>4 DEF ServerLoadRoster
    <2> HIDE DEF loaded
    <2>3. server'.key = server.key /\ server'.pc \in {"serving", "truncate_roster"}
      BY <1>0, <2>2
    <2>4. \/ server'.roster = loaded
          \/ server'.roster = Bind(loaded, "arxdb-server", server.key)
      BY <1>0, <2>2
    <2> QED
      BY <1>4, <2>1, <2>2, <2>3, <2>4
  <1>5. CASE \/ ServerTruncateRoster \/ ServerWriteRoster \/ \E x \in Api : ServerCommit(x)
    BY <1>0, <1>5 DEF ServerTruncateRoster, ServerWriteRoster, ServerCommit
  <1> QED
    BY <1>1, <1>2, <1>3, <1>4, <1>5 DEF ServerStep

\* What the genesis roster binds.
LEMMA GenesisValues ==
    ASSUME Types
    PROVE  /\ \A k : Bound(GenesisRoster, k) => k = seed.serverKey
           /\ \A k \in Nat : BindsScript(GenesisRoster, k) => k = seed.key
  <1>0. seed.key \in Nat /\ seed.serverKey \in Nat
    BY DEF Types, Process
  <1>1. EmptyRoster \in Rosters /\ Bind(EmptyRoster, "Skye", seed.key) \in Rosters
    BY <1>0, RosterValues
  <1>2. \A k : Bound(GenesisRoster, k) => k = seed.serverKey
    BY <1>0, <1>1, RosterValues DEF GenesisRoster
  <1>3. \A k \in Nat : BindsScript(GenesisRoster, k) => k = seed.key
    BY <1>0, <1>1, ScriptValues DEF GenesisRoster
  <1> QED
    BY <1>2, <1>3

\* The roster file holds what it held or what a process has written there.
LEMMA RosterFile ==
    ASSUME Types, [Next]_vars, NEW r, file'["roster"] = Content(r)
    PROVE  \/ file["roster"] = Content(r)
           \/ r = seed.roster \/ r = server.roster
  BY FileStep, FileValues

\* A server's key in use was in use, or has just been read from its file or written to it.
LEMMA InUseStep ==
    ASSUME Types, [Next]_vars, NEW k \in Nat, InUse(k)'
    PROVE  \/ InUse(k)
           \/ (LoadServerKey \/ ServerLoadKey) /\ file["server_keypair"] = Content(k)
           \/ WriteServerKey /\ k = seed.serverKey
           \/ ServerWriteKey /\ k = server.key
  <1>0. /\ seed.serverKey \in Nat /\ seed.roster \in Rosters
        /\ server.key \in Nat /\ server.roster \in Rosters
    BY DEF Types, Process
  <1>m. (seed' = seed \/ SeedStep) /\ (server' = server \/ ServerStep)
    BY Movers
  <1>r. /\ LoadServerKey => file["server_keypair"] = Content(file["server_keypair"][2])
        /\ ServerLoadKey => file["server_keypair"] = Content(file["server_keypair"][2])
    BY FileRead DEF Types, LoadServerKey, ServerLoadKey
  <1>1. CASE server'.pc \in ServerSettled /\ server'.key = k
    BY <1>1, <1>m, <1>r, ServerSources DEF InUse
  <1>2. CASE seed'.pc \in SeedSettled /\ seed'.serverKey = k
    BY <1>2, <1>m, <1>r, ScriptSources DEF InUse
  <1>3. CASE Bound(seed'.roster, k)
    <2>1. CASE seed'.roster \in {seed.roster, EmptyRoster}
      BY <1>3, <2>1, RosterValues DEF InUse, Bound
    <2>2. CASE seed.pc = "len" /\ seed'.roster = GenesisRoster
      <3>1. k = seed.serverKey
        BY <1>3, <2>2, GenesisValues
      <3> QED
        BY <2>2, <3>1 DEF InUse, SeedSettled, SeedMaking, TwiceKeyed, Keyed
    <2> QED
      BY <1>m, <2>1, <2>2, ScriptSources
  <1>4. CASE Bound(server'.roster, k)
    <2>1. CASE server'.roster \in {server.roster, EmptyRoster}
      BY <1>4, <2>1, RosterValues DEF InUse, Bound
    <2>2. CASE server'.roster \notin {server.roster, EmptyRoster}
      <3>1. PICK loaded \in Rosters :
                /\ loaded = EmptyRoster \/ file["roster"] = Content(loaded)
                /\ server.pc = "roster"
                /\ \/ server'.roster = loaded
                   \/ server'.roster = Bind(loaded, "arxdb-server", server.key)
        BY <1>m, <2>2, ServerSources
      <3>2. CASE server'.roster = loaded
        BY <1>4, <2>2, <3>1, <3>2 DEF InUse
      <3>3. CASE server'.roster = Bind(loaded, "arxdb-server", server.key)
        <4>1. k = server.key
          BY <1>0, <1>4, <3>1, <3>3, RosterValues
        <4> QED
          BY <3>1, <4>1 DEF InUse, ServerSettled
      <3> QED
        BY <3>1, <3>2, <3>3
    <2> QED
      BY <2>1, <2>2
  <1>5. CASE \E r \in Rosters : file'["roster"] = Content(r) /\ Bound(r, k)
    <2>1. PICK r \in Rosters : file'["roster"] = Content(r) /\ Bound(r, k)
      BY <1>5
    <2> QED
      BY <2>1, RosterFile DEF InUse
  <1>6. \/ server'.pc \in ServerSettled /\ server'.key = k
        \/ seed'.pc \in SeedSettled /\ seed'.serverKey = k
        \/ Bound(seed'.roster, k) \/ Bound(server'.roster, k)
        \/ \E r \in Rosters : file'["roster"] = Content(r) /\ Bound(r, k)
    BY DEF InUse, Bound
  <1> QED
    BY <1>1, <1>2, <1>3, <1>4, <1>5, <1>6

\* Only who makes the server's key touches its file.
LEMMA ServerKeyFile ==
    ASSUME Types, [Next]_vars
    PROVE  \/ file'["server_keypair"] = file["server_keypair"]
           \/ file'["server_keypair"] = Torn /\ (seed.pc \in SeedMaking \/ server.pc \in ServerMaking)
           \/ /\ WriteServerKey /\ seed.pc \in SeedMaking
              /\ file'["server_keypair"] = Content(seed.serverKey)
           \/ /\ ServerWriteKey /\ server.pc \in ServerMaking
              /\ file'["server_keypair"] = Content(server.key)
  <1>1. /\ TruncateServerKey => seed.pc \in SeedMaking
        /\ WriteServerKey => seed.pc \in SeedMaking
        /\ ServerTruncateKey => server.pc \in ServerMaking
        /\ ServerWriteKey => server.pc \in ServerMaking
    BY DEF TruncateServerKey, WriteServerKey, ServerTruncateKey, ServerWriteKey,
           SeedMaking, ServerMaking
  <1> QED
    BY <1>1, FileStep

LEMMA MadeOnceStep ==
    ASSUME Types, Bindings, [Next]_vars, ~collided'
    PROVE  MadeOnce'
  <1>m. /\ seed' = seed \/ (SeedStep /\ server' = server)
        /\ server' = server \/ (ServerStep /\ seed' = seed)
    BY Movers
  <1>h. /\ ~collided
        /\ NewServerKey => server.pc \notin ServerMaking
        /\ ServerNewKey => seed.pc \notin SeedMaking
    <2>1. /\ collided' = collided \/ NewServerKey \/ ServerNewKey
          /\ NewServerKey => collided' = (collided \/ server.pc \in ServerMaking)
          /\ ServerNewKey => collided' = (collided \/ seed.pc \in SeedMaking)
      BY HistoryStep
    <2>2. CASE NewServerKey
      BY <2>1, <2>2
    <2>3. CASE ServerNewKey
      BY <2>1, <2>3
    <2> QED
      BY <2>1, <2>2, <2>3
  <1>0. MadeOnce
    BY <1>h DEF Bindings
  <1>s. /\ seed'.pc \in SeedMaking => seed.pc \in SeedMaking \/ NewServerKey
        /\ server'.pc \in ServerMaking => server.pc \in ServerMaking \/ ServerNewKey
    BY <1>m, ScriptSources, ServerSources
  <1>1. ~(seed'.pc \in SeedMaking /\ server'.pc \in ServerMaking)
    BY <1>0, <1>h, <1>m, <1>s DEF MadeOnce
  <1>w. /\ WriteServerKey => seed'.pc \notin SeedMaking /\ server' = server
        /\ ServerWriteKey => server'.pc \notin ServerMaking /\ seed' = seed
    BY DEF Types, Process, WriteServerKey, ServerWriteKey, SeedMaking, ServerMaking
  <1>2. ASSUME seed'.pc \in SeedMaking \/ server'.pc \in ServerMaking
        PROVE  file'["server_keypair"] \in {Absent, Torn}
    <2>1. CASE file'["server_keypair"] = file["server_keypair"]
      BY <1>0, <1>2, <1>s, <2>1 DEF MadeOnce, NewServerKey, ServerNewKey
    <2>2. ~(WriteServerKey /\ seed.pc \in SeedMaking) /\ ~(ServerWriteKey /\ server.pc \in ServerMaking)
      BY <1>0, <1>2, <1>w DEF MadeOnce
    <2> QED
      BY <2>1, <2>2, ServerKeyFile
  <1>3. ASSUME NEW k \in Nat, InUse(k)'
        PROVE  file'["server_keypair"] = Content(k)
    <2>1. CASE InUse(k)
      <3>1. file["server_keypair"] = Content(k)
        BY <1>0, <2>1 DEF MadeOnce
      <3>2. seed.pc \notin SeedMaking /\ server.pc \notin ServerMaking
        BY <1>0, <3>1, FileValues DEF MadeOnce
      <3> QED
        BY <3>1, <3>2, ServerKeyFile
    <2>2. CASE (LoadServerKey \/ ServerLoadKey) /\ file["server_keypair"] = Content(k)
      BY <2>2 DEF LoadServerKey, ServerLoadKey
    <2>3. CASE WriteServerKey /\ k = seed.serverKey
      BY <2>3, FileChanged DEF Types, WriteServerKey, Fill, Files
    <2>4. CASE ServerWriteKey /\ k = server.key
      BY <2>4, FileChanged DEF Types, ServerWriteKey, Fill, Files
    <2> QED
      BY <1>3, <2>1, <2>2, <2>3, <2>4, InUseStep
  <1>4. \A k \in Nat : InUse(k)' => file'["server_keypair"] = Content(k)
    BY <1>3
  <1> QED
    BY <1>1, <1>2, <1>4 DEF MadeOnce

\* A roster binds the script to the key in its file, which nothing overwrites any more.
LEMMA ScriptBoundStep ==
    ASSUME Types, Identity, Bindings, [Next]_vars, NEW k \in Nat, ScriptBound(k)'
    PROVE  file'["seed_keypair"] = Content(k)
  <1>0. seed.roster \in Rosters /\ server.roster \in Rosters /\ server.key \in Nat
    BY DEF Types, Process
  <1>m. (seed' = seed \/ SeedStep) /\ (server' = server \/ ServerStep)
    BY Movers
  <1>1. ScriptBound(k) \/ (seed.pc = "len" /\ k = seed.key)
    <2>1. CASE BindsScript(seed'.roster, k)
      <3>1. CASE seed'.roster \in {seed.roster, EmptyRoster}
        BY <2>1, <3>1, ScriptValues DEF ScriptBound
      <3>2. CASE seed.pc = "len" /\ seed'.roster = GenesisRoster
        BY <2>1, <3>2, GenesisValues
      <3> QED
        BY <1>m, <3>1, <3>2, ScriptSources
    <2>2. CASE BindsScript(server'.roster, k)
      <3>1. CASE server'.roster \in {server.roster, EmptyRoster}
        BY <2>2, <3>1, ScriptValues DEF ScriptBound
      <3>2. CASE server'.roster \notin {server.roster, EmptyRoster}
        <4>1. PICK loaded \in Rosters :
                  /\ loaded = EmptyRoster \/ file["roster"] = Content(loaded)
                  /\ server.pc = "roster"
                  /\ \/ server'.roster = loaded
                     \/ server'.roster = Bind(loaded, "arxdb-server", server.key)
          BY <1>m, <3>2, ServerSources
        <4>2. BindsScript(loaded, k)
          BY <1>0, <2>2, <4>1, ScriptValues
        <4> QED
          BY <4>1, <4>2, ScriptValues DEF ScriptBound
      <3> QED
        BY <3>1, <3>2
    <2>3. CASE \E r \in Rosters : file'["roster"] = Content(r) /\ BindsScript(r, k)
      <3>1. PICK r \in Rosters : file'["roster"] = Content(r) /\ BindsScript(r, k)
        BY <2>3
      <3> QED
        BY <3>1, RosterFile DEF ScriptBound
    <2>4. \/ BindsScript(seed'.roster, k) \/ BindsScript(server'.roster, k)
          \/ \E r \in Rosters : file'["roster"] = Content(r) /\ BindsScript(r, k)
      BY DEF ScriptBound, BindsScript
    <2> QED
      BY <2>1, <2>2, <2>3, <2>4
  <1>2. file["seed_keypair"] = Content(k)
    BY <1>1 DEF Bindings, Identity, Keyed
  <1>3. ~NewKey /\ ~WriteKey
    BY <1>2, FileValues DEF NewKey, WriteKey, Identity
  <1> QED
    BY <1>2, <1>3, FileStep

LEMMA BindingsStep == SeedingInvariant /\ [Next]_vars => Bindings'
  <1> SUFFICES ASSUME SeedingInvariant, [Next]_vars
               PROVE  Bindings'
    OBVIOUS
  <1>0. Types /\ Identity /\ Bindings
    BY DEF SeedingInvariant
  <1>1. server'.pc \in RosterKnown => "arxdb-server" \in DOMAIN server'.roster
    <2>1. CASE server' = server
      BY <1>0, <2>1 DEF Bindings
    <2>2. CASE server.pc \in RosterKnown /\ server'.roster = server.roster
      BY <1>0, <2>2 DEF Bindings
    <2>3. CASE ServerLoadRoster
      <3> DEFINE loaded == IF file["roster"] = Absent THEN EmptyRoster ELSE file["roster"][2]
      <3>1. loaded \in Rosters /\ server.key \in Nat
        BY <1>0, <2>3, FileRead, RosterValues DEF Types, ServerLoadRoster, Process
      <3>2. "arxdb-server" \in DOMAIN Bind(loaded, "arxdb-server", server.key)
        BY <3>1, RosterValues DEF Bound
      <3>3. \/ server' = [server EXCEPT !.pc = "serving", !.roster = loaded]
               /\ "arxdb-server" \in DOMAIN loaded
            \/ server' = [server EXCEPT !.pc = "truncate_roster",
                                        !.roster = Bind(loaded, "arxdb-server", server.key)]
        BY <2>3 DEF ServerLoadRoster
      <3> HIDE DEF loaded
      <3> QED
        BY <1>0, <3>2, <3>3 DEF Types, Process
    <2> QED
      BY <1>0, <2>1, <2>2, <2>3, Movers, ServerSources
  <1>2. collided' \in BOOLEAN
    BY <1>0, HistoryStep DEF Bindings
  <1>3. ~collided' => MadeOnce'
    BY <1>0, MadeOnceStep
  <1>4. \A k \in Nat : ScriptBound(k)' => file'["seed_keypair"] = Content(k)
    BY <1>0, ScriptBoundStep
  <1> QED
    BY <1>1, <1>2, <1>3, <1>4 DEF Bindings

-----------------------------------------------------------------------------
(***************************************************************************)
(* The results.                                                            *)
(***************************************************************************)

LEMMA SeedingInit == Init => SeedingInvariant
  <1> SUFFICES ASSUME Init
               PROVE  SeedingInvariant
    OBVIOUS
  <1>0. /\ file = [f \in Files |-> Absent] /\ keys = 0 /\ log = <<>> /\ objects = {}
        /\ seed = Off /\ server = Off /\ aborts = 0 /\ collided = FALSE /\ cut = {}
    BY DEF Init, Files
  <1>o. /\ Off.pc = "off" /\ Off.next = 1 /\ Off.roster = EmptyRoster
        /\ Off \in Process(SeedPc) /\ Off \in Process(ServerPc)
    BY RosterValues DEF Off, Process, SeedPc, ServerPc
  <1>f. \A f \in Files : file[f] = Absent
    BY <1>0
  <1>1. Types
    <2>1. file = [f \in Files |-> file[f]]
      BY <1>0
    <2>2. log \in Seq(Entry)
      BY <1>0
    <2> QED
      BY <1>0, <1>o, <1>f, <2>1, <2>2, FileFilled DEF Types, Files
  <1>2. Identity /\ Idempotent /\ Progress /\ CutOff
    BY <1>0, <1>o DEF Identity, Idempotent, Progress, CutOff, Keyed, Anchoring, Early, SeedPc
  <1>3. Anchored
    BY <1>0, <1>o, <1>f, FileValues DEF Anchored, Anchoring, Files
  <1>4. Bindings
    <2>1. /\ seed.pc \notin SeedMaking /\ server.pc \notin ServerMaking
          /\ seed.pc \notin SeedSettled /\ server.pc \notin ServerSettled
      BY <1>0, <1>o DEF SeedMaking, ServerMaking, SeedSettled, ServerSettled, TwiceKeyed, Keyed, RosterKnown
    <2>2. \A r : file["roster"] # Content(r)
      BY <1>f, FileValues DEF Files
    <2>3. \A k \in Nat : ~InUse(k) /\ ~ScriptBound(k)
      BY <1>0, <1>o, <2>1, <2>2, RosterValues, ScriptValues DEF InUse, ScriptBound, Bound
    <2>4. MadeOnce
      BY <2>1, <2>3 DEF MadeOnce
    <2> QED
      BY <1>0, <1>o, <2>3, <2>4 DEF Bindings, RosterKnown
  <1> QED
    BY <1>1, <1>2, <1>3, <1>4 DEF SeedingInvariant

\* The parts of the invariant hold in every state, wherever the two processes are
\* interrupted or interleaved.
THEOREM SeedingInvariantHolds == Spec => []SeedingInvariant
  <1>1. SeedingInvariant /\ [Next]_vars => SeedingInvariant'
    <2>1. SeedingInvariant => Types /\ Idempotent
      BY DEF SeedingInvariant
    <2>2. SeedingInvariant /\ [Next]_vars => Types'
      BY <2>1, TypesStep
    <2> QED
      BY <2>2, IdentityStep, IdempotentStep, ProgressStep, CutOffStep, AnchoredStep, BindingsStep
         DEF SeedingInvariant
  <1> QED
    BY <1>1, SeedingInit, PTL DEF Spec

\* The script signs the corpus with one key, although its key file may be torn or
\* missing when it starts: what has signed an edge was read back from the file.
THEOREM SeedHasOneIdentity == Spec => []OneSeedIdentity
  <1>1. SeedingInvariant => OneSeedIdentity
    BY FileValues DEF SeedingInvariant, Identity, ScriptEdge, OneSeedIdentity
  <1> QED
    BY <1>1, SeedingInvariantHolds, PTL

\* Running the script again after any interruption commits nothing twice: resolve_edge
\* on the key and the position finds what an earlier run has stored.
THEOREM SeedRunsAreIdempotent == Spec => []SeedIdempotent
  <1>1. ASSUME SeedingInvariant, NEW c \in Names, NEW k \in 1 .. keys
        PROVE  Cardinality(Logged(EdgeRecord(c, k))) <= 1
    <2>1. \A i, j \in Logged(EdgeRecord(c, k)) : i = j
      BY <1>1, RecordValues DEF Logged, SeedingInvariant, Idempotent, ScriptEdge
    <2>2. CASE Logged(EdgeRecord(c, k)) = {}
      BY <2>2, FS_EmptySet
    <2>3. CASE Logged(EdgeRecord(c, k)) # {}
      <3>1. PICK i : i \in Logged(EdgeRecord(c, k))
        BY <2>3
      <3>2. Logged(EdgeRecord(c, k)) = {i}
        BY <2>1, <3>1
      <3>3. Cardinality({i}) = 1
        BY FS_Singleton
      <3> QED
        BY <3>2, <3>3
    <2> QED
      BY <2>2, <2>3
  <1>2. SeedingInvariant => SeedIdempotent
    BY <1>1 DEF SeedIdempotent, SeedingInvariant, Idempotent
  <1> QED
    BY <1>2, SeedingInvariantHolds, PTL

\* When the script has run to its end, the accepted edges that the log lacks are just those
\* whose blob a run had written when it died: resolve_edge finds the blob, and no later run
\* commits the edge.
THEOREM SeedIsComplete == Spec => []SeedComplete
  <1>1. ASSUME SeedingInvariant, seed.pc = "done", NEW c \in Names
        PROVE  LET x == EdgeRecord(c, seed.key)
               IN  /\ Logged(x) = {} /\ c \notin Slow => x \in cut
                   /\ x \in cut => Logged(x) = {}
    <2> DEFINE x == EdgeRecord(c, seed.key)
    <2>1. PICK i \in DOMAIN Corpus : c = Corpus[i]
      BY DEF Names
    <2>2. c \notin Slow => x \in objects
      BY <1>1, <2>1 DEF SeedingInvariant, Progress, Stored, Anchoring
    <2>3. Logged(x) = {} <=> ~IsLogged(x)
      BY DEF Logged, IsLogged
    <2>4. ~Committing(x)
      BY <1>1 DEF Committing
    <2> HIDE DEF x
    <2>5. (x \in objects => IsLogged(x) \/ x \in cut) /\ (x \in cut => ~IsLogged(x))
      BY <1>1, <2>4 DEF SeedingInvariant, CutOff
    <2>6. (Logged(x) = {} /\ c \notin Slow => x \in cut) /\ (x \in cut => Logged(x) = {})
      BY <2>2, <2>3, <2>5
    <2> QED
      BY <2>6 DEF x
  <1>2. SeedingInvariant => SeedComplete
    BY <1>1 DEF SeedComplete
  <1> QED
    BY <1>2, SeedingInvariantHolds, PTL

\* A readable anchor names a root of the history that the log still begins with, although
\* root and entry count are read apart while the server commits.
THEOREM AnchorNamesHistory == Spec => []AnchorIsHistory
  <1>1. ASSUME SeedingInvariant, file["anchor"] \notin {Absent, Torn}
        PROVE  LET a == file["anchor"][2]
               IN  /\ Len(a.root_hash) <= a.entry_count /\ a.entry_count <= Len(log)
                   /\ SubSeq(log, 1, Len(a.root_hash)) = a.root_hash
    <2> DEFINE a == file["anchor"][2]
    <2>1. a \in Anchors /\ file["anchor"] = Content(a) /\ log \in Seq(Entry)
      BY <1>1, FileRead DEF SeedingInvariant, Types
    <2>2. /\ BeginsWith(a.root_hash)
          /\ Len(a.root_hash) <= a.entry_count /\ a.entry_count <= Len(log)
      BY <1>1, <2>1 DEF SeedingInvariant, Anchored
    <2>3. a.root_hash \in Seq(Entry)
      BY <2>1 DEF Anchors
    <2> HIDE DEF a
    <2>4. SubSeq(log, 1, Len(a.root_hash)) = a.root_hash
      BY <2>1, <2>2, <2>3 DEF BeginsWith
    <2> QED
      BY <2>2, <2>4 DEF a
  <1>2. SeedingInvariant => AnchorIsHistory
    BY <1>1 DEF AnchorIsHistory
  <1> QED
    BY <1>2, SeedingInvariantHolds, PTL

\* A running server's roster binds the script to the key in its file, and the server to
\* the key that it signs with, in whatever order the two processes created, read and
\* overwrote the shared files and were killed; the second is only at risk when both were
\* once creating the server's key at the same time.
THEOREM ServerIsNamed == Spec => []ServerNamed
  <1>1. ASSUME SeedingInvariant, server.pc = "serving"
        PROVE  /\ "Skye" \in DOMAIN server.roster =>
                      file["seed_keypair"] = Content(server.roster["Skye"])
               /\ collided \/ server.roster["arxdb-server"] = server.key
    <2>1. server.key \in Nat /\ server.roster \in Rosters
      BY <1>1 DEF SeedingInvariant, Types, Process
    <2>2. \A a \in DOMAIN server.roster : server.roster[a] \in Nat
      <3>1. PICK A \in SUBSET {"Skye", "arxdb-server"} : server.roster \in [A -> Nat]
        BY <2>1 DEF Rosters
      <3> QED
        BY <3>1
    <2>3. ASSUME "Skye" \in DOMAIN server.roster
          PROVE  file["seed_keypair"] = Content(server.roster["Skye"])
      <3>1. ScriptBound(server.roster["Skye"])
        BY <2>3 DEF ScriptBound, BindsScript
      <3> QED
        BY <1>1, <2>2, <2>3, <3>1 DEF SeedingInvariant, Bindings
    <2>4. ASSUME ~collided
          PROVE  server.roster["arxdb-server"] = server.key
      <3>1. "arxdb-server" \in DOMAIN server.roster
        BY <1>1 DEF SeedingInvariant, Bindings, RosterKnown
      <3>2. InUse(server.roster["arxdb-server"]) /\ InUse(server.key)
        BY <1>1, <3>1 DEF InUse, Bound, ServerSettled, RosterKnown
      <3>3. \A k \in Nat : InUse(k) => file["server_keypair"] = Content(k)
        BY <1>1, <2>4 DEF SeedingInvariant, Bindings, MadeOnce
      <3> QED
        BY <2>1, <2>2, <3>1, <3>2, <3>3, FileValues
    <2> QED
      BY <2>3, <2>4
  <1>2. SeedingInvariant => ServerNamed
    BY <1>1 DEF ServerNamed
  <1> QED
    BY <1>2, SeedingInvariantHolds, PTL

-----------------------------------------------------------------------------
(***************************************************************************)
(* To both programs the log is the abstract ledger: every step of either   *)
(* appends one roster, or one edge with which the graph grows, or nothing. *)
(***************************************************************************)

LedgerEdges == {EdgeRecord(c, k) : c \in Names \cup Api, k \in Nat}

LedgerRosters == {RosterRecord(r) : r \in Rosters}

LoggedEdges == {x \in LedgerEdges : \E i \in DOMAIN log : log[i].payload = x}

Store == INSTANCE Ledger WITH
             Signer <- Nat, Edge <- LedgerEdges, Raw <- LedgerRosters,
             entries <- log, edges <- LoggedEdges

LEMMA LedgerStep == Types /\ Idempotent /\ [Next]_vars => [Store!LedgerNext]_(Store!ledgerVars)
  <1> SUFFICES ASSUME Types, Idempotent, [Next]_vars, log' # log
               PROVE  Store!LedgerNext
    BY DEF Store!ledgerVars, LoggedEdges
  <1>1. PICK x \in Entry :
            /\ log' = Append(log, x)
            /\ \/ AppendRoster /\ x.payload = RosterRecord(seed.roster)
               \/ /\ CommitCorpusEdge /\ seed.next \in DOMAIN Corpus
                  /\ x.signer = seed.key /\ x.payload = EdgeRecord(Current, seed.key)
               \/ \E c \in Api : ServerCommit(c) /\ x.payload = EdgeRecord(c, server.key)
    BY LogStep
  <1>2. /\ DOMAIN log = 1 .. Len(log) /\ DOMAIN log' = 1 .. Len(log) + 1 /\ Len(log) \in Nat
        /\ log'[Len(log) + 1] = x /\ \A i \in DOMAIN log : log'[i] = log[i]
    BY <1>1, Appended DEF Types
  <1>3. x.signer \in Nat /\ x = [signer |-> x.signer, payload |-> x.payload]
    BY DEF Entry
  <1>4. /\ seed.key \in Nat /\ server.key \in Nat /\ seed.roster \in Rosters
        /\ seed.next \in DOMAIN Corpus => Current \in Names
    BY CorpusValues DEF Types, Process, Current
  \* What the graph gains is what the entry holds.
  <1>5. \A r : r \in LoggedEdges' <=> r \in LoggedEdges \/ (r \in LedgerEdges /\ r = x.payload)
    <2>1. \A r : (\E i \in DOMAIN log' : log'[i].payload = r) <=>
                     (\E i \in DOMAIN log : log[i].payload = r) \/ x.payload = r
      BY <1>2
    <2>2. LedgerEdges' = LedgerEdges
      BY DEF LedgerEdges, Names, EdgeRecord
    <2> QED
      BY <2>1, <2>2 DEF LoggedEdges
  <1>6. CASE x.payload \in LedgerRosters
    <2>1. x.payload \notin LedgerEdges
      BY <1>6, RecordValues DEF LedgerRosters, LedgerEdges
    <2>2. LoggedEdges' = LoggedEdges
      BY <1>5, <2>1
    <2>3. Store!AppendRaw(x.signer, x.payload)
      BY <1>1, <1>3, <2>2 DEF Store!AppendRaw
    <2> QED
      BY <1>3, <1>6, <2>3 DEF Store!LedgerNext
  <1>7. CASE x.payload \in LedgerEdges
    <2>1. LoggedEdges' = LoggedEdges \cup {x.payload}
      BY <1>5, <1>7
    <2>2. Store!CommitEdge(x.signer, x.payload)
      BY <1>1, <1>3, <2>1 DEF Store!CommitEdge
    <2> QED
      BY <1>3, <1>7, <2>2 DEF Store!LedgerNext
  <1> QED
    BY <1>1, <1>4, <1>6, <1>7 DEF LedgerRosters, LedgerEdges

\* The seed script and the server, killed and started again in any way, use the storage
\* as an append-only ledger whose graph is that of the logged edges.
THEOREM SeedingUsesLedger == Spec => Store!LedgerSpec
  <1>1. Init => Store!LedgerInit
    BY DEF Init, Store!LedgerInit, LoggedEdges
  <1>2. SeedingInvariant => Types /\ Idempotent
    BY DEF SeedingInvariant
  <1> QED
    BY <1>1, <1>2, LedgerStep, SeedingInvariantHolds, PTL DEF Spec, Store!LedgerSpec

-----------------------------------------------------------------------------
(***************************************************************************)
(* The loop of the seed script over the real corpus.  Its queries are the  *)
(* operators of GraphQueries, so that the lemmas of OperatorProofs apply.  *)
(***************************************************************************)

HIDE SeedingAssumption

Graph == INSTANCE OperatorProofs WITH
             Edge <- Edges, PremiseSet <- Premises, conclusion <- Conclusions,
             strength <- Strengths

\* The nodes that a spectral check is about, and the two that no argument of strength K1
\* derives: the hypothesis and the operator.
Computed == {32, 33, 34}
Open == {7, 9}

StepTypes == {"citation", "analogy", "definition", "refutation", "spectral"}

\* What is true of every step of the corpus: spectral steps conclude what they compute,
\* the open nodes follow only from each other unless by analogy, E5 needs its premise,
\* and the author expects the label that the checker awards.
Sound ==
    {s \in [type : StepTypes, premises : SUBSET Node, conclusion : Node, expected : 0 .. 2] :
        /\ s.type = "spectral" => s.conclusion \in Computed
        /\ s.type # "analogy" /\ s.conclusion \in Open => s.premises \cap Open # {}
        /\ s.conclusion = 5 => s.premises # {}
        /\ s.expected = Award(s.type)}

LEMMA SomeNodes == \A n \in 1 .. 36 : n \in Node
  BY DEF Node

LEMMA SoundCitation ==
    ASSUME NEW p \in SUBSET Node, NEW c \in Node,
           c \in Open => p \cap Open # {}, c = 5 => p # {}
    PROVE  Cites(p, c) \in Sound
  BY DEF Cites, Step, Sound, Award, StepTypes

LEMMA SoundAnalogy ==
    ASSUME NEW p \in SUBSET Node, NEW c \in Node, c # 5
    PROVE  Likens(p, c) \in Sound
  BY DEF Likens, Step, Sound, Award, StepTypes

LEMMA SoundDefinition ==
    ASSUME NEW c \in Node, c \notin Open, c # 5
    PROVE  Defines(c) \in Sound
  BY DEF Defines, Step, Sound, Award, StepTypes

LEMMA SoundRefutation ==
    ASSUME NEW c \in Node, c \notin Open, c # 5
    PROVE  Refutes(c) \in Sound
  BY DEF Refutes, Step, Sound, Award, StepTypes

LEMMA SoundComputation ==
    ASSUME NEW c \in Node, c \in Computed
    PROVE  Computes(c) \in Sound
  BY DEF Computes, Step, Sound, Award, StepTypes, Computed, Open

LEMMA SoundPhaserThread == PhaserThread \in Seq(Sound) /\ Len(PhaserThread) = 9
  <1>1. Defines(1) \in Sound
    BY SomeNodes, SoundDefinition DEF Open
  <1>2. /\ Cites({}, 2) \in Sound /\ Cites({2}, 3) \in Sound /\ Cites({}, 4) \in Sound
        /\ Cites({4}, 5) \in Sound /\ Cites({}, 6) \in Sound /\ Cites({}, 8) \in Sound
        /\ Cites({9}, 7) \in Sound
    BY SomeNodes, SoundCitation DEF Open
  <1>3. Likens({}, 7) \in Sound
    BY SomeNodes, SoundAnalogy
  <1> QED
    BY <1>1, <1>2, <1>3 DEF PhaserThread

LEMMA SoundPrimonGas == PrimonGas \in Seq(Sound) /\ Len(PrimonGas) = 4
  <1>1. /\ Cites({}, 10) \in Sound /\ Cites({10}, 11) \in Sound /\ Cites({11}, 12) \in Sound
    BY SomeNodes, SoundCitation DEF Open
  <1>2. Likens({12}, 13) \in Sound
    BY SomeNodes, SoundAnalogy
  <1> QED
    BY <1>1, <1>2 DEF PrimonGas

LEMMA SoundTotalPositivity == TotalPositivity \in Seq(Sound) /\ Len(TotalPositivity) = 3
  <1>1. /\ Cites({}, 14) \in Sound /\ Cites({14}, 15) \in Sound
    BY SomeNodes, SoundCitation DEF Open
  <1>2. Likens({15}, 16) \in Sound
    BY SomeNodes, SoundAnalogy
  <1> QED
    BY <1>1, <1>2 DEF TotalPositivity

LEMMA SoundLargeDeviations == LargeDeviations \in Seq(Sound) /\ Len(LargeDeviations) = 4
  <1>1. /\ Cites({}, 17) \in Sound /\ Cites({}, 18) \in Sound /\ Cites({}, 19) \in Sound
    BY SomeNodes, SoundCitation DEF Open
  <1>2. Likens({18, 19}, 20) \in Sound
    BY SomeNodes, SoundAnalogy
  <1> QED
    BY <1>1, <1>2 DEF LargeDeviations

LEMMA SoundJanusModel == JanusModel \in Seq(Sound) /\ Len(JanusModel) = 3
  <1>1. /\ Likens({}, 21) \in Sound /\ Likens({}, 22) \in Sound /\ Likens({22}, 23) \in Sound
    BY SomeNodes, SoundAnalogy
  <1> QED
    BY <1>1 DEF JanusModel

LEMMA SoundBridges == Bridges \in Seq(Sound) /\ Len(Bridges) = 11
  <1>1. /\ Cites({2}, 17) \in Sound /\ Cites({2}, 18) \in Sound
    BY SomeNodes, SoundCitation DEF Open
  <1>2. /\ Likens({6}, 7) \in Sound /\ Likens({8}, 7) \in Sound /\ Likens({9}, 13) \in Sound
        /\ Likens({13}, 23) \in Sound /\ Likens({16}, 13) \in Sound
        /\ Likens({1}, 10) \in Sound /\ Likens({12}, 21) \in Sound
        /\ Likens({20}, 21) \in Sound /\ Likens({22}, 13) \in Sound
    BY SomeNodes, SoundAnalogy
  <1> QED
    BY <1>1, <1>2 DEF Bridges

LEMMA SoundHubs == Hubs \in Seq(Sound) /\ Len(Hubs) = 10
  <1>1. /\ Likens({9}, 24) \in Sound /\ Likens({13}, 24) \in Sound
        /\ Likens({16}, 24) \in Sound /\ Likens({23}, 24) \in Sound
        /\ Likens({1}, 25) \in Sound /\ Likens({10}, 25) \in Sound
        /\ Likens({21}, 25) \in Sound /\ Likens({12}, 26) \in Sound
        /\ Likens({20}, 26) \in Sound /\ Likens({21}, 26) \in Sound
    BY SomeNodes, SoundAnalogy
  <1> QED
    BY <1>1 DEF Hubs

LEMMA SoundLater == Later \in Seq(Sound) /\ Len(Later) = 14
  <1>1. /\ Cites({}, 29) \in Sound /\ Cites({}, 31) \in Sound /\ Cites({}, 35) \in Sound
        /\ Cites({}, 36) \in Sound
    BY SomeNodes, SoundCitation DEF Open
  <1>2. /\ Likens({5}, 9) \in Sound /\ Likens({3}, 28) \in Sound /\ Likens({2}, 27) \in Sound
        /\ Likens({27}, 28) \in Sound /\ Likens({28}, 29) \in Sound
    BY SomeNodes, SoundAnalogy
  <1>3. /\ Refutes(30) \in Sound /\ Refutes(29) \in Sound
    BY SomeNodes, SoundRefutation DEF Open
  <1>4. /\ Computes(32) \in Sound /\ Computes(33) \in Sound /\ Computes(34) \in Sound
    BY SomeNodes, SoundComputation DEF Computed
  <1> QED
    BY <1>1, <1>2, <1>3, <1>4 DEF Later
\* A sequence of n sound steps that begins with the phaser thread.
PhaserFirst(s, n) ==
    s \in Seq(Sound) /\ Len(s) = n /\ \A i \in 1 .. 9 : s[i] = PhaserThread[i]

LEMMA Joined ==
    ASSUME NEW n \in Nat, n >= 9, NEW s \in Seq(Sound), PhaserFirst(s, n),
           NEW t \in Seq(Sound), NEW m \in Nat, m = n + Len(t)
    PROVE  s \o t \in Seq(Sound) /\ PhaserFirst(s \o t, m)
  <1>1. s \o t \in Seq(Sound) /\ Len(s \o t) = m
    BY DEF PhaserFirst
  <1>2. \A i \in 1 .. n : (s \o t)[i] = s[i]
    BY DEF PhaserFirst
  <1> QED
    BY <1>1, <1>2 DEF PhaserFirst

LEMMA CorpusIsSound == CORPUS_EDGES \in Seq(Sound) /\ PhaserFirst(CORPUS_EDGES, 58)
  <1> DEFINE s1 == PhaserThread \o PrimonGas
             s2 == s1 \o TotalPositivity
             s3 == s2 \o LargeDeviations
             s4 == s3 \o JanusModel
             s5 == s4 \o Bridges
             s6 == s5 \o Hubs
             s7 == s6 \o Later
  <1>1. PhaserThread \in Seq(Sound) /\ PhaserFirst(PhaserThread, 9)
    BY SoundPhaserThread DEF PhaserFirst
  <1>2. /\ PrimonGas \in Seq(Sound) /\ 13 = 9 + Len(PrimonGas)
        /\ TotalPositivity \in Seq(Sound) /\ 16 = 13 + Len(TotalPositivity)
        /\ LargeDeviations \in Seq(Sound) /\ 20 = 16 + Len(LargeDeviations)
        /\ JanusModel \in Seq(Sound) /\ 23 = 20 + Len(JanusModel)
        /\ Bridges \in Seq(Sound) /\ 34 = 23 + Len(Bridges)
        /\ Hubs \in Seq(Sound) /\ 44 = 34 + Len(Hubs)
        /\ Later \in Seq(Sound) /\ 58 = 44 + Len(Later)
    BY SoundPrimonGas, SoundTotalPositivity, SoundLargeDeviations, SoundJanusModel,
       SoundBridges, SoundHubs, SoundLater
  <1>3. s1 \in Seq(Sound) /\ PhaserFirst(s1, 13)
    BY <1>1, <1>2, Joined
  <1> HIDE DEF s1
  <1>4. s2 \in Seq(Sound) /\ PhaserFirst(s2, 16)
    BY <1>3, <1>2, Joined
  <1> HIDE DEF s2
  <1>5. s3 \in Seq(Sound) /\ PhaserFirst(s3, 20)
    BY <1>4, <1>2, Joined
  <1> HIDE DEF s3
  <1>6. s4 \in Seq(Sound) /\ PhaserFirst(s4, 23)
    BY <1>5, <1>2, Joined
  <1> HIDE DEF s4
  <1>7. s5 \in Seq(Sound) /\ PhaserFirst(s5, 34)
    BY <1>6, <1>2, Joined
  <1> HIDE DEF s5
  <1>8. s6 \in Seq(Sound) /\ PhaserFirst(s6, 44)
    BY <1>7, <1>2, Joined
  <1> HIDE DEF s6
  <1>9. s7 \in Seq(Sound) /\ PhaserFirst(s7, 58)
    BY <1>8, <1>2, Joined
  <1> HIDE DEF s7
  <1> QED
    BY <1>9 DEF CORPUS_EDGES, s1, s2, s3, s4, s5, s6, s7

LEMMA StepFacts ==
    /\ Edges = 1 .. 58
    /\ \A i \in Edges :
          /\ CORPUS_EDGES[i].type \in StepTypes
          /\ Premises[i] \in SUBSET Node /\ Conclusions[i] \in Node
          /\ Strengths[i] \in 0 .. 2 /\ Strengths[i] = CORPUS_EDGES[i].expected
          /\ Strengths[i] = 2 => Conclusions[i] \in Computed
          /\ Strengths[i] >= 1 /\ Conclusions[i] \in Open => Premises[i] \cap Open # {}
          /\ Conclusions[i] = 5 => Premises[i] # {}
  <1>0. \A s \in Seq(Sound) : DOMAIN s = 1 .. Len(s) /\ \A i \in DOMAIN s : s[i] \in Sound
    OBVIOUS
  <1>1. Edges = 1 .. 58 /\ \A i \in Edges : CORPUS_EDGES[i] \in Sound
    BY <1>0, CorpusIsSound DEF Edges, PhaserFirst
  <1> SUFFICES ASSUME NEW i \in Edges
               PROVE  /\ CORPUS_EDGES[i].type \in StepTypes
                      /\ Premises[i] \in SUBSET Node /\ Conclusions[i] \in Node
                      /\ Strengths[i] \in 0 .. 2 /\ Strengths[i] = CORPUS_EDGES[i].expected
                      /\ Strengths[i] = 2 => Conclusions[i] \in Computed
                      /\ Strengths[i] >= 1 /\ Conclusions[i] \in Open => Premises[i] \cap Open # {}
                      /\ Conclusions[i] = 5 => Premises[i] # {}
    BY <1>1
  <1> DEFINE s == CORPUS_EDGES[i]
  <1>2. s \in Sound
    BY <1>1
  <1>3. Premises[i] = s.premises /\ Conclusions[i] = s.conclusion /\ Strengths[i] = Award(s.type)
    BY DEF Premises, Conclusions, Strengths
  <1> HIDE DEF s
  <1>4. /\ s.type \in StepTypes /\ s.premises \in SUBSET Node /\ s.conclusion \in Node
        /\ s.expected \in 0 .. 2 /\ s.expected = Award(s.type)
        /\ s.type = "spectral" => s.conclusion \in Computed
        /\ s.type # "analogy" /\ s.conclusion \in Open => s.premises \cap Open # {}
        /\ s.conclusion = 5 => s.premises # {}
    BY <1>2 DEF Sound
  <1>5. (Award(s.type) = 2 => s.type = "spectral") /\ (Award(s.type) >= 1 => s.type # "analogy")
    BY DEF Award
  <1> QED
    BY <1>3, <1>4, <1>5 DEF s

\* The steps that the exit criteria rest on.
LEMMA KeySteps ==
    /\ {4, 5, 8, 9} \subseteq Edges
    /\ Conclusions[4] = 4 /\ Premises[4] = {} /\ Strengths[4] = 1
    /\ Conclusions[5] = 5 /\ Premises[5] = {4} /\ Strengths[5] = 1
    /\ Conclusions[8] = 7 /\ Premises[8] = {} /\ Strengths[8] = 0
    /\ Conclusions[9] = 7 /\ Premises[9] = {9} /\ Strengths[9] = 1
    /\ \A i \in {4, 5, 8, 9} : CORPUS_EDGES[i].type \notin {"spectral", "refutation"}
  <1>1. {4, 5, 8, 9} \subseteq Edges /\ \A i \in {4, 5, 8, 9} : CORPUS_EDGES[i] = PhaserThread[i]
    <2>1. Edges = 1 .. 58
      BY StepFacts
    <2>2. \A i \in 1 .. 9 : CORPUS_EDGES[i] = PhaserThread[i]
      BY CorpusIsSound DEF PhaserFirst
    <2>3. {4, 5, 8, 9} \subseteq 1 .. 9 /\ {4, 5, 8, 9} \subseteq 1 .. 58
      OBVIOUS
    <2> QED
      BY <2>1, <2>2, <2>3
  <1>2. /\ PhaserThread[4] = Cites({}, 4) /\ PhaserThread[5] = Cites({4}, 5)
        /\ PhaserThread[8] = Likens({}, 7) /\ PhaserThread[9] = Cites({9}, 7)
    BY DEF PhaserThread
  <1>3. \A p, c : /\ Cites(p, c).type = "citation" /\ Likens(p, c).type = "analogy"
                  /\ Cites(p, c).premises = p /\ Likens(p, c).premises = p
                  /\ Cites(p, c).conclusion = c /\ Likens(p, c).conclusion = c
    BY DEF Cites, Likens, Step
  <1>4. Award("citation") = 1 /\ Award("analogy") = 0
    BY DEF Award
  <1> QED
    BY <1>1, <1>2, <1>3, <1>4 DEF Premises, Conclusions, Strengths

LEMMA CorpusGraph == Graph!FiniteGraph
  <1>1. Graph!IsFiniteSet(Node)
    <2>1. \A a, b \in Int : IsFiniteSet(a .. b)
      BY FS_Interval
    <2>2. IsFiniteSet(Node)
      BY <2>1, 1 \in Int, 36 \in Int DEF Node
    <2> QED
      BY <2>2 DEF IsFiniteSet, Graph!IsFiniteSet
  <1>2. /\ Premises \in [Edges -> SUBSET Node] /\ Conclusions \in [Edges -> Node]
        /\ Strengths \in [Edges -> Graph!Kappa]
    <2>1. \A k \in 0 .. 2 : k \in Graph!Kappa
      BY DEF Graph!Kappa
    <2>2. \A i \in Edges : Strengths[i] \in Graph!Kappa
      BY <2>1, StepFacts
    <2> QED
      BY <2>2, StepFacts DEF Premises, Conclusions, Strengths
  <1> QED
    BY <1>1, <1>2 DEF Graph!FiniteGraph

LEMMA SameAnswers ==
    ASSUME NEW edges, NEW n
    PROVE  /\ \A k : Q!Established(edges, k) = Graph!Established(edges, k)
           /\ \A enough : Q!Reached(edges, n, enough) = Graph!Reached(edges, n, enough)
           /\ Q!KappaOf(edges, n) = Graph!KappaOf(edges, n)
           /\ Q!DepthOf(edges, n) = Graph!DepthOf(edges, n)
  <1>1. \A k : Q!Established(edges, k) = Graph!Established(edges, k)
    BY DEF Q!Established, Graph!Established
  <1>2. \A k, d : Q!Within(edges, k, d) = Graph!Within(edges, k, d)
    BY DEF Q!Within, Graph!Within
  <1>3. Q!Cardinality(Node) = Graph!Cardinality(Node)
    BY DEF Q!Cardinality, Graph!Cardinality
  <1>4. \A enough : Q!Reached(edges, n, enough) = Graph!Reached(edges, n, enough)
    BY <1>3 DEF Q!Reached, Graph!Reached, Q!Blocking, Graph!Blocking
  <1>5. Q!KappaOf(edges, n) = Graph!KappaOf(edges, n)
    BY <1>1 DEF Q!KappaOf, Graph!KappaOf, Q!Kappa, Graph!Kappa, Q!Absent, Graph!Absent,
                Q!Max, Graph!Max
  <1>6. Q!DepthOf(edges, n) = Graph!DepthOf(edges, n)
    <2> DEFINE A == {d \in 0 .. Q!Cardinality(Node) : n \in Q!Within(edges, 0, d)}
               B == {d \in 0 .. Graph!Cardinality(Node) : n \in Graph!Within(edges, 0, d)}
    <2>1. A = B
      BY <1>2, <1>3
    <2>2. \A S : Q!Min(S) = Graph!Min(S)
      BY DEF Q!Min, Graph!Min
    <2>3. Q!DepthOf(edges, n) = IF n \in Q!Established(edges, 0) THEN Q!Min(A) ELSE Q!Absent
      BY DEF Q!DepthOf
    <2>4. Graph!DepthOf(edges, n) =
              IF n \in Graph!Established(edges, 0) THEN Graph!Min(B) ELSE Graph!Absent
      BY DEF Graph!DepthOf
    <2>5. Q!Absent = Graph!Absent
      BY DEF Q!Absent, Graph!Absent
    <2> HIDE DEF A, B
    <2> QED
      BY <1>1, <2>1, <2>2, <2>3, <2>4, <2>5
  <1> QED
    BY <1>1, <1>4, <1>5, <1>6

-----------------------------------------------------------------------------
(***************************************************************************)
(* What the edges derive, whichever of them are in the graph.              *)
(***************************************************************************)

LEMMA NothingMoreDerived ==
    ASSUME NEW D \in SUBSET Edges
    PROVE  /\ Q!Established(D, 1) \cap Open = {}
           /\ Q!Established(D, 2) \subseteq Computed
           /\ Q!Established(D, 3) = {}
  <1>1. \A k, C : C \in SUBSET Node /\ Graph!ClosedForward(D, k, C) => Q!Established(D, k) \subseteq C
    BY CorpusGraph, SameAnswers, Graph!EstablishedIsLeast
  <1>2. Graph!ClosedForward(D, 1, Node \ Open)
    <2> SUFFICES ASSUME NEW e \in D, Strengths[e] >= 1, Premises[e] \subseteq Node \ Open
                 PROVE  Conclusions[e] \in Node \ Open
      BY DEF Graph!ClosedForward
    <2>1. e \in Edges
      OBVIOUS
    <2>2. Conclusions[e] \in Node /\ (Conclusions[e] \in Open => Premises[e] \cap Open # {})
      BY <2>1, StepFacts
    <2> HIDE DEF Open
    <2> QED
      BY <2>2
  <1>3. Graph!ClosedForward(D, 2, Computed)
    <2> SUFFICES ASSUME NEW e \in D, Strengths[e] >= 2
                 PROVE  Conclusions[e] \in Computed
      BY DEF Graph!ClosedForward
    <2>1. e \in Edges
      OBVIOUS
    <2>2. Strengths[e] \in 0 .. 2 /\ (Strengths[e] = 2 => Conclusions[e] \in Computed)
      BY <2>1, StepFacts
    <2> QED
      BY <2>2
  <1>4. Graph!ClosedForward(D, 3, {})
    <2>1. \A e \in Edges : Strengths[e] \in 0 .. 2
      BY StepFacts
    <2>2. \A e \in D : ~(Strengths[e] >= 3)
      BY <2>1
    <2> QED
      BY <2>2 DEF Graph!ClosedForward
  <1>5. Node \ Open \in SUBSET Node /\ Computed \in SUBSET Node /\ {} \in SUBSET Node
    BY SomeNodes DEF Computed
  <1> QED
    BY <1>1, <1>2, <1>3, <1>4, <1>5

\* The answers that the script prints, once the four key steps are in the graph.
LEMMA Answers ==
    ASSUME NEW D \in SUBSET Edges, {4, 5, 8, 9} \subseteq D
    PROVE  /\ Q!KappaOf(D, 5) = 1 /\ Q!DepthOf(D, 5) = 1
           /\ Q!KappaOf(D, 7) = 0
           /\ 9 \in UNION {{m.conclusion} \cup m.blocking :
                               m \in Q!Missing(D, 7, Q!Established(D, 1))}
  <1>1. \A k : Graph!ClosedForward(D, k, Q!Established(D, k)) /\ Q!Established(D, k) \in SUBSET Node
    BY CorpusGraph, SameAnswers, Graph!EstablishedIsLeast
  <1>2. 4 \in Q!Established(D, 1)
    BY <1>1, KeySteps DEF Graph!ClosedForward
  <1>3. 5 \in Q!Established(D, 1)
    BY <1>1, <1>2, KeySteps DEF Graph!ClosedForward
  <1>4. 7 \in Q!Established(D, 0)
    BY <1>1, KeySteps DEF Graph!ClosedForward
  <1>5. 5 \notin Q!Established(D, 2) /\ 7 \notin Q!Established(D, 1) /\ 9 \notin Q!Established(D, 1)
    BY NothingMoreDerived DEF Computed, Open
  <1>6. ASSUME NEW n, NEW k \in {0, 1}, n \in Q!Established(D, k), n \notin Q!Established(D, k + 1)
        PROVE  Q!KappaOf(D, n) = k
    <2>1. /\ Graph!KappaOf(D, n) \in {0, 1, 2, 3, 4, -1}
          /\ \A j \in {0, 1, 2, 3, 4} : n \in Q!Established(D, j) <=> Graph!KappaOf(D, n) >= j
      BY CorpusGraph, SameAnswers, Graph!KappaOfIsStrongest DEF Graph!Kappa, Graph!Absent
    <2>2. k \in {0, 1, 2, 3, 4} /\ k + 1 \in {0, 1, 2, 3, 4}
      OBVIOUS
    <2>3. Graph!KappaOf(D, n) >= k /\ ~(Graph!KappaOf(D, n) >= k + 1)
      BY <1>6, <2>1, <2>2
    <2>4. Graph!KappaOf(D, n) = k
      BY <2>1, <2>3
    <2> QED
      BY <2>4, SameAnswers
  <1>7. Q!KappaOf(D, 5) = 1 /\ Q!KappaOf(D, 7) = 0
    <2>1. 1 + 1 = 2 /\ 0 + 1 = 1
      OBVIOUS
    <2> QED
      BY <1>3, <1>4, <1>5, <1>6, <2>1
  <1>8. Q!DepthOf(D, 5) = 1
    <2>1. /\ Graph!Within(D, 0, 0) = Graph!Derived(D, 0, {})
          /\ Graph!Within(D, 0, 0 + 1) = Graph!Derived(D, 0, Graph!Within(D, 0, 0))
      BY CorpusGraph, Graph!WithinValues, 0 \in Nat
    <2>2. \A e \in D : Strengths[e] >= 0
      BY StepFacts
    <2>3. 5 \notin Graph!Within(D, 0, 0)
      <3>1. \A e \in D : Conclusions[e] = 5 => Premises[e] # {}
        BY StepFacts
      <3> QED
        BY <2>1, <3>1 DEF Graph!Derived, Graph!Strong
    <2>4. 4 \in Graph!Within(D, 0, 0)
      BY <2>1, <2>2, KeySteps DEF Graph!Derived, Graph!Strong
    <2>5. 5 \in Graph!Within(D, 0, 1)
      <3>1. Graph!Within(D, 0, 1) = Graph!Derived(D, 0, Graph!Within(D, 0, 0))
        BY <2>1, 0 + 1 = 1
      <3> QED
        BY <2>2, <2>4, <3>1, KeySteps DEF Graph!Derived, Graph!Strong
    <2>6. /\ Graph!DepthOf(D, 5) \in Nat \cup {-1}
          /\ \A d \in Nat : 5 \in Graph!Within(D, 0, d) <=>
                                Graph!DepthOf(D, 5) # -1 /\ Graph!DepthOf(D, 5) <= d
      BY CorpusGraph, Graph!DepthOfIsLeast DEF Graph!Absent
    <2>7. Graph!DepthOf(D, 5) = 1
      BY <2>3, <2>5, <2>6
    <2> QED
      BY <2>7, SameAnswers
  <1>9. 9 \in UNION {{m.conclusion} \cup m.blocking : m \in Q!Missing(D, 7, Q!Established(D, 1))}
    <2> DEFINE enough == Q!Established(D, 1)
               into == {e \in D : Conclusions[e] = 7}
               m == [conclusion |-> 7, blocking |-> Q!Blocking(9, enough)]
    <2>1. 7 \in Q!Reached(D, 7, enough)
      <3>1. 7 \in Node
        BY SomeNodes
      <3>2. \A good : 7 \in Graph!Reached(D, 7, good)
        BY <3>1, CorpusGraph, Graph!ReachedIsLeast
      <3> HIDE DEF enough
      <3> QED
        BY <3>2, SameAnswers
    <2>2. 9 \in into /\ 9 \in Q!Blocking(9, enough)
      BY <1>5, KeySteps DEF Q!Blocking
    <2>3. m \in Q!MissingAt(7, into, enough)
      BY <2>2 DEF Q!MissingAt
    <2>4. m \in Q!Missing(D, 7, enough)
      BY <2>1, <2>3 DEF Q!Missing
    <2>5. 9 \in m.blocking
      BY <2>2
    <2> HIDE DEF m, enough
    <2> QED
      BY <2>4, <2>5 DEF enough
  <1> QED
    BY <1>7, <1>8, <1>9

-----------------------------------------------------------------------------
(***************************************************************************)
(* The loop.                                                               *)
(***************************************************************************)

Spectral == {i \in Edges : CORPUS_EDGES[i].type = "spectral"}

\* Every edge that the loop has passed is in the object store, unless its check may have
\* run into the timeout, and only such edges are unmatched: the label is always the
\* expected one.  A record precedes its transaction.
LoopInvariant ==
    /\ next \in 1 .. 59 /\ pc \in {"build", "commit", "transaction"}
    /\ blobs \in SUBSET Edges /\ committed \subseteq blobs
    /\ \A i \in Edges : i < next => i \in blobs \cup Spectral
    /\ unmatched \subseteq Spectral
    /\ pc # "build" => next \in Edges
    /\ pc = "transaction" => next \in blobs

LEMMA LoopInvariantHolds == LoopSpec => []LoopInvariant
  <1>1. LoopInit => LoopInvariant
    BY StepFacts DEF LoopInit, LoopInvariant
  <1>2. ASSUME LoopInvariant, [LoopNext]_loopVars
        PROVE  LoopInvariant'
    <2> USE <1>2 DEF LoopInvariant
    <2>0. /\ Edges = 1 .. 58
          /\ \A i \in Edges : Strengths[i] = CORPUS_EDGES[i].expected
          /\ MayTimeOut /\ next \in Edges => next \in Spectral
      BY StepFacts DEF MayTimeOut, Spectral
    \* The loop goes on behind an edge that is in the object store or may time out.
    <2>1. ASSUME NEW matched \in BOOLEAN, Row(matched), next \in Edges, UNCHANGED blobs,
                 committed' \subseteq blobs, next \in blobs \cup Spectral,
                 matched \/ next \in Spectral
          PROVE  LoopInvariant'
      <3>1. next' = next + 1 /\ pc' = "build" /\ next' \in 1 .. 59
        BY <2>0, <2>1 DEF Row
      <3>2. unmatched' \subseteq Spectral
        BY <2>1 DEF Row
      <3>3. \A i \in Edges : i < next' => i \in blobs \cup Spectral
        BY <2>0, <2>1, <3>1
      <3> QED
        BY <2>1, <3>1, <3>2, <3>3
    <2>2. CASE Rejected
      BY <2>0, <2>1, <2>2 DEF Rejected, AtEdge
    <2>3. CASE Skipped
      BY <2>1, <2>3 DEF Skipped, AtEdge
    <2>4. CASE Proposed
      BY <2>4 DEF Proposed, AtEdge
    <2>5. CASE RejectedLate
      BY <2>0, <2>1, <2>5 DEF RejectedLate, AtEdge
    <2>6. CASE PutRecord
      BY <2>6 DEF PutRecord, AtEdge
    <2>7. CASE Commit
      <3>1. next \in Edges /\ next \in blobs /\ committed' \subseteq blobs /\ UNCHANGED blobs
        BY <2>7 DEF Commit, AtEdge
      <3>2. Row(TRUE)
        BY <2>0, <2>7, <3>1 DEF Commit, Row
      <3> QED
        BY <2>1, <3>1, <3>2
    <2>8. CASE RunAgain
      BY <2>0, <2>8 DEF RunAgain
    <2>9. CASE UNCHANGED loopVars
      BY <2>9 DEF loopVars
    <2> QED
      BY <1>2, <2>2, <2>3, <2>4, <2>5, <2>6, <2>7, <2>8, <2>9 DEF LoopNext
  <1> QED
    BY <1>1, <1>2, PTL DEF LoopSpec

\* Whichever edges are in the graph, however often the script was killed or a check ran
\* into its timeout: no node is derived more strongly than the corpus has grounds for.
THEOREM CorpusNotInflated == LoopSpec => []NothingInflated
  <1>1. LoopInvariant => NothingInflated
    <2> SUFFICES ASSUME LoopInvariant
                 PROVE  NothingInflated
      OBVIOUS
    <2>1. Derivations \in SUBSET Edges
      BY DEF LoopInvariant, Derivations
    <2> QED
      BY <2>1, NothingMoreDerived DEF NothingInflated, Open, Computed
  <1> QED
    BY <1>1, LoopInvariantHolds, PTL

\* A run that has ended with every stored record committed meets the exit criteria of the
\* script, whichever spectral edges it had to leave out.
THEOREM CorpusMeetsExitCriteria == LoopSpec => []ExitCriteriaMet
  <1>1. LoopInvariant => ExitCriteriaMet
    <2> SUFFICES ASSUME LoopInvariant, next = Len(CORPUS_EDGES) + 1, blobs = committed
                 PROVE  LET gaps == Q!Missing(Derivations, 7, Q!Established(Derivations, 1))
                        IN  /\ Q!KappaOf(Derivations, 5) = 1
                            /\ Q!DepthOf(Derivations, 5) = 1
                            /\ Q!KappaOf(Derivations, 7) = 0
                            /\ 9 \in UNION {{m.conclusion} \cup m.blocking : m \in gaps}
                            /\ unmatched \subseteq Spectral
      BY DEF ExitCriteriaMet, Spectral
    <2>1. next = 59 /\ unmatched \subseteq Spectral /\ Derivations \in SUBSET Edges
      BY CorpusIsSound DEF PhaserFirst, LoopInvariant, Derivations
    <2>2. {4, 5, 8, 9} \subseteq committed
      <3>0. Edges = 1 .. 58
        BY StepFacts
      <3>1. \A i \in Edges : i < next
        BY <2>1, <3>0
      <3>2. Edges \subseteq committed \cup Spectral
        BY <3>1 DEF LoopInvariant
      <3>3. \A i \in {4, 5, 8, 9} : i \in Edges /\ i \notin Spectral
        BY KeySteps DEF Spectral
      <3> QED
        BY <3>2, <3>3
    <2>3. {4, 5, 8, 9} \subseteq Derivations
      BY <2>2, KeySteps DEF Derivations
    <2> QED
      BY <2>1, <2>3, Answers
  <1> QED
    BY <1>1, LoopInvariantHolds, PTL
==============================================================================
