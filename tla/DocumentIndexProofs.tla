------------------------- MODULE DocumentIndexProofs -------------------------
(***************************************************************************)
(* What ingests leave in the index, for every corpus and every way of      *)
(* splitting a text, whatever stops half way.                              *)
(***************************************************************************)
EXTENDS DocumentIndex, EnumerationProofs

StoredHashes == [Documents -> {"none"} \cup Hashes]

AllChunks == UNION {ChunkDocument(d, e) : d \in Documents, e \in Entries}

(***************************************************************************)
(* Chunks.                                                                 *)
(***************************************************************************)
\* A chunk names its document and carries the hash of its text.
LEMMA ChunksAreMarked ==
    ASSUME NEW d, NEW e, NEW c \in ChunkDocument(d, e)
    PROVE  DocumentOf(c) = d /\ HashOf(c) = e.text
  BY DEF ChunkDocument, DocumentOf, HashOf

\* Within one version of a document an id belongs to one chunk.
LEMMA ChunkIdsAreUnique ==
    ASSUME NEW d, NEW e, NEW c \in ChunkDocument(d, e), NEW k \in ChunkDocument(d, e),
           c.id = k.id
    PROVE  c = k
  BY DEF ChunkDocument

\* A version is cut into one chunk at least.
LEMMA VersionsHaveChunks ==
    ASSUME NEW d, NEW e \in Entries
    PROVE  ChunkDocument(d, e) # {}
<1> DEFINE sections == SectionsOf(e)
           places == UNION {{s} \X Parts(sections[s]) : s \in DOMAIN sections}
<1>1. sections \in Seq(Nat \ {0}) /\ sections # <<>>
  BY IndexAssumption DEF SectionsOf
<1>2. 1 \in DOMAIN sections /\ sections[1] \in Nat \ {0}
  BY <1>1
<1>3. PICK p : p \in Parts(sections[1])
  BY <1>2 DEF Parts
<1>4. <<1, p>> \in places
  BY <1>2, <1>3
<1>5. QED
  BY <1>4 DEF ChunkDocument

LEMMA ListedVersions ==
    ASSUME NEW corpus \in Corpora
    PROVE  /\ \A d \in Listed(corpus) :
                 corpus[d] \in Entries /\ corpus[d].text \in Hashes
                 /\ corpus[d].text # "none"
           /\ \A d \in Documents \ Listed(corpus) : corpus[d].text = "none"
  BY IndexAssumption DEF Corpora, Listed, Absent, Hashes

\* Deleting by document empties those documents and leaves the others.
LEMMA WithoutDocuments ==
    ASSUME NEW docs, points' = Without(docs), NEW d
    PROVE  StoredFor(d)' = IF d \in docs THEN {} ELSE StoredFor(d)
  BY DEF Without, StoredFor

\* Writing documents that have no chunks adds theirs and touches no other.
LEMMA UpsertedDocuments ==
    ASSUME NEW corpus, NEW docs, points' = Upserted(Chunks(corpus, docs)),
           \A d \in docs : StoredFor(d) = {}
    PROVE  /\ points' = points \cup Chunks(corpus, docs)
           /\ \A d : StoredFor(d)' =
                 IF d \in docs THEN ChunkDocument(d, corpus[d]) ELSE StoredFor(d)
<1>1. \A new \in Chunks(corpus, docs) :
         DocumentOf(new) \in docs /\ new \in ChunkDocument(DocumentOf(new), corpus[DocumentOf(new)])
  BY ChunksAreMarked DEF Chunks
<1>2. \A c \in points : DocumentOf(c) \notin docs
  BY DEF StoredFor
<1>3. \A c \in points : \A new \in Chunks(corpus, docs) : new.id # c.id
  BY <1>1, <1>2 DEF DocumentOf
<1>4. points' = points \cup Chunks(corpus, docs)
  BY <1>3 DEF Upserted
<1>5. ASSUME NEW d \in docs PROVE StoredFor(d)' = ChunkDocument(d, corpus[d])
  <2>1. \A c \in ChunkDocument(d, corpus[d]) : c \in points' /\ DocumentOf(c) = d
    BY <1>4, ChunksAreMarked DEF Chunks
  <2>2. \A c \in points' : DocumentOf(c) = d => c \in ChunkDocument(d, corpus[d])
    BY <1>1, <1>2, <1>4
  <2>3. QED
    BY <2>1, <2>2 DEF StoredFor
<1>6. ASSUME NEW d, d \notin docs PROVE StoredFor(d)' = StoredFor(d)
  BY <1>1, <1>4, <1>6 DEF StoredFor
<1>7. QED
  BY <1>4, <1>5, <1>6

-----------------------------------------------------------------------------
(***************************************************************************)
(* The collection stays well formed.                                       *)
(***************************************************************************)
WellFormed(chunks) ==
    chunks \subseteq AllChunks /\ \A c, k \in chunks : c.id = k.id => c = k

LEMMA WithoutIsWellFormed ==
    ASSUME WellFormed(points), NEW docs
    PROVE  WellFormed(Without(docs))
  BY DEF WellFormed, Without

LEMMA UpsertedIsWellFormed ==
    ASSUME WellFormed(points), NEW corpus \in Corpora, NEW docs \in SUBSET Listed(corpus)
    PROVE  WellFormed(Upserted(Chunks(corpus, docs)))
<1>1. \A c \in Chunks(corpus, docs) :
         /\ DocumentOf(c) \in docs
         /\ c \in ChunkDocument(DocumentOf(c), corpus[DocumentOf(c)])
  BY ChunksAreMarked DEF Chunks
<1>2. Chunks(corpus, docs) \subseteq AllChunks
  <2>1. ASSUME NEW c \in Chunks(corpus, docs) PROVE c \in AllChunks
    <3>1. PICK d \in docs : c \in ChunkDocument(d, corpus[d])
      BY <1>1
    <3>2. d \in Documents /\ corpus[d] \in Entries
      BY ListedVersions DEF Listed
    <3>3. QED
      BY <3>1, <3>2 DEF AllChunks
  <2>2. QED
    BY <2>1
<1>3. \A c, k \in Chunks(corpus, docs) : c.id = k.id => c = k
  <2>1. ASSUME NEW c \in Chunks(corpus, docs), NEW k \in Chunks(corpus, docs), c.id = k.id
        PROVE  c = k
    <3>1. DocumentOf(c) = DocumentOf(k)
      BY <2>1 DEF DocumentOf
    <3>2. QED
      BY <1>1, <2>1, <3>1, ChunkIdsAreUnique
  <2>2. QED
    BY <2>1
<1>4. QED
  BY <1>2, <1>3 DEF WellFormed, Upserted

-----------------------------------------------------------------------------
(***************************************************************************)
(* How a step changes the run that takes it.                               *)
(***************************************************************************)
Run == [at : Steps, corpus : Corpora, stored : StoredHashes]

OtherRuns(i) == \A j \in Ingests : j # i => ingest'[j] = ingest[j]

LEMMA RunsAreTyped == TypeOK <=>
    /\ manifest \in Corpora
    /\ WellFormed(points) /\ snapshot \subseteq AllChunks
    /\ ingest \in [Ingests -> Run]
    /\ \A i \in Ingests :
          ingest[i].at \in {"embedding", "embedded", "writing"} => Changed(i) # {}
  BY DEF TypeOK, WellFormed, AllChunks, Run, StoredHashes

LEMMA MoveRun ==
    ASSUME ingest \in [Ingests -> Run], NEW i \in Ingests, NEW from, NEW to \in Steps,
           Moves(i, from, to)
    PROVE  /\ ingest' \in [Ingests -> Run] /\ OtherRuns(i)
           /\ ingest[i].at = from /\ ingest'[i].at = to
           /\ ingest'[i].corpus = ingest[i].corpus /\ ingest'[i].stored = ingest[i].stored
  BY DEF Moves, Run, OtherRuns

LEMMA ReadRun ==
    ASSUME ingest \in [Ingests -> Run], NEW i \in Ingests, ReadHashes(i)
    PROVE  /\ ingest' \in [Ingests -> Run] /\ OtherRuns(i)
           /\ ingest[i].at = "loaded" /\ ingest'[i].at = "compared"
           /\ ingest'[i].corpus = ingest[i].corpus /\ ingest'[i].stored \in HashesRead
<1>1. PICK h \in HashesRead :
         ingest[i].at = "loaded"
         /\ ingest' = [ingest EXCEPT ![i].at = "compared", ![i].stored = h]
  BY DEF ReadHashes
<1>2. h \in StoredHashes
  BY DEF HashesRead, StoredHashes
<1>3. "compared" \in Steps
  BY DEF Steps
<1>4. QED
  BY <1>1, <1>2, <1>3 DEF Run, OtherRuns

LEMMA LoadRun ==
    ASSUME ingest \in [Ingests -> Run], manifest \in Corpora, NEW i \in Ingests,
           LoadDocuments(i)
    PROVE  /\ ingest' \in [Ingests -> Run] /\ OtherRuns(i)
           /\ ingest[i].at = "idle" /\ ingest'[i].at \in {"loaded", "dead"}
<1>1. PICK to \in {"loaded", "dead"} :
         ingest[i].at = "idle"
         /\ ingest' = [ingest EXCEPT ![i].at = to, ![i].corpus = manifest]
  BY DEF LoadDocuments
<1>2. to \in Steps
  BY DEF Steps
<1>3. QED
  BY <1>1, <1>2 DEF Run, OtherRuns

\* Only what a run has read and loaded says what it will change.
LEMMA ChangedFollowsTheRun ==
    ASSUME NEW i, ingest'[i].corpus = ingest[i].corpus, ingest'[i].stored = ingest[i].stored
    PROVE  /\ Changed(i)' = Changed(i) /\ Removed(i)' = Removed(i)
           /\ Listed(ingest[i].corpus)' = Listed(ingest[i].corpus)
  BY DEF Changed, Removed, Listed

LEMMA ChangedOfOthers ==
    ASSUME NEW i \in Ingests, OtherRuns(i), ingest' \in [Ingests -> Run],
           \A j \in Ingests :
              ingest[j].at \in {"embedding", "embedded", "writing"} => Changed(j) # {},
           ingest'[i].at \in {"embedding", "embedded", "writing"} => Changed(i)' # {}
    PROVE  \A j \in Ingests :
              ingest'[j].at \in {"embedding", "embedded", "writing"} => Changed(j)' # {}
  BY DEF OtherRuns, Changed, Listed

-----------------------------------------------------------------------------
(***************************************************************************)
(* The step of a run that has the index to itself.                         *)
(***************************************************************************)
Caught(i) == \A d \in Documents : CaughtUp(i, d)

LEMMA OneRunSteps ==
    ASSUME IndexInv, TypeOK', NEW i \in Active, OtherRuns(i), overlapped' = overlapped,
           ingest'[i].at # "idle",
           ~overlapped =>
              /\ \A d \in Documents : Whole(d)'
              /\ ReadInv(i)'
              /\ ingest'[i].at = "done" => Caught(i)'
    PROVE  IndexInv'
<1>1. i \in Ingests /\ ingest[i].at # "idle"
  BY DEF Active
<1>2. \A j \in Ingests : ingest'[j].at = "idle" <=> ingest[j].at = "idle"
  BY <1>1 DEF OtherRuns
<1>3. \A j \in Ingests : LastStarted(j)' <=> LastStarted(j)
  BY <1>2 DEF LastStarted
<1>4. Active' \subseteq Active
  BY <1>1 DEF Active, OtherRuns
<1>5. ASSUME ~overlapped
      PROVE  OrderInv' /\ (\A j \in Ingests : ReadInv(j)') /\ IngestCatchesUp'
  <2>1. OrderInv
    BY <1>5 DEF IndexInv
  <2>2. OrderInv'
    <3>1. \A j \in Active' : j \in Ingests /\ LastStarted(j)'
      BY <1>3, <1>4, <2>1 DEF OrderInv, Active
    <3>2. QED
      BY <1>2, <2>1, <3>1 DEF OrderInv
  <2>3. ASSUME NEW j \in Ingests, j # i PROVE j \notin Active
    <3>1. i \in Nat /\ j \in Nat
      BY <1>1, IndexAssumption
    <3>2. i < j \/ j < i
      BY <2>3, <3>1
    <3>3. QED
      BY <1>1, <2>1, <3>2 DEF OrderInv, LastStarted, Active
  <2>4. \A j \in Ingests : ReadInv(j)'
    <3>1. ASSUME NEW j \in Ingests, j # i PROVE ReadInv(j)'
      <4>1. ingest'[j].at \in {"idle", "done", "dead"}
        BY <2>3, <3>1 DEF OtherRuns, Active
      <4>2. QED
        BY <4>1 DEF ReadInv
    <3>2. QED
      BY <1>5, <3>1
  <2>5. ASSUME NEW j \in Ingests, j # i, ingest'[j].at = "done", LastStarted(j)'
        PROVE  FALSE
    <3>1. i \in Nat /\ j \in Nat
      BY <1>1, IndexAssumption
    <3>2. i < j \/ j < i
      BY <2>5, <3>1
    <3>3. LastStarted(i) /\ LastStarted(j) /\ ingest[j].at = "done"
      BY <1>3, <2>1, <2>5 DEF OrderInv, OtherRuns
    <3>4. QED
      BY <1>1, <3>2, <3>3 DEF LastStarted
  <2>6. IngestCatchesUp'
    <3>1. ASSUME NEW j \in Ingests, ingest'[j].at = "done", LastStarted(j)' PROVE Caught(j)'
      BY <1>5, <2>5, <3>1
    <3>2. QED
      BY <3>1, Zenon DEF IngestCatchesUp, Caught
  <2>7. QED
    BY <2>2, <2>4, <2>6
<1>6. ASSUME overlapped PROVE IngestCatchesUp'
  BY <1>6 DEF IngestCatchesUp
<1>7. overlapped' \in BOOLEAN
  BY DEF IndexInv
<1>8. QED
  BY <1>5, <1>6, <1>7 DEF IndexInv

-----------------------------------------------------------------------------
(***************************************************************************)
(* The actions.                                                            *)
(***************************************************************************)
\* What is held of a document depends on its own chunks only.
LEMMA UntouchedDocuments ==
    ASSUME NEW d, StoredFor(d)' = StoredFor(d)
    PROVE  (Whole(d) => Whole(d)') /\ \A text : Holds(d, text)' <=> Holds(d, text)
  BY DEF Whole, Holds

LEMMA StandsStill ==
    ASSUME NEW i, NEW d, StoredFor(d)' = StoredFor(d), Stands(i, d),
           ingest'[i].stored = ingest[i].stored
    PROVE  Stands(i, d)'
  BY UntouchedDocuments DEF Stands

\* A document that stands as it was loaded holds the text loaded.
LEMMA StandingDocument ==
    ASSUME IndexInv, NEW i \in Ingests, NEW d \in Listed(ingest[i].corpus), d \notin Changed(i),
           Stands(i, d)
    PROVE  Holds(d, ingest[i].corpus[d].text)
<1> DEFINE entry == ingest[i].corpus[d]
<1>1. entry.text # "none" /\ ingest[i].stored[d] = entry.text
  BY RunsAreTyped, ListedVersions DEF IndexInv, Run, Changed
<1>2. QED
  BY <1>1 DEF Stands

LEMMA InitEstablishes == Init => IndexInv
<1> SUFFICES ASSUME Init PROVE IndexInv
  OBVIOUS
<1>1. TypeOK
  <2>1. Idle \in Run
    BY DEF Idle, Run, Steps, Corpora, StoredHashes
  <2>2. Idle.at = "idle"
    BY DEF Idle
  <2>3. QED
    BY <2>1, <2>2, RunsAreTyped DEF Init, WellFormed, Corpora
<1>2. \A i \in Ingests : ingest[i].at = "idle"
  BY DEF Init, Idle
<1>3. OrderInv /\ IngestCatchesUp /\ \A i \in Ingests : ReadInv(i)
  BY <1>2 DEF OrderInv, Active, IngestCatchesUp, ReadInv
<1>4. \A d \in Documents : Whole(d)
  BY DEF Init, Whole, StoredFor
<1>5. QED
  BY <1>1, <1>3, <1>4 DEF Init, IndexInv

LEMMA LoadStep ==
    ASSUME IndexInv, NEW i \in Ingests, LoadDocuments(i)
    PROVE  IndexInv'
<1>1. /\ ingest' \in [Ingests -> Run] /\ OtherRuns(i)
      /\ ingest[i].at = "idle" /\ ingest'[i].at \in {"loaded", "dead"}
  BY LoadRun, RunsAreTyped DEF IndexInv
<1>2. /\ manifest' = manifest /\ points' = points /\ snapshot' = snapshot
      /\ overlapped' = (overlapped \/ Active # {})
      /\ \A j \in Ingests : j < i => ingest[j].at # "idle"
  BY DEF LoadDocuments
<1>3. TypeOK'
  <2>1. \A j \in Ingests :
           ingest'[j].at \in {"embedding", "embedded", "writing"} => Changed(j)' # {}
    BY <1>1, ChangedOfOthers, RunsAreTyped DEF IndexInv
  <2>2. WellFormed(points)' /\ AllChunks' = AllChunks
    BY <1>2, RunsAreTyped DEF IndexInv, WellFormed, AllChunks
  <2>3. QED
    BY <1>1, <1>2, <2>1, <2>2, RunsAreTyped DEF IndexInv, TypeOK, WellFormed, AllChunks, Run,
       StoredHashes
<1>4. ASSUME ~overlapped'
      PROVE  /\ OrderInv' /\ IngestCatchesUp'
             /\ \A d \in Documents : Whole(d)'
             /\ \A j \in Ingests : ReadInv(j)'
  <2>1. ~overlapped /\ Active = {} /\ OrderInv
    BY <1>2, <1>4 DEF IndexInv
  <2>2. \A j \in Ingests : j # i => ingest'[j].at \in {"idle", "done", "dead"}
    BY <1>1, <2>1 DEF OtherRuns, Active
  <2>3. \A j \in Ingests : ReadInv(j)'
    BY <1>1, <2>2 DEF ReadInv
  <2>4. \A d \in Documents : Whole(d)'
    <3>1. \A d \in Documents : StoredFor(d)' = StoredFor(d)
      BY <1>2 DEF StoredFor
    <3>2. QED
      BY <2>1, <3>1, UntouchedDocuments DEF IndexInv
  <2>5. \A j, k \in Ingests : k < j /\ ingest'[j].at # "idle" => ingest'[k].at # "idle"
    BY <1>1, <1>2, <2>1 DEF OrderInv, OtherRuns
  <2>6. \A j \in Ingests : j > i => ingest'[j].at = "idle"
    <3>1. \A j \in Ingests : j > i => i < j
      BY IndexAssumption
    <3>2. QED
      BY <1>1, <2>1, <3>1, IndexAssumption DEF OrderInv, OtherRuns
  <2>7. LastStarted(i)' /\ Active' \subseteq {i}
    BY <2>2, <2>6 DEF LastStarted, Active
  <2>8. ASSUME NEW j \in Ingests, ingest'[j].at = "done", LastStarted(j)' PROVE FALSE
    <3>1. j # i /\ i \in Nat /\ j \in Nat
      BY <1>1, <2>8, IndexAssumption
    <3>2. i > j \/ i < j
      BY <3>1
    <3>3. QED
      BY <1>1, <2>6, <2>8, <3>1, <3>2 DEF LastStarted
  <2>9. QED
    BY <2>3, <2>4, <2>5, <2>7, <2>8 DEF OrderInv, IngestCatchesUp
<1>5. overlapped' \in BOOLEAN
  BY <1>2 DEF IndexInv
<1>6. overlapped' => IngestCatchesUp'
  BY DEF IngestCatchesUp
<1>7. QED
  BY <1>3, <1>4, <1>5, <1>6 DEF IndexInv

LEMMA TypedStep ==
    ASSUME TypeOK, NEW i \in Ingests, ingest' \in [Ingests -> Run], OtherRuns(i),
           manifest' = manifest, snapshot' = snapshot, WellFormed(points'),
           ingest'[i].at \in {"embedding", "embedded", "writing"} => Changed(i)' # {}
    PROVE  TypeOK'
<1>1. \A j \in Ingests :
         ingest'[j].at \in {"embedding", "embedded", "writing"} => Changed(j)' # {}
  BY ChangedOfOthers, RunsAreTyped
<1>2. snapshot' \subseteq AllChunks /\ manifest' \in Corpora
  BY RunsAreTyped
<1>3. QED
  BY <1>1, <1>2 DEF TypeOK, WellFormed, AllChunks, Run, StoredHashes

LEMMA StayingPoints ==
    ASSUME points' = points
    PROVE  \A d : StoredFor(d)' = StoredFor(d)
  BY DEF StoredFor

\* A document that is whole answers a scroll with the hash of its text.
LEMMA ReadStep ==
    ASSUME IndexInv, NEW i \in Ingests, ReadHashes(i)
    PROVE  IndexInv'
<1>1. /\ ingest' \in [Ingests -> Run] /\ OtherRuns(i)
      /\ ingest[i].at = "loaded" /\ ingest'[i].at = "compared"
      /\ ingest'[i].stored \in HashesRead
  BY ReadRun, RunsAreTyped DEF IndexInv
<1>2. /\ manifest' = manifest /\ points' = points /\ snapshot' = snapshot
      /\ overlapped' = overlapped
  BY DEF ReadHashes, history
<1>3. i \in Active
  BY <1>1 DEF Active
<1>4. TypeOK'
  BY <1>1, <1>2, TypedStep, RunsAreTyped DEF IndexInv
<1>5. ASSUME ~overlapped, NEW d \in Documents PROVE Whole(d)' /\ Stands(i, d)'
  <2>1. StoredFor(d)' = StoredFor(d) /\ Whole(d)
    BY <1>2, <1>5, StayingPoints DEF IndexInv
  <2>2. Whole(d)'
    BY <2>1, UntouchedDocuments
  <2> DEFINE h == ingest'[i].stored
  <2>3. IF d \in Indexed THEN \E c \in StoredFor(d) : h[d] = HashOf(c) ELSE h[d] = "none"
    BY <1>1 DEF HashesRead
  <2>4. CASE StoredFor(d) = {}
    <3>1. h[d] = "none"
      BY <2>3, <2>4 DEF Indexed, StoredFor
    <3>2. QED
      BY <2>1, <2>2, <2>4, <3>1 DEF Stands
  <2>5. CASE StoredFor(d) # {}
    <3>1. PICK text \in Hashes : Holds(d, text)
      BY <2>1, <2>5 DEF Whole
    <3>2. d \in Indexed
      BY <2>5 DEF Indexed, StoredFor
    <3>3. PICK c \in StoredFor(d) : h[d] = HashOf(c)
      BY <2>3, <3>2
    <3>4. h[d] = text
      BY <3>1, <3>3, ChunksAreMarked DEF Holds
    <3>5. Holds(d, text)'
      BY <2>1, <3>1, UntouchedDocuments
    <3>6. QED
      BY <2>2, <3>4, <3>5, IndexAssumption DEF Stands, Hashes
  <2>6. QED
    BY <2>4, <2>5
<1>6. QED
  BY <1>1, <1>2, <1>3, <1>4, <1>5, OneRunSteps DEF ReadInv

\* A run that has read what it read before has caught up with a document by
\* what it left of it.
LEMMA CaughtByDocument ==
    ASSUME NEW i \in Ingests, NEW d \in Documents,
           ingest'[i].corpus = ingest[i].corpus, ingest'[i].stored = ingest[i].stored,
           IF d \in Listed(ingest[i].corpus)
           THEN /\ Holds(d, ingest[i].corpus[d].text)'
                /\ d \in Changed(i) => StoredFor(d)' = ChunkDocument(d, ingest[i].corpus[d])
           ELSE StoredFor(d)' = {}
    PROVE  CaughtUp(i, d)'
<1>1. Changed(i)' = Changed(i) /\ Listed(ingest[i].corpus)' = Listed(ingest[i].corpus)
  BY ChangedFollowsTheRun
<1>2. QED
  BY <1>1 DEF CaughtUp

LEMMA DeleteRemovedStep ==
    ASSUME IndexInv, NEW i \in Ingests, DeleteRemoved(i)
    PROVE  IndexInv'
<1> DEFINE listed == Listed(ingest[i].corpus)
<1>1. /\ ingest' \in [Ingests -> Run] /\ OtherRuns(i)
      /\ ingest[i].at = "compared"
      /\ ingest'[i].at = IF Changed(i) = {} THEN "done" ELSE "embedding"
      /\ ingest'[i].corpus = ingest[i].corpus /\ ingest'[i].stored = ingest[i].stored
  <2>1. PICK to \in Steps :
           to = (IF Changed(i) = {} THEN "done" ELSE "embedding") /\ Moves(i, "compared", to)
    BY DEF DeleteRemoved, Steps
  <2>2. QED
    BY <2>1, MoveRun, RunsAreTyped DEF IndexInv
<1>2. /\ manifest' = manifest /\ points' = Without(Removed(i)) /\ snapshot' = snapshot
      /\ overlapped' = overlapped
  BY DEF DeleteRemoved, history
<1>3. i \in Active
  BY <1>1 DEF Active
<1>4. Changed(i)' = Changed(i) /\ Listed(ingest[i].corpus)' = listed
  BY <1>1, ChangedFollowsTheRun
<1>5. TypeOK'
  BY <1>1, <1>2, <1>4, TypedStep, RunsAreTyped, WithoutIsWellFormed DEF IndexInv
<1>6. ASSUME ~overlapped, NEW d \in Documents
      PROVE  /\ Whole(d)'
             /\ IF d \in listed
                THEN Stands(i, d)' /\ Stands(i, d) /\ StoredFor(d)' = StoredFor(d)
                ELSE StoredFor(d)' = {}
  <2>1. Stands(i, d) /\ Whole(d)
    BY <1>1, <1>6 DEF IndexInv, ReadInv
  <2>2. StoredFor(d)' = IF d \in Removed(i) THEN {} ELSE StoredFor(d)
    BY <1>2, WithoutDocuments
  <2>3. CASE d \in listed
    <3>1. StoredFor(d)' = StoredFor(d)
      BY <2>2, <2>3 DEF Removed
    <3>2. QED
      BY <1>1, <2>1, <2>3, <3>1, UntouchedDocuments, StandsStill
  <2>4. CASE d \notin listed
    <3>1. StoredFor(d)' = {}
      BY <2>1, <2>2, <2>4 DEF Removed, Stands
    <3>2. QED
      BY <2>4, <3>1 DEF Whole
  <2>5. QED
    BY <2>3, <2>4
<1>7. ASSUME ~overlapped PROVE ReadInv(i)'
  <2>1. \A d \in Documents : IF d \in listed THEN Stands(i, d)' ELSE StoredFor(d)' = {}
    BY <1>6, <1>7
  <2>2. QED
    BY <1>1, <1>4, <2>1 DEF ReadInv
<1>8. ASSUME ~overlapped, ingest'[i].at = "done" PROVE Caught(i)'
  <2>1. Changed(i) = {}
    BY <1>1, <1>8
  <2>2. ASSUME NEW d \in Documents PROVE CaughtUp(i, d)'
    <3>1. CASE d \in listed
      <4>1. StoredFor(d)' = StoredFor(d) /\ Holds(d, ingest[i].corpus[d].text)
        BY <1>6, <1>8, <2>1, <3>1, StandingDocument
      <4>2. Holds(d, ingest[i].corpus[d].text)'
        BY <1>1, <4>1, UntouchedDocuments
      <4>3. QED
        BY <1>1, <2>1, <3>1, <4>2, CaughtByDocument
    <3>2. CASE d \notin listed
      <4>1. StoredFor(d)' = {}
        BY <1>6, <1>8, <3>2
      <4>2. QED
        BY <1>1, <3>2, <4>1, CaughtByDocument
    <3>3. QED
      BY <3>1, <3>2
  <2>3. QED
    BY <2>2 DEF Caught
<1>9. QED
  BY <1>1, <1>2, <1>3, <1>5, <1>6, <1>7, <1>8, OneRunSteps

LEMMA EmbedStep ==
    ASSUME IndexInv, NEW i \in Ingests, Embed(i)
    PROVE  IndexInv'
<1>1. /\ ingest' \in [Ingests -> Run] /\ OtherRuns(i)
      /\ ingest[i].at = "embedding" /\ ingest'[i].at = "embedded"
      /\ ingest'[i].corpus = ingest[i].corpus /\ ingest'[i].stored = ingest[i].stored
  BY MoveRun, RunsAreTyped DEF IndexInv, Embed, Steps
<1>2. /\ manifest' = manifest /\ points' = points /\ snapshot' = snapshot
      /\ overlapped' = overlapped
  BY DEF Embed, history
<1>3. i \in Active
  BY <1>1 DEF Active
<1>4. Changed(i)' = Changed(i) /\ Changed(i) # {}
      /\ Listed(ingest[i].corpus)' = Listed(ingest[i].corpus)
  BY <1>1, ChangedFollowsTheRun, RunsAreTyped DEF IndexInv
<1>5. TypeOK'
  BY <1>1, <1>2, <1>4, TypedStep, RunsAreTyped DEF IndexInv
<1>6. ASSUME ~overlapped, NEW d \in Documents
      PROVE  Whole(d)' /\ IF d \in Listed(ingest[i].corpus) THEN Stands(i, d)'
                          ELSE StoredFor(d)' = {}
  <2>1. StoredFor(d)' = StoredFor(d) /\ Whole(d)
        /\ IF d \in Listed(ingest[i].corpus) THEN Stands(i, d) ELSE StoredFor(d) = {}
    BY <1>1, <1>2, <1>6, StayingPoints DEF IndexInv, ReadInv
  <2>2. QED
    BY <1>1, <2>1, UntouchedDocuments, StandsStill
<1>7. ASSUME ~overlapped PROVE ReadInv(i)'
  BY <1>1, <1>4, <1>6, <1>7 DEF ReadInv
<1>8. QED
  BY <1>1, <1>2, <1>3, <1>5, <1>6, <1>7, OneRunSteps

LEMMA DeleteChangedStep ==
    ASSUME IndexInv, NEW i \in Ingests, DeleteChanged(i)
    PROVE  IndexInv'
<1> DEFINE listed == Listed(ingest[i].corpus)
<1>1. /\ ingest' \in [Ingests -> Run] /\ OtherRuns(i)
      /\ ingest[i].at = "embedded" /\ ingest'[i].at = "writing"
      /\ ingest'[i].corpus = ingest[i].corpus /\ ingest'[i].stored = ingest[i].stored
  BY MoveRun, RunsAreTyped DEF IndexInv, DeleteChanged, Steps
<1>2. /\ manifest' = manifest /\ points' = Without(Changed(i)) /\ snapshot' = snapshot
      /\ overlapped' = overlapped
  BY DEF DeleteChanged, history
<1>3. i \in Active
  BY <1>1 DEF Active
<1>4. Changed(i)' = Changed(i) /\ Changed(i) # {} /\ Listed(ingest[i].corpus)' = listed
  BY <1>1, ChangedFollowsTheRun, RunsAreTyped DEF IndexInv
<1>5. TypeOK'
  BY <1>1, <1>2, <1>4, TypedStep, RunsAreTyped, WithoutIsWellFormed DEF IndexInv
<1>6. ASSUME ~overlapped, NEW d \in Documents
      PROVE  Whole(d)' /\ IF d \in listed \ Changed(i) THEN Stands(i, d)'
                          ELSE StoredFor(d)' = {}
  <2>1. /\ Whole(d)
        /\ IF d \in listed THEN Stands(i, d) ELSE StoredFor(d) = {}
    BY <1>1, <1>6 DEF IndexInv, ReadInv
  <2>2. StoredFor(d)' = IF d \in Changed(i) THEN {} ELSE StoredFor(d)
    BY <1>2, WithoutDocuments
  <2>3. CASE d \in listed \ Changed(i)
    BY <1>1, <2>1, <2>2, <2>3, UntouchedDocuments, StandsStill
  <2>4. CASE d \notin listed \ Changed(i)
    BY <2>1, <2>2, <2>4 DEF Whole
  <2>5. QED
    BY <2>3, <2>4
<1>7. ASSUME ~overlapped PROVE ReadInv(i)'
  BY <1>1, <1>4, <1>6, <1>7 DEF ReadInv
<1>8. QED
  BY <1>1, <1>2, <1>3, <1>5, <1>6, <1>7, OneRunSteps

LEMMA UpsertStep ==
    ASSUME IndexInv, NEW i \in Ingests, Upsert(i)
    PROVE  IndexInv'
<1> DEFINE listed == Listed(ingest[i].corpus)
           corpus == ingest[i].corpus
<1>1. /\ ingest' \in [Ingests -> Run] /\ OtherRuns(i)
      /\ ingest[i].at = "writing" /\ ingest'[i].at = "done"
      /\ ingest'[i].corpus = ingest[i].corpus /\ ingest'[i].stored = ingest[i].stored
  BY MoveRun, RunsAreTyped DEF IndexInv, Upsert, Steps
<1>2. /\ manifest' = manifest /\ points' = Upserted(Chunks(corpus, Changed(i)))
      /\ snapshot' = snapshot /\ overlapped' = overlapped
  BY DEF Upsert, history
<1>3. i \in Active
  BY <1>1 DEF Active
<1>4. corpus \in Corpora /\ Changed(i) \in SUBSET listed
  BY RunsAreTyped DEF IndexInv, Run, Changed
<1>5. TypeOK'
  BY <1>1, <1>2, <1>4, TypedStep, RunsAreTyped, UpsertedIsWellFormed DEF IndexInv
<1>6. ASSUME ~overlapped
      PROVE  \A d : StoredFor(d)' =
                IF d \in Changed(i) THEN ChunkDocument(d, corpus[d]) ELSE StoredFor(d)
  <2>1. \A d \in Changed(i) : StoredFor(d) = {}
    BY <1>1, <1>4, <1>6 DEF IndexInv, ReadInv, Listed
  <2>2. QED
    BY <1>2, <2>1, UpsertedDocuments
<1>7. ASSUME ~overlapped, NEW d \in Documents
      PROVE  Whole(d)' /\ CaughtUp(i, d)'
  <2>1. Whole(d) /\ IF d \in listed \ Changed(i) THEN Stands(i, d) ELSE StoredFor(d) = {}
    BY <1>1, <1>7 DEF IndexInv, ReadInv
  <2>2. CASE d \in Changed(i)
    <3>1. StoredFor(d)' = ChunkDocument(d, corpus[d])
      BY <1>6, <1>7, <2>2
    <3>2. corpus[d] \in Entries /\ corpus[d].text \in Hashes
      BY <1>4, <2>2, ListedVersions
    <3>3. StoredFor(d)' # {}
      BY <3>1, <3>2, VersionsHaveChunks
    <3>4. Holds(d, corpus[d].text)'
      BY <1>1, <3>1, <3>2, <3>3 DEF Holds
    <3>5. Whole(d)'
      BY <1>1, <3>2, <3>4 DEF Whole, Hashes
    <3>6. QED
      BY <1>1, <1>4, <2>2, <3>1, <3>4, <3>5, CaughtByDocument
  <2>3. CASE d \in listed \ Changed(i)
    <3>1. StoredFor(d)' = StoredFor(d) /\ Holds(d, corpus[d].text)
      BY <1>6, <1>7, <2>1, <2>3, StandingDocument
    <3>2. Holds(d, corpus[d].text)' /\ Whole(d)'
      BY <1>1, <2>1, <3>1, UntouchedDocuments
    <3>3. QED
      BY <1>1, <2>3, <3>2, CaughtByDocument
  <2>4. CASE d \notin listed
    <3>1. StoredFor(d)' = {}
      BY <1>4, <1>6, <1>7, <2>1, <2>4
    <3>2. CaughtUp(i, d)'
      BY <1>1, <2>4, <3>1, CaughtByDocument
    <3>3. QED
      BY <3>1, <3>2 DEF Whole
  <2>5. QED
    BY <2>2, <2>3, <2>4
<1>8. ReadInv(i)'
  BY <1>1 DEF ReadInv
<1>9. ASSUME ~overlapped PROVE Caught(i)'
  BY <1>7, <1>9 DEF Caught
<1>10. QED
  BY <1>1, <1>2, <1>3, <1>5, <1>7, <1>8, <1>9, OneRunSteps

LEMMA StopStep ==
    ASSUME IndexInv, NEW i \in Ingests, Stop(i)
    PROVE  IndexInv'
<1>1. /\ ingest' \in [Ingests -> Run] /\ OtherRuns(i) /\ ingest'[i].at = "dead"
  <2>1. ingest \in [Ingests -> Run] /\ ingest' = [ingest EXCEPT ![i].at = "dead"]
    BY RunsAreTyped DEF IndexInv, Stop
  <2>2. "dead" \in Steps
    BY DEF Steps
  <2>3. QED
    BY <2>1, <2>2 DEF Run, OtherRuns
<1>2. /\ manifest' = manifest /\ points' = points /\ snapshot' = snapshot
      /\ overlapped' = overlapped /\ i \in Active
  BY DEF Stop
<1>3. TypeOK'
  BY <1>1, <1>2, TypedStep, RunsAreTyped DEF IndexInv
<1>4. ASSUME ~overlapped, NEW d \in Documents PROVE Whole(d)'
  BY <1>2, <1>4, StayingPoints, UntouchedDocuments DEF IndexInv
<1>5. ReadInv(i)'
  BY <1>1 DEF ReadInv
<1>6. QED
  BY <1>1, <1>2, <1>3, <1>4, <1>5, OneRunSteps

\* Edits, servers and stuttering leave the index and the runs alone.
LEMMA OutsideStep ==
    ASSUME IndexInv, points' = points, ingest' = ingest, overlapped' = overlapped,
           manifest' \in Corpora, snapshot' \subseteq AllChunks
    PROVE  IndexInv'
<1>1. TypeOK'
  <2>1. \A i \in Ingests : Changed(i)' = Changed(i)
    BY DEF Changed, Listed
  <2>2. QED
    BY <2>1, RunsAreTyped DEF IndexInv, TypeOK, AllChunks
<1>2. /\ Active' = Active
      /\ \A i \in Ingests : LastStarted(i)' <=> LastStarted(i)
  BY DEF Active, LastStarted
<1>3. ASSUME ~overlapped
      PROVE  /\ OrderInv'
             /\ \A d \in Documents : Whole(d)'
             /\ \A i \in Ingests : ReadInv(i)'
  <2>1. OrderInv'
    <3>1. \A j \in Active' : LastStarted(j)'
      BY <1>2, <1>3 DEF IndexInv, OrderInv, Active
    <3>2. QED
      BY <1>3, <3>1 DEF IndexInv, OrderInv
  <2>2. \A d \in Documents : Whole(d)'
    BY <1>3, StayingPoints, UntouchedDocuments DEF IndexInv
  <2>3. ASSUME NEW i \in Ingests PROVE ReadInv(i)'
    <3>1. \A d \in Documents : Stands(i, d) => Stands(i, d)'
      BY StayingPoints, StandsStill
    <3>2. \A d \in Documents : StoredFor(d)' = StoredFor(d)
      BY StayingPoints
    <3>3. Changed(i)' = Changed(i) /\ Listed(ingest[i].corpus)' = Listed(ingest[i].corpus)
      BY DEF Changed, Listed
    <3>4. QED
      BY <1>3, <3>1, <3>2, <3>3 DEF IndexInv, ReadInv
  <2>4. QED
    BY <2>1, <2>2, <2>3
<1>4. IngestCatchesUp'
  BY <1>2 DEF IndexInv, IngestCatchesUp, CaughtUp, Holds, StoredFor, Changed, Listed
<1>5. QED
  BY <1>1, <1>3, <1>4 DEF IndexInv

-----------------------------------------------------------------------------
\* The inductive invariant holds however runs stop, overlap and the files change.
THEOREM IndexInvariant == Spec => []IndexInv
<1>1. IndexInv /\ [Next]_vars => IndexInv'
  <2> SUFFICES ASSUME IndexInv, [Next]_vars
               PROVE  IndexInv'
    OBVIOUS
  <2>t. manifest \in Corpora /\ snapshot \subseteq AllChunks /\ points \subseteq AllChunks
    BY DEF IndexInv, TypeOK, AllChunks
  <2>1. ASSUME NEW i \in Ingests,
               \/ LoadDocuments(i) \/ ReadHashes(i) \/ DeleteRemoved(i) \/ Embed(i)
               \/ DeleteChanged(i) \/ Upsert(i) \/ Stop(i)
        PROVE  IndexInv'
    BY <2>1, LoadStep, ReadStep, DeleteRemovedStep, EmbedStep, DeleteChangedStep,
       UpsertStep, StopStep
  <2>2. ASSUME NEW d \in Documents, Edit(d) PROVE IndexInv'
    <3>1. manifest' \in Corpora
      BY <2>2, <2>t DEF Edit, Corpora
    <3>2. QED
      BY <2>2, <2>t, <3>1, OutsideStep DEF Edit
  <2>3. CASE StartServer
    BY <2>3, <2>t, OutsideStep DEF StartServer, history
  <2>4. CASE UNCHANGED vars
    BY <2>4, <2>t, OutsideStep DEF vars, history
  <2>5. QED
    BY <2>1, <2>2, <2>3, <2>4 DEF Next
<1>2. QED
  BY InitEstablishes, <1>1, PTL DEF Spec

\* The collection holds well-formed chunks, one to an id.
THEOREM TypeCorrect == Spec => []TypeOK
<1>1. IndexInv => TypeOK
  BY DEF IndexInv
<1>2. QED
  BY <1>1, IndexInvariant, PTL

\* An ingest that had the index to itself leaves of each document the bodies it
\* loaded, cut and headed as in one version of it, and the version it loaded
\* where the text was new to the index, whatever interrupted runs had left.
THEOREM IngestsCatchUp == Spec => []IngestCatchesUp
<1>1. IndexInv => IngestCatchesUp
  BY DEF IndexInv
<1>2. QED
  BY <1>1, IndexInvariant, PTL

\* The step behind UntouchedStaysFindable, for a document that is deleted or
\* written although its text has not changed: there is none.
LEMMA SettledDocumentsStay ==
    ASSUME IndexInv, Next, ~overlapped', NEW d \in Documents, Settled(d)
    PROVE  StoredFor(d)' = StoredFor(d)
<1>1. manifest[d] \in Entries /\ manifest[d].text # "none"
      /\ Holds(d, manifest[d].text)
  BY IndexAssumption DEF IndexInv, TypeOK, Corpora, Settled
<1>2. CASE points' = points
  BY <1>2, StayingPoints
<1>3. ASSUME NEW i \in Ingests, DeleteRemoved(i) \/ DeleteChanged(i) \/ Upsert(i)
      PROVE  StoredFor(d)' = StoredFor(d)
  <2>1. /\ i \in Active /\ ~overlapped
        /\ \/ ingest[i].at = "compared" /\ points' = Without(Removed(i))
           \/ ingest[i].at = "embedded" /\ points' = Without(Changed(i))
           \/ ingest[i].at = "writing"
              /\ points' = Upserted(Chunks(ingest[i].corpus, Changed(i)))
    BY <1>3 DEF DeleteRemoved, DeleteChanged, Upsert, Moves, Active, history
  <2>2. ingest[i].corpus \in Corpora /\ ingest[i].corpus[d].text = manifest[d].text
    BY <2>1, RunsAreTyped DEF IndexInv, Run, Settled
  <2>3. d \in Listed(ingest[i].corpus)
    BY <1>1, <2>2, ListedVersions
  <2>4. CASE ingest[i].at = "compared" /\ points' = Without(Removed(i))
    BY <2>3, <2>4, WithoutDocuments DEF Removed
  <2>5. CASE ingest[i].at = "embedded" /\ points' = Without(Changed(i))
    <3>1. CASE d \notin Changed(i)
      BY <2>5, <3>1, WithoutDocuments
    <3>2. CASE d \in Changed(i)
      <4>1. Stands(i, d)
        BY <2>1, <2>3, <2>5 DEF IndexInv, ReadInv
      <4>2. StoredFor(d) = {}
        <5>1. SUFFICES ASSUME StoredFor(d) # {} PROVE FALSE
          OBVIOUS
        <5>2. PICK c \in StoredFor(d) : TRUE
          BY <5>1
        <5>3. HashOf(c) = ingest[i].stored[d]
          BY <4>1, <5>1, <5>2, ChunksAreMarked DEF Stands, Holds
        <5>4. HashOf(c) = manifest[d].text
          BY <1>1, <5>2, ChunksAreMarked DEF Holds
        <5>5. QED
          BY <2>2, <3>2, <5>3, <5>4 DEF Changed
      <4>3. QED
        BY <2>5, <3>2, <4>2, WithoutDocuments
    <3>3. QED
      BY <3>1, <3>2
  <2>6. CASE ingest[i].at = "writing"
             /\ points' = Upserted(Chunks(ingest[i].corpus, Changed(i)))
    <3>1. \A u \in Changed(i) : StoredFor(u) = {}
      BY <2>1, <2>6 DEF IndexInv, ReadInv, Changed, Listed
    <3>2. StoredFor(d)' = IF d \in Changed(i) THEN ChunkDocument(d, ingest[i].corpus[d])
                          ELSE StoredFor(d)
      BY <2>6, <3>1, UpsertedDocuments
    <3>3. CASE d \in Changed(i)
      BY <1>1, <3>1, <3>3 DEF Holds
    <3>4. QED
      BY <3>2, <3>3
  <2>7. QED
    BY <2>1, <2>4, <2>5, <2>6
<1>4. QED
  BY <1>2, <1>3
     DEF Next, LoadDocuments, ReadHashes, Embed, Stop, Edit, StartServer

\* A document nobody edits does not leave the index, not even for a moment,
\* as long as no two ingests have overlapped.
THEOREM UntouchedStays == Spec => UntouchedStaysFindable
<1>1. IndexInv /\ [Next]_vars =>
         [\A d \in Documents : ~overlapped' /\ Settled(d) => StoredFor(d)' = StoredFor(d)]_vars
  BY SettledDocumentsStay
<1>2. QED
  BY <1>1, IndexInvariant, PTL DEF Spec, UntouchedStaysFindable

-----------------------------------------------------------------------------
(***************************************************************************)
(* Fractions: which of two scores is the greater.                          *)
(***************************************************************************)
Positive == Nat \ {0}

LEMMA TimesOrder ==
    ASSUME NEW k \in Positive, NEW x \in Nat, NEW y \in Nat
    PROVE  /\ k * x \in Nat /\ k * y \in Nat
           /\ x <= y <=> k * x <= k * y
           /\ x < y <=> k * x < k * y
<1>1. k * x \in Nat /\ k * y \in Nat
  BY DEF Positive
<1>2. ASSUME NEW a \in Nat, NEW b \in Nat, a < b PROVE k * a < k * b
  <2>1. b - a \in Positive
    BY <1>2 DEF Positive
  <2>2. \A m \in Positive, n \in Positive : m * n \in Positive
    BY DEF Positive
  <2>3. k * (b - a) \in Positive
    BY <2>1, <2>2
  <2>4. k * (b - a) = k * b - k * a
    BY DEF Positive
  <2>5. k * a \in Nat /\ k * b \in Nat
    BY DEF Positive
  <2>6. QED
    BY <2>3, <2>4, <2>5 DEF Positive
<1>3. x < y => k * x < k * y
  BY <1>2
<1>4. y < x => k * y < k * x
  BY <1>2
<1>5. x = y => k * x = k * y
  OBVIOUS
<1> DEFINE kx == k * x
           ky == k * y
<1> HIDE DEF kx, ky
<1>6. /\ kx \in Nat /\ ky \in Nat
      /\ (x < y => kx < ky) /\ (y < x => ky < kx) /\ (x = y => kx = ky)
  BY <1>1, <1>3, <1>4, <1>5 DEF kx, ky
<1>7. (x <= y <=> kx <= ky) /\ (x < y <=> kx < ky)
  BY <1>6
<1>8. QED
  BY <1>1, <1>7 DEF kx, ky

Fractions == Positive \X Positive

AtLeast(f, g) == ~Exceeds(g, f)

LEMMA AtLeastIsTransitive ==
    ASSUME NEW f \in Fractions, NEW g \in Fractions, NEW h \in Fractions,
           AtLeast(f, g), AtLeast(g, h)
    PROVE  AtLeast(f, h)
<1> DEFINE a == f[1]
           b == f[2]
           c == g[1]
           d == g[2]
           e == h[1]
           k == h[2]
<1>1. /\ a \in Positive /\ b \in Positive /\ c \in Positive
      /\ d \in Positive /\ e \in Positive /\ k \in Positive
  BY DEF Fractions
<1>2. ~(c * b > a * d) /\ ~(e * d > c * k)
  BY DEF AtLeast, Exceeds
<1>3. AtLeast(f, h) <=> ~(e * b > a * k)
  BY DEF AtLeast, Exceeds
<1> HIDE DEF a, b, c, d, e, k
<1>4. \A m \in Positive, n \in Positive : m * n \in Nat
  BY DEF Positive
<1>5. /\ c * b \in Nat /\ a * d \in Nat /\ e * d \in Nat /\ c * k \in Nat
      /\ e * b \in Nat /\ a * k \in Nat
  BY <1>1, <1>4
<1>6. c * b <= a * d /\ e * d <= c * k
  BY <1>2, <1>5
<1>7. k * (c * b) <= k * (a * d)
  BY <1>1, <1>5, <1>6, TimesOrder
<1>8. b * (e * d) <= b * (c * k)
  BY <1>1, <1>5, <1>6, TimesOrder
<1>9. /\ k * (c * b) = b * (c * k)
      /\ k * (a * d) = d * (a * k)
      /\ b * (e * d) = d * (e * b)
  <2>1. ASSUME NEW x \in Nat, NEW y \in Nat, NEW z \in Nat
        PROVE  x * (y * z) = z * (y * x)
    OBVIOUS
  <2>2. \A x \in Positive : x \in Nat
    BY DEF Positive
  <2>3. QED
    BY <1>1, <2>1, <2>2
<1> DEFINE p == d * (e * b)
           q == b * (c * k)
           r == d * (a * k)
<1>10. p \in Nat /\ q \in Nat /\ r \in Nat
  BY <1>1, <1>5, TimesOrder
<1>11. p <= q /\ q <= r
  BY <1>7, <1>8, <1>9
<1> HIDE DEF p, q, r
<1>12. p <= r
  BY <1>10, <1>11
<1>13. d * (e * b) <= d * (a * k)
  BY <1>12 DEF p, r
<1>14. e * b <= a * k
  BY <1>1, <1>5, <1>13, TimesOrder
<1>15. QED
  BY <1>3, <1>5, <1>14

\* Exceeding is a strict order, and what neither exceeds the other ties.
LEMMA ExceedsIsAnOrder ==
    /\ \A f \in Fractions : ~Exceeds(f, f)
    /\ \A f, g \in Fractions : Exceeds(f, g) => AtLeast(f, g)
    /\ \A f, g, h \in Fractions :
          /\ AtLeast(f, g) /\ AtLeast(g, h) => AtLeast(f, h)
          /\ Exceeds(f, g) /\ AtLeast(g, h) => Exceeds(f, h)
          /\ AtLeast(f, g) /\ Exceeds(g, h) => Exceeds(f, h)
<1>0. \A m \in Positive, n \in Positive : m * n \in Nat
  BY DEF Positive
<1>1. ASSUME NEW f \in Fractions, NEW g \in Fractions
      PROVE  /\ ~Exceeds(f, f)
             /\ Exceeds(f, g) => AtLeast(f, g)
  <2>1. f[1] \in Positive /\ f[2] \in Positive /\ g[1] \in Positive /\ g[2] \in Positive
    BY DEF Fractions
  <2> DEFINE m == f[1] * g[2]
             n == g[1] * f[2]
             o == f[1] * f[2]
  <2>2. m \in Nat /\ n \in Nat /\ o \in Nat
    BY <1>0, <2>1
  <2>3. (Exceeds(f, g) <=> m > n) /\ (Exceeds(g, f) <=> n > m) /\ (Exceeds(f, f) <=> o > o)
    BY DEF Exceeds
  <2> HIDE DEF m, n, o
  <2>4. QED
    BY <2>2, <2>3 DEF AtLeast
<1>2. \A f, g, h \in Fractions : AtLeast(f, g) /\ AtLeast(g, h) => AtLeast(f, h)
  BY AtLeastIsTransitive
<1>3. \A f, g, h \in Fractions :
          /\ Exceeds(f, g) /\ AtLeast(g, h) => Exceeds(f, h)
          /\ AtLeast(f, g) /\ Exceeds(g, h) => Exceeds(f, h)
  BY <1>2 DEF AtLeast
<1>4. QED
  BY <1>1, <1>2, <1>3

-----------------------------------------------------------------------------
(***************************************************************************)
(* Fusion.                                                                 *)
(***************************************************************************)
Ranks == 1..CandidateLimit

LEMMA FusedCases ==
    /\ \A b : FusedScore(<<0, b>>) = <<1, RrfK + b>>
    /\ \A a \in Ranks : FusedScore(<<a, 0>>) = <<1, RrfK + a>>
    /\ \A a, b \in Ranks :
          FusedScore(<<a, b>>) = <<(RrfK + a) + (RrfK + b), (RrfK + a) * (RrfK + b)>>
<1>1. \A a, b : <<a, b>>[1] = a /\ <<a, b>>[2] = b
  OBVIOUS
<1>2. \A a \in Ranks : a # 0
  BY RetrievalAssumption DEF Ranks
<1>3. ASSUME NEW b PROVE FusedScore(<<0, b>>) = <<1, RrfK + b>>
  BY <1>1, Zenon DEF FusedScore
<1>4. ASSUME NEW a \in Ranks PROVE FusedScore(<<a, 0>>) = <<1, RrfK + a>>
  BY <1>1, <1>2, Zenon DEF FusedScore
<1>5. ASSUME NEW a \in Ranks, NEW b \in Ranks
      PROVE  FusedScore(<<a, b>>) = <<(RrfK + a) + (RrfK + b), (RrfK + a) * (RrfK + b)>>
  BY <1>1, <1>2, Zenon DEF FusedScore
<1>6. QED
  BY <1>3, <1>4, <1>5

LEMMA TimesPositive == \A m, n \in Positive : m * n \in Positive /\ m + n \in Positive
  BY DEF Positive

\* A passage some ranking holds has a score.
LEMMA ScoresAreFractions ==
    ASSUME NEW a \in Ranks \cup {0}, NEW b \in Ranks \cup {0}, a # 0 \/ b # 0
    PROVE  FusedScore(<<a, b>>) \in Fractions
<1>1. \A r \in Ranks : RrfK + r \in Positive
  BY RetrievalAssumption DEF Ranks, Positive
<1>2. 1 \in Positive
  BY DEF Positive
<1>3. CASE a = 0
  BY <1>1, <1>2, <1>3, FusedCases DEF Fractions
<1>4. CASE b = 0
  BY <1>1, <1>2, <1>4, FusedCases DEF Fractions
<1>5. CASE a \in Ranks /\ b \in Ranks
  <2>1. /\ (RrfK + a) + (RrfK + b) \in Positive
        /\ (RrfK + a) * (RrfK + b) \in Positive
    BY <1>1, <1>5, TimesPositive
  <2>2. QED
    BY <1>5, <2>1, FusedCases DEF Fractions
<1>6. QED
  BY <1>3, <1>4, <1>5

\* What both searches found scores more than what one of them found first:
\* here the candidates must not be too many.
LEMMA BothExceedOne ==
    ASSUME NEW a \in Ranks, NEW b \in Ranks, NEW c \in Ranks
    PROVE  /\ Exceeds(FusedScore(<<a, b>>), FusedScore(<<c, 0>>))
           /\ Exceeds(FusedScore(<<a, b>>), FusedScore(<<0, c>>))
<1> DEFINE x == RrfK + a
           y == RrfK + b
           z == RrfK + c
<1>1. /\ x \in Positive /\ y \in Positive /\ z \in Positive
      /\ x < z + z /\ y < z + z
  BY RetrievalAssumption DEF Ranks, Positive
<1>2. /\ FusedScore(<<a, b>>) = <<x + y, x * y>>
      /\ FusedScore(<<c, 0>>) = <<1, z>> /\ FusedScore(<<0, c>>) = <<1, z>>
  BY FusedCases
<1> HIDE DEF x, y, z
<1>3. x \in Nat /\ y \in Nat /\ z \in Nat /\ z + z \in Nat
  BY <1>1 DEF Positive
<1>4. y * x < y * (z + z) /\ x * y < x * (z + z)
  BY <1>1, <1>3, TimesOrder
<1>5. /\ y * x = x * y /\ y * (z + z) = y * z + y * z /\ x * (z + z) = x * z + x * z
      /\ (x + y) * z = x * z + y * z
      /\ 1 * (x * y) = x * y
  BY <1>3
<1>6. x * y \in Nat /\ x * z \in Nat /\ y * z \in Nat
  BY <1>3
<1> DEFINE p == x * y
           q == x * z
           r == y * z
           s == (x + y) * z
<1>7. p < r + r /\ p < q + q /\ s = q + r /\ p \in Nat /\ q \in Nat /\ r \in Nat
  BY <1>4, <1>5, <1>6
<1>8. Exceeds(<<x + y, x * y>>, <<1, z>>) <=> s > 1 * p
  BY DEF Exceeds
<1> HIDE DEF p, q, r, s
<1>9. s > 1 * p
  BY <1>7
<1>10. QED
  BY <1>2, <1>8, <1>9

\* A passage that both searches place before another scores more.
LEMMA AheadInBothExceeds ==
    ASSUME NEW a \in Ranks, NEW b \in Ranks, NEW c \in Ranks, NEW d \in Ranks,
           a < c, b < d
    PROVE  Exceeds(FusedScore(<<a, b>>), FusedScore(<<c, d>>))
<1> DEFINE x == RrfK + a
           y == RrfK + b
           u == RrfK + c
           v == RrfK + d
<1>1. /\ x \in Positive /\ y \in Positive /\ u \in Positive /\ v \in Positive
      /\ x < u /\ y < v
  BY RetrievalAssumption DEF Ranks, Positive
<1>2. /\ FusedScore(<<a, b>>) = <<x + y, x * y>>
      /\ FusedScore(<<c, d>>) = <<u + v, u * v>>
  BY FusedCases
<1> HIDE DEF x, y, u, v
<1>3. x \in Nat /\ y \in Nat /\ u \in Nat /\ v \in Nat
  BY <1>1 DEF Positive
<1>4. (x * u) \in Positive /\ (y * v) \in Positive
  BY <1>1, TimesPositive
<1>5. (x * u) * y < (x * u) * v /\ (y * v) * x < (y * v) * u
  BY <1>1, <1>3, <1>4, TimesOrder
<1>6. /\ (x + y) * (u * v) = (x * u) * v + (y * v) * u
      /\ (u + v) * (x * y) = (x * u) * y + (y * v) * x
  BY <1>3
<1>7. /\ (x * u) * y \in Nat /\ (x * u) * v \in Nat
      /\ (y * v) * x \in Nat /\ (y * v) * u \in Nat
  BY <1>3, <1>4, TimesOrder
<1> DEFINE p == (x * u) * y
           q == (x * u) * v
           r == (y * v) * x
           s == (y * v) * u
           t == (x + y) * (u * v)
           w == (u + v) * (x * y)
<1>8. p < q /\ r < s /\ t = q + s /\ w = p + r
      /\ p \in Nat /\ q \in Nat /\ r \in Nat /\ s \in Nat
  BY <1>5, <1>6, <1>7
<1>9. Exceeds(<<x + y, x * y>>, <<u + v, u * v>>) <=> t > w
  BY DEF Exceeds
<1> HIDE DEF p, q, r, s, t, w
<1>10. t > w
  BY <1>8
<1>11. QED
  BY <1>2, <1>9, <1>10

-----------------------------------------------------------------------------
(***************************************************************************)
(* Chunk ids are put in an order without ties.                             *)
(***************************************************************************)
Triples == Nat \X Nat \X Nat

LEMMA BeforeTriples ==
    ASSUME NEW x \in Triples, NEW y \in Triples
    PROVE  Before(x, y) <=> \/ x[1] < y[1]
                            \/ x[1] = y[1] /\ x[2] < y[2]
                            \/ x[1] = y[1] /\ x[2] = y[2] /\ x[3] < y[3]
<1>1. x = <<x[1], x[2], x[3]>>
  BY DEF Triples
<1>2. DOMAIN x = {1, 2, 3}
  <2>1. DOMAIN <<x[1], x[2], x[3]>> = 1..3
    OBVIOUS
  <2>2. 1..3 = {1, 2, 3}
    OBVIOUS
  <2>3. QED
    BY <1>1, <2>1, <2>2
<1>3. 1..(1 - 1) = {} /\ 1..(2 - 1) = {1} /\ 1..(3 - 1) = {1, 2}
  OBVIOUS
<1>4. QED
  BY <1>2, <1>3 DEF Before

LEMMA BeforeIsAnOrder ==
    /\ \A x \in Triples : ~Before(x, x)
    /\ \A x, y, z \in Triples : Before(x, y) /\ Before(y, z) => Before(x, z)
    /\ \A x, y \in Triples : x # y => Before(x, y) \/ Before(y, x)
<1>1. \A x \in Triples : x[1] \in Nat /\ x[2] \in Nat /\ x[3] \in Nat
                         /\ x = <<x[1], x[2], x[3]>>
  BY DEF Triples
<1>2. \A x \in Triples : ~Before(x, x)
  BY <1>1, BeforeTriples
<1>3. ASSUME NEW x \in Triples, NEW y \in Triples, NEW z \in Triples,
             Before(x, y), Before(y, z)
      PROVE  Before(x, z)
  BY <1>1, <1>3, BeforeTriples
<1>4. ASSUME NEW x \in Triples, NEW y \in Triples, x # y
      PROVE  Before(x, y) \/ Before(y, x)
  <2>1. x[1] # y[1] \/ x[2] # y[2] \/ x[3] # y[3]
    BY <1>1, <1>4, Zenon
  <2>2. QED
    BY <1>1, <2>1, BeforeTriples
<1>5. QED
  BY <1>2, <1>3, <1>4

\* The first elements of a set in an order without ties.
LEMMA PlacedInOrder ==
    ASSUME NEW S, IsFiniteSet(S), NEW R, Orders(R, S), NEW m \in Nat,
           m <= Cardinality(S), NEW seq \in Seq(S), Len(seq) = m,
           \A i \in 1..m : seq[i] = AtRank(R, S, i)
    PROVE  /\ \A i, j \in DOMAIN seq : i < j => <<seq[i], seq[j]>> \in R
           /\ \A i, j \in DOMAIN seq : seq[i] = seq[j] => i = j
           /\ m = Cardinality(S) => \A x \in S : \E i \in DOMAIN seq : seq[i] = x
<1> DEFINE n == Cardinality(S)
<1>1. n \in Nat /\ m <= n
  BY FS_CardinalityType
<1>2. /\ \A i \in 1..n : AtRank(R, S, i) \in S /\ Rank(R, S, AtRank(R, S, i)) = i
      /\ \A x \in S : Rank(R, S, x) \in 1..n /\ AtRank(R, S, Rank(R, S, x)) = x
      /\ \A i, j \in 1..n : i < j => <<AtRank(R, S, i), AtRank(R, S, j)>> \in R
  BY RanksAreTaken
<1> HIDE DEF n
<1>3. \A i \in 1..m : i \in 1..n
  BY <1>1
<1>4. \A i \in 1..m : seq[i] = AtRank(R, S, i) /\ AtRank(R, S, i) \in S
  BY <1>2, <1>3
<1>5. DOMAIN seq = 1..m
  OBVIOUS
<1>6. ASSUME NEW i \in 1..m, NEW j \in 1..m, i < j PROVE <<seq[i], seq[j]>> \in R
  BY <1>2, <1>3, <1>4, <1>6
<1>7. ASSUME NEW i \in 1..m, NEW j \in 1..m, seq[i] = seq[j] PROVE i = j
  <2>1. Rank(R, S, AtRank(R, S, i)) = i /\ Rank(R, S, AtRank(R, S, j)) = j
    BY <1>2, <1>3
  <2>2. AtRank(R, S, i) = AtRank(R, S, j)
    BY <1>4, <1>7
  <2>3. QED
    BY <2>1, <2>2
<1>8. ASSUME m = n, NEW x \in S PROVE \E i \in 1..m : seq[i] = x
  BY <1>2, <1>4, <1>8
<1>9. m = Cardinality(S) => \A x \in S : \E i \in 1..m : seq[i] = x
  BY <1>8 DEF n
<1>10. QED
  BY <1>5, <1>6, <1>7, <1>9

LEMMA PlacesAreASequence ==
    ASSUME NEW S, IsFiniteSet(S), NEW R, Orders(R, S), NEW m \in Nat,
           m <= Cardinality(S)
    PROVE  /\ [i \in 1..m |-> AtRank(R, S, i)] \in Seq(S)
           /\ Len([i \in 1..m |-> AtRank(R, S, i)]) = m
<1>1. \A i \in 1..m : AtRank(R, S, i) \in S
  <2>1. \A i \in 1..m : i \in 1..Cardinality(S)
    BY FS_CardinalityType
  <2>2. QED
    BY <2>1, RanksAreTaken
<1>2. QED
  BY <1>1

\* How many are placed when there may be no more than `limit'.
LEMMA HowManyArePlaced ==
    ASSUME NEW S, IsFiniteSet(S), NEW limit \in Nat
    PROVE  LET m == IF Cardinality(S) < limit THEN Cardinality(S) ELSE limit
           IN  /\ m \in 0..limit /\ m <= Cardinality(S)
               /\ m < limit => m = Cardinality(S)
  BY FS_CardinalityType

-----------------------------------------------------------------------------
(***************************************************************************)
(* The two rankings.                                                       *)
(***************************************************************************)
ScoreOrder(S, score) ==
    {p \in S \X S : \/ score[p[1]] > score[p[2]]
                    \/ score[p[1]] = score[p[2]] /\ Before(p[1].id, p[2].id)}

LEMMA ScoreOrderIsAnOrder ==
    ASSUME NEW S, NEW score \in [S -> Int], \A c \in S : c.id \in Triples, OneToAnId(S)
    PROVE  Orders(ScoreOrder(S, score), S)
<1> DEFINE R == ScoreOrder(S, score)
<1>1. \A c, e \in S : <<c, e>> \in R <=>
         \/ score[c] > score[e]
         \/ score[c] = score[e] /\ Before(c.id, e.id)
  BY DEF ScoreOrder
<1>2. \A c \in S : score[c] \in Int
  OBVIOUS
<1> HIDE DEF R
<1>3. ASSUME NEW c \in S PROVE <<c, c>> \notin R
  BY <1>1, <1>2, BeforeIsAnOrder
<1>4. ASSUME NEW c \in S, NEW e \in S, NEW k \in S, <<c, e>> \in R, <<e, k>> \in R
      PROVE  <<c, k>> \in R
  BY <1>1, <1>2, <1>4, BeforeIsAnOrder
<1>5. ASSUME NEW c \in S, NEW e \in S, c # e PROVE <<c, e>> \in R \/ <<e, c>> \in R
  <2>1. c.id # e.id
    BY <1>5 DEF OneToAnId
  <2>2. Before(c.id, e.id) \/ Before(e.id, c.id)
    BY <2>1, BeforeIsAnOrder
  <2>3. QED
    BY <1>1, <1>2, <2>2
<1>6. QED
  BY <1>3, <1>4, <1>5 DEF Orders, R

\* A ranking holds no more candidates than it may, and each id once.
IsRanking(ranking, S) ==
    /\ ranking \in Seq(S) /\ Len(ranking) \in 0..CandidateLimit
    /\ \A i, j \in DOMAIN ranking : ranking[i].id = ranking[j].id => i = j

LEMMA RankedByScore ==
    ASSUME NEW S, IsFiniteSet(S), NEW score \in [S -> Int],
           \A c \in S : c.id \in Triples, OneToAnId(S),
           NEW m \in 0..CandidateLimit, m <= Cardinality(S), NEW ranking,
           ranking = [i \in 1..m |-> AtRank(ScoreOrder(S, score), S, i)]
    PROVE  IsRanking(ranking, S)
<1>1. Orders(ScoreOrder(S, score), S)
  BY ScoreOrderIsAnOrder
<1>2. m \in Nat
  BY RetrievalAssumption
<1>3. /\ ranking \in Seq(S) /\ Len(ranking) = m
      /\ \A i, j \in DOMAIN ranking : ranking[i] = ranking[j] => i = j
  <2>1. ranking \in Seq(S) /\ Len(ranking) = m
    BY <1>1, <1>2, PlacesAreASequence
  <2>2. \A i \in 1..m : ranking[i] = AtRank(ScoreOrder(S, score), S, i)
    OBVIOUS
  <2>3. QED
    BY <1>1, <1>2, <2>1, <2>2, PlacedInOrder
<1>4. \A i \in DOMAIN ranking : ranking[i] \in S
  BY <1>3
<1>5. \A i, j \in DOMAIN ranking : ranking[i].id = ranking[j].id => i = j
  BY <1>3, <1>4 DEF OneToAnId
<1>6. QED
  BY <1>3, <1>5 DEF IsRanking

LEMMA RankedBySimilarity ==
    ASSUME NEW S, IsFiniteSet(S), \A c \in S : c.id \in Triples, OneToAnId(S),
           \A c \in S : Similarity(c.passage) \in Int
    PROVE  IsRanking(Ranking(S, Similarity), S)
<1> DEFINE score == [c \in S |-> Similarity(c.passage)]
           R == ScoreOrder(S, score)
<1>1. score \in [S -> Int] /\ \A c \in S : score[c] = Similarity(c.passage)
  OBVIOUS
<1>2. ASSUME NEW c \in S
      PROVE  {e \in S : \/ Similarity(e.passage) > Similarity(c.passage)
                        \/ Similarity(e.passage) = Similarity(c.passage) /\ Before(e.id, c.id)}
             = AheadOf(R, S, c)
  BY <1>1 DEF AheadOf, ScoreOrder
<1> HIDE DEF score, R
<1> DEFINE m == IF Cardinality(S) < CandidateLimit THEN Cardinality(S) ELSE CandidateLimit
           Placed(i) == CHOOSE x \in S :
              Cardinality({y \in S : \/ Similarity(y.passage) > Similarity(x.passage)
                                     \/ Similarity(y.passage) = Similarity(x.passage)
                                        /\ Before(y.id, x.id)}) = i - 1
<1>3. ASSUME NEW i PROVE Placed(i) = AtRank(R, S, i)
  BY <1>2 DEF AtRank
<1>4. Ranking(S, Similarity) = [i \in 1..m |-> Placed(i)]
  BY DEF Ranking, InOrder
<1>5. m \in 0..CandidateLimit /\ m <= Cardinality(S)
  BY HowManyArePlaced, RetrievalAssumption
<1> HIDE DEF m, Placed
<1>6. Ranking(S, Similarity) = [i \in 1..m |-> AtRank(R, S, i)]
  BY <1>3, <1>4
<1>7. QED
  BY <1>1, <1>5, <1>6, RankedByScore DEF R

LEMMA RankedByOverlap ==
    ASSUME NEW S, IsFiniteSet(S), \A c \in S : c.id \in Triples, OneToAnId(S),
           \A c \in S : Overlap(c.passage) \in Int
    PROVE  IsRanking(Ranking(S, Overlap), S)
<1> DEFINE score == [c \in S |-> Overlap(c.passage)]
           R == ScoreOrder(S, score)
<1>1. score \in [S -> Int] /\ \A c \in S : score[c] = Overlap(c.passage)
  OBVIOUS
<1>2. ASSUME NEW c \in S
      PROVE  {e \in S : \/ Overlap(e.passage) > Overlap(c.passage)
                        \/ Overlap(e.passage) = Overlap(c.passage) /\ Before(e.id, c.id)}
             = AheadOf(R, S, c)
  BY <1>1 DEF AheadOf, ScoreOrder
<1> HIDE DEF score, R
<1> DEFINE m == IF Cardinality(S) < CandidateLimit THEN Cardinality(S) ELSE CandidateLimit
           Placed(i) == CHOOSE x \in S :
              Cardinality({y \in S : \/ Overlap(y.passage) > Overlap(x.passage)
                                     \/ Overlap(y.passage) = Overlap(x.passage)
                                        /\ Before(y.id, x.id)}) = i - 1
<1>3. ASSUME NEW i PROVE Placed(i) = AtRank(R, S, i)
  BY <1>2 DEF AtRank
<1>4. Ranking(S, Overlap) = [i \in 1..m |-> Placed(i)]
  BY DEF Ranking, InOrder
<1>5. m \in 0..CandidateLimit /\ m <= Cardinality(S)
  BY HowManyArePlaced, RetrievalAssumption
<1> HIDE DEF m, Placed
<1>6. Ranking(S, Overlap) = [i \in 1..m |-> AtRank(R, S, i)]
  BY <1>3, <1>4
<1>7. QED
  BY <1>1, <1>5, <1>6, RankedByScore DEF R

\* What is near is picked from the ranking: its ids are distinct too.
LEMMA PickedRanking ==
    ASSUME NEW S, NEW ranking, IsRanking(ranking, S), NEW places \in SUBSET DOMAIN ranking
    PROVE  /\ IsRanking(Picked(ranking, places), S)
           /\ \A i \in DOMAIN Picked(ranking, places) :
                 \E k \in places : Picked(ranking, places)[i] = ranking[k]
<1> DEFINE near == Picked(ranking, places)
<1>1. /\ ranking \in Seq(S) /\ Len(ranking) \in 0..CandidateLimit
      /\ \A i, j \in DOMAIN ranking : ranking[i].id = ranking[j].id => i = j
  BY DEF IsRanking
<1>2. /\ near \in Seq(S) /\ Len(near) = Cardinality(places)
      /\ Cardinality(places) <= Len(ranking)
      /\ \A i \in DOMAIN near : Nth(places, i) \in places /\ near[i] = ranking[Nth(places, i)]
      /\ \A i, j \in DOMAIN near : i < j => Nth(places, i) < Nth(places, j)
  BY <1>1, PickedKeepsOrder
<1> HIDE DEF near
<1>3. Len(near) \in 0..CandidateLimit
  <2>1. Len(near) \in Nat /\ Len(near) <= Len(ranking)
    BY <1>2
  <2>2. QED
    BY <1>1, <2>1, RetrievalAssumption
<1>4. ASSUME NEW i \in DOMAIN near, NEW j \in DOMAIN near, near[i].id = near[j].id
      PROVE  i = j
  <2>1. Nth(places, i) = Nth(places, j)
    BY <1>1, <1>2, <1>4
  <2>2. Nth(places, i) \in Int /\ i \in Int /\ j \in Int
    BY <1>1, <1>2
  <2>3. ~(i < j) /\ ~(j < i)
    BY <1>2, <2>1, <2>2
  <2>4. QED
    BY <2>2, <2>3
<1>5. QED
  BY <1>2, <1>3, <1>4 DEF IsRanking, near

\* The rank of a passage is where the ranking holds it, or 0.
LEMMA RankInRanking ==
    ASSUME NEW S, NEW ranking, IsRanking(ranking, S), NEW id
    PROVE  /\ id \in IdsOf(ranking) =>
                 /\ RankIn(ranking, id) \in DOMAIN ranking
                 /\ RankIn(ranking, id) \in Ranks
                 /\ ranking[RankIn(ranking, id)].id = id
                 /\ ranking[RankIn(ranking, id)] \in S
           /\ id \notin IdsOf(ranking) => RankIn(ranking, id) = 0
<1>1. ranking \in Seq(S) /\ DOMAIN ranking = 1..Len(ranking) /\ Len(ranking) \in Nat
      /\ Len(ranking) <= CandidateLimit
  BY RetrievalAssumption DEF IsRanking
<1>2. DOMAIN ranking \subseteq Ranks
  BY <1>1, RetrievalAssumption DEF Ranks
<1>3. ASSUME id \in IdsOf(ranking)
      PROVE  RankIn(ranking, id) \in DOMAIN ranking /\ ranking[RankIn(ranking, id)].id = id
  <2>1. \E i \in DOMAIN ranking : ranking[i].id = id
    BY <1>3 DEF IdsOf
  <2>2. RankIn(ranking, id) = CHOOSE i \in DOMAIN ranking : ranking[i].id = id
    BY <1>3 DEF RankIn
  <2>3. QED
    BY <2>1, <2>2
<1>4. id \notin IdsOf(ranking) => RankIn(ranking, id) = 0
  BY DEF RankIn
<1>5. QED
  BY <1>1, <1>2, <1>3, <1>4

LEMMA FiniteIds ==
    ASSUME NEW S, NEW ranking, IsRanking(ranking, S)
    PROVE  IsFiniteSet(IdsOf(ranking))
<1> DEFINE f == [i \in DOMAIN ranking |-> ranking[i].id]
<1>1. DOMAIN ranking = 1..Len(ranking) /\ Len(ranking) \in Nat
  BY DEF IsRanking
<1>2. IsFiniteSet(DOMAIN ranking)
  BY <1>1, FS_Interval
<1>3. f \in Surjection(DOMAIN ranking, IdsOf(ranking))
  BY DEF Surjection, IdsOf
<1>4. QED
  BY <1>2, <1>3, FS_Surjection

\* The order of the fused passages, on what the two rankings found.
FusedOrder(ids, score) ==
    {p \in ids \X ids : \/ Exceeds(score[p[1]], score[p[2]])
                        \/ ~Exceeds(score[p[2]], score[p[1]]) /\ Before(p[1], p[2])}

LEMMA FusedOrderIsAnOrder ==
    ASSUME NEW ids \in SUBSET Triples, NEW score \in [ids -> Fractions]
    PROVE  Orders(FusedOrder(ids, score), ids)
<1> DEFINE R == FusedOrder(ids, score)
<1>1. \A x, y \in ids : <<x, y>> \in R <=>
         \/ Exceeds(score[x], score[y])
         \/ AtLeast(score[x], score[y]) /\ Before(x, y)
  BY DEF FusedOrder, AtLeast
<1>2. \A x \in ids : score[x] \in Fractions /\ x \in Triples
  OBVIOUS
<1> HIDE DEF R
<1>3. ASSUME NEW x \in ids PROVE <<x, x>> \notin R
  BY <1>1, <1>2, BeforeIsAnOrder, ExceedsIsAnOrder
<1>4. ASSUME NEW x \in ids, NEW y \in ids, NEW z \in ids, <<x, y>> \in R, <<y, z>> \in R
      PROVE  <<x, z>> \in R
  <2>1. AtLeast(score[x], score[y]) /\ AtLeast(score[y], score[z])
    BY <1>1, <1>2, <1>4, ExceedsIsAnOrder
  <2>2. CASE Exceeds(score[x], score[y]) \/ Exceeds(score[y], score[z])
    BY <1>1, <1>2, <2>1, <2>2, ExceedsIsAnOrder
  <2>3. CASE ~Exceeds(score[x], score[y]) /\ ~Exceeds(score[y], score[z])
    <3>1. Before(x, y) /\ Before(y, z)
      BY <1>1, <1>4, <2>3
    <3>2. Before(x, z)
      BY <1>2, <3>1, BeforeIsAnOrder
    <3>3. AtLeast(score[x], score[z])
      BY <1>2, <2>1, ExceedsIsAnOrder
    <3>4. QED
      BY <1>1, <3>2, <3>3
  <2>4. QED
    BY <2>2, <2>3
<1>5. ASSUME NEW x \in ids, NEW y \in ids, x # y PROVE <<x, y>> \in R \/ <<y, x>> \in R
  <2>1. Before(x, y) \/ Before(y, x)
    BY <1>2, <1>5, BeforeIsAnOrder
  <2>2. QED
    BY <1>1, <2>1 DEF AtLeast
<1>6. QED
  BY <1>3, <1>4, <1>5 DEF Orders, R

\* What is fused.
FusedIds(dense, lexical) == IdsOf(dense) \cup IdsOf(lexical)

FusedScores(dense, lexical) ==
    [id \in FusedIds(dense, lexical) |->
        FusedScore(<<RankIn(dense, id), RankIn(lexical, id)>>)]

CopyOf(dense, lexical, id) ==
    IF id \in IdsOf(dense) THEN dense[RankIn(dense, id)] ELSE lexical[RankIn(lexical, id)]

\* How the fused passages are chosen: by score, then by id.
LEMMA FusedInOrder ==
    ASSUME NEW dense, NEW lexical, NEW limit \in Nat, IsFiniteSet(FusedIds(dense, lexical))
    PROVE  LET ids == FusedIds(dense, lexical)
               R == FusedOrder(ids, FusedScores(dense, lexical))
           IN  \E m \in 0..limit :
                  /\ m <= Cardinality(ids) /\ (m < limit => m = Cardinality(ids))
                  /\ Fuse(dense, lexical, limit) =
                        [i \in 1..m |-> CopyOf(dense, lexical, AtRank(R, ids, i))]
<1> DEFINE ids == FusedIds(dense, lexical)
           score == FusedScores(dense, lexical)
           R == FusedOrder(ids, score)
           m == IF Cardinality(ids) < limit THEN Cardinality(ids) ELSE limit
           Copy(id) == CopyOf(dense, lexical, id)
           Placed(i) == CHOOSE x \in ids :
              Cardinality({y \in ids :
                 \/ Exceeds(score[y], score[x])
                 \/ ~Exceeds(score[x], score[y]) /\ Before(y, x)}) = i - 1
           order == [i \in 1..m |-> Placed(i)]
<1>1. m \in 0..limit /\ m <= Cardinality(ids) /\ (m < limit => m = Cardinality(ids))
  BY HowManyArePlaced
<1>2. ASSUME NEW x \in ids
      PROVE  {y \in ids : \/ Exceeds(score[y], score[x])
                          \/ ~Exceeds(score[x], score[y]) /\ Before(y, x)}
             = AheadOf(R, ids, x)
  <2> HIDE DEF ids, score
  <2>1. ASSUME NEW y \in ids
        PROVE  <<y, x>> \in R <=> (Exceeds(score[y], score[x])
                                   \/ (~Exceeds(score[x], score[y]) /\ Before(y, x)))
    BY DEF FusedOrder
  <2> HIDE DEF R
  <2>2. QED
    BY <2>1 DEF AheadOf
<1> HIDE DEF R
<1>3. ASSUME NEW i PROVE Placed(i) = AtRank(R, ids, i)
  BY <1>2 DEF AtRank
<1>4. Fuse(dense, lexical, limit) = [i \in DOMAIN order |-> Copy(order[i])]
  BY DEF Fuse, InOrder, FusedIds, FusedScores, CopyOf
<1> HIDE DEF m, Placed, Copy, ids, score
<1>5. DOMAIN order = 1..m /\ \A i \in 1..m : order[i] = AtRank(R, ids, i)
  BY <1>3
<1> HIDE DEF order
<1>6. Fuse(dense, lexical, limit) = [i \in 1..m |-> Copy(AtRank(R, ids, i))]
  BY <1>4, <1>5
<1>7. QED
  BY <1>1, <1>6 DEF Copy, R, ids, score

\* What a search over two rankings of chunks promises.
Agrees(hits, dense, lexical, both, limit, chunks) ==
    /\ \A i \in DOMAIN hits : hits[i] \in chunks
    /\ \A i, j \in DOMAIN hits : i < j =>
          /\ hits[j].id \in both => hits[i].id \in both
          /\ {hits[i].id, hits[j].id} \subseteq both =>
                ~(/\ RankIn(dense, hits[j].id) < RankIn(dense, hits[i].id)
                  /\ RankIn(lexical, hits[j].id) < RankIn(lexical, hits[i].id))
    /\ \A id \in both : Len(hits) < limit => id \in IdsOf(hits)

LEMMA FusionAgrees ==
    ASSUME NEW D, NEW L, \A c \in D \cup L : c.id \in Triples,
           NEW dense, IsRanking(dense, D), NEW lexical, IsRanking(lexical, L),
           NEW limit \in Nat, NEW hits, hits = Fuse(dense, lexical, limit),
           NEW both, both = IdsOf(dense) \cap IdsOf(lexical)
    PROVE  Agrees(hits, dense, lexical, both, limit, D \cup L)
<1> DEFINE ids == FusedIds(dense, lexical)
           Score(id) == FusedScore(<<RankIn(dense, id), RankIn(lexical, id)>>)
           score == FusedScores(dense, lexical)
           R == FusedOrder(ids, score)
           Copy(id) == CopyOf(dense, lexical, id)
<1>1. IsFiniteSet(ids)
  BY FiniteIds, FS_Union DEF FusedIds
<1>2. /\ \A id \in IdsOf(dense) :
            /\ RankIn(dense, id) \in Ranks
            /\ dense[RankIn(dense, id)] \in D /\ dense[RankIn(dense, id)].id = id
      /\ \A id : id \notin IdsOf(dense) => RankIn(dense, id) = 0
  BY RankInRanking
<1>3. /\ \A id \in IdsOf(lexical) :
            /\ RankIn(lexical, id) \in Ranks
            /\ lexical[RankIn(lexical, id)] \in L /\ lexical[RankIn(lexical, id)].id = id
      /\ \A id : id \notin IdsOf(lexical) => RankIn(lexical, id) = 0
  BY RankInRanking
<1>4. ASSUME NEW id \in ids
      PROVE  /\ Copy(id) \in D \cup L /\ Copy(id).id = id
             /\ id \in Triples
             /\ Score(id) \in Fractions
  <2>1. Copy(id) \in D \cup L /\ Copy(id).id = id
    BY <1>2, <1>3 DEF FusedIds, CopyOf
  <2>2. id \in Triples
    BY <2>1
  <2>3. /\ RankIn(dense, id) \in Ranks \cup {0} /\ RankIn(lexical, id) \in Ranks \cup {0}
        /\ RankIn(dense, id) # 0 \/ RankIn(lexical, id) # 0
    BY <1>2, <1>3 DEF Ranks, FusedIds
  <2>4. QED
    BY <2>1, <2>2, <2>3, ScoresAreFractions
<1>5. ASSUME NEW x \in both, NEW y \in ids \ both
      PROVE  Exceeds(Score(x), Score(y))
  <2>1. RankIn(dense, x) \in Ranks /\ RankIn(lexical, x) \in Ranks
    BY <1>2, <1>3
  <2>2. \/ RankIn(dense, y) \in Ranks /\ RankIn(lexical, y) = 0
        \/ RankIn(dense, y) = 0 /\ RankIn(lexical, y) \in Ranks
    BY <1>2, <1>3 DEF FusedIds
  <2>3. QED
    BY <2>1, <2>2, BothExceedOne
<1>6. ASSUME NEW x \in both, NEW y \in both, RankIn(dense, x) < RankIn(dense, y),
             RankIn(lexical, x) < RankIn(lexical, y)
      PROVE  Exceeds(Score(x), Score(y))
  BY <1>2, <1>3, <1>6, AheadInBothExceeds
<1>f. \E m \in 0..limit :
         /\ m <= Cardinality(ids) /\ (m < limit => m = Cardinality(ids))
         /\ Fuse(dense, lexical, limit) = [i \in 1..m |-> Copy(AtRank(R, ids, i))]
  BY <1>1, FusedInOrder
<1>7. PICK m \in 0..limit :
         /\ m <= Cardinality(ids) /\ (m < limit => m = Cardinality(ids))
         /\ hits = [i \in 1..m |-> Copy(AtRank(R, ids, i))]
  <2> HIDE DEF ids, R, Copy
  <2>1. QED
    BY <1>f
<1>8. score \in [ids -> Fractions] /\ ids \in SUBSET Triples
      /\ \A id \in ids : score[id] = Score(id)
  BY <1>4 DEF FusedScores
<1>9. Orders(R, ids)
  BY <1>8, FusedOrderIsAnOrder
<1>10. \A x, y \in ids : <<x, y>> \in R => ~Exceeds(Score(y), Score(x))
  <2>1. \A x, y \in ids : <<x, y>> \in R =>
           Exceeds(score[x], score[y]) \/ ~Exceeds(score[y], score[x])
    BY DEF FusedOrder
  <2>2. \A x, y \in ids : Exceeds(score[x], score[y]) => ~Exceeds(score[y], score[x])
    BY <1>8, ExceedsIsAnOrder DEF AtLeast
  <2>3. QED
    BY <1>8, <2>1, <2>2
<1> DEFINE seq == [i \in 1..m |-> AtRank(R, ids, i)]
<1> HIDE DEF ids, R, Copy, score, Score
<1>11. m \in Nat /\ m <= Cardinality(ids) /\ seq = [i \in 1..m |-> AtRank(R, ids, i)]
  BY <1>7
<1> HIDE DEF seq
<1>12. /\ seq \in Seq(ids) /\ Len(seq) = m
       /\ \A i, j \in DOMAIN seq : i < j => <<seq[i], seq[j]>> \in R
       /\ m = Cardinality(ids) => \A x \in ids : \E i \in DOMAIN seq : seq[i] = x
  <2>1. m \in Nat /\ m <= Cardinality(ids) /\ \A i \in 1..m : seq[i] = AtRank(R, ids, i)
    BY <1>11
  <2>2. seq \in Seq(ids) /\ Len(seq) = m
    <3>1. /\ [i \in 1..m |-> AtRank(R, ids, i)] \in Seq(ids)
          /\ Len([i \in 1..m |-> AtRank(R, ids, i)]) = m
      BY <1>1, <1>9, <2>1, PlacesAreASequence
    <3>2. QED
      BY <1>11, <3>1
  <2>3. QED
    BY <1>1, <1>9, <2>1, <2>2, PlacedInOrder
<1>13. DOMAIN seq = 1..m /\ \A i \in 1..m : seq[i] \in ids /\ seq[i] = AtRank(R, ids, i)
  BY <1>11, <1>12
<1>14. /\ DOMAIN hits = 1..m /\ Len(hits) = m
       /\ \A i \in 1..m : hits[i] = Copy(seq[i])
  BY <1>7, <1>11, <1>13
<1>15. \A i \in 1..m : hits[i] \in D \cup L /\ hits[i].id = seq[i]
  BY <1>4, <1>13, <1>14
<1>16. ASSUME NEW i \in 1..m, NEW j \in 1..m, i < j
       PROVE  ~Exceeds(Score(hits[j].id), Score(hits[i].id))
              /\ hits[i].id \in ids /\ hits[j].id \in ids
  BY <1>10, <1>12, <1>13, <1>15, <1>16
<1>17. ASSUME NEW id \in both, Len(hits) < limit PROVE id \in IdsOf(hits)
  <2>1. id \in ids /\ m = Cardinality(ids)
    BY <1>7, <1>14, <1>17 DEF ids, FusedIds
  <2>2. PICK i \in 1..m : seq[i] = id
    BY <1>12, <1>13, <2>1
  <2>3. QED
    BY <1>14, <1>15, <2>2 DEF IdsOf
<1>18. ASSUME NEW i \in 1..m, NEW j \in 1..m, i < j
       PROVE  /\ hits[j].id \in both => hits[i].id \in both
              /\ {hits[i].id, hits[j].id} \subseteq both =>
                    ~(/\ RankIn(dense, hits[j].id) < RankIn(dense, hits[i].id)
                      /\ RankIn(lexical, hits[j].id) < RankIn(lexical, hits[i].id))
  BY <1>5, <1>6, <1>16, <1>18
<1>19. QED
  BY <1>14, <1>15, <1>17, <1>18 DEF Agrees

-----------------------------------------------------------------------------
(***************************************************************************)
(* Both indexes stay finite, with one chunk to an id.                      *)
(***************************************************************************)
LEMMA FiniteParts ==
    ASSUME NEW n \in Nat \ {0}
    PROVE  IsFiniteSet(Parts(n)) /\ Parts(n) \subseteq Nat
<1>1. \A m \in Nat : IsFiniteSet(1..m)
  BY FS_Interval
<1>2. IsFiniteSet({0})
  BY FS_Singleton
<1>3. QED
  BY <1>1, <1>2 DEF Parts

LEMMA ChunksOfADocument ==
    ASSUME NEW d \in Documents, NEW e \in Entries
    PROVE  /\ IsFiniteSet(ChunkDocument(d, e))
           /\ \A c \in ChunkDocument(d, e) : c.id \in Triples
<1> DEFINE sections == SectionsOf(e)
           Place(s) == {s} \X Parts(sections[s])
           blocks == {Place(s) : s \in DOMAIN sections}
           Made(p) == [id |-> <<d, p[1], p[2]>>, passage |-> <<e.text, e.header, p[1], p[2]>>,
                       project |-> e.project, scope |-> e.scope]
<1>1. /\ sections \in Seq(Nat \ {0}) /\ DOMAIN sections = 1..Len(sections)
      /\ Len(sections) \in Nat /\ d \in Nat
  BY IndexAssumption DEF SectionsOf
<1>2. \A s \in DOMAIN sections : s \in Nat /\ sections[s] \in Nat \ {0}
  BY <1>1
<1> HIDE DEF sections
<1>3. IsFiniteSet(DOMAIN sections)
  BY <1>1, FS_Interval
<1>4. IsFiniteSet(blocks)
  <2> DEFINE f == [s \in DOMAIN sections |-> Place(s)]
  <2>1. f \in Surjection(DOMAIN sections, blocks)
    BY DEF Surjection
  <2>2. QED
    BY <1>3, <2>1, FS_Surjection
<1>5. ASSUME NEW s \in DOMAIN sections PROVE IsFiniteSet(Place(s))
  BY <1>2, FiniteParts, FS_Singleton, FS_Product
<1>6. IsFiniteSet(UNION blocks)
  BY <1>4, <1>5, FS_UNION
<1>7. ChunkDocument(d, e) = {Made(p) : p \in UNION blocks}
  BY DEF ChunkDocument, sections
<1>8. IsFiniteSet({Made(p) : p \in UNION blocks})
  <2> DEFINE places == UNION blocks
             made == {Made(p) : p \in places}
             f == [p \in places |-> Made(p)]
  <2>1. f \in Surjection(places, made)
    <3> HIDE DEF Made, places
    <3>1. QED
      BY DEF Surjection
  <2>2. QED
    BY <1>6, <2>1, FS_Surjection
<1>9. ASSUME NEW p \in UNION blocks PROVE <<d, p[1], p[2]>> \in Triples
  <2>1. PICK s \in DOMAIN sections : p \in Place(s)
    BY <1>9
  <2>2. p[1] = s /\ p[2] \in Parts(sections[s])
    BY <2>1
  <2>3. QED
    BY <1>1, <1>2, <2>2, FiniteParts DEF Triples
<1>10. QED
  BY <1>7, <1>8, <1>9

LEMMA FiniteChunks ==
    ASSUME NEW corpus \in Corpora, NEW docs \in SUBSET Listed(corpus)
    PROVE  IsFiniteSet(Chunks(corpus, docs))
<1> DEFINE Of(d) == ChunkDocument(d, corpus[d])
           sets == {Of(d) : d \in docs}
           f == [d \in docs |-> Of(d)]
<1>1. docs \in SUBSET Documents
  BY DEF Listed
<1>2. IsFiniteSet(docs)
  BY <1>1, IndexAssumption, FS_Subset
<1>3. \A d \in docs : IsFiniteSet(Of(d))
  BY <1>1, ListedVersions, ChunksOfADocument
<1> HIDE DEF Of
<1>4. f \in Surjection(docs, sets)
  BY DEF Surjection
<1>5. IsFiniteSet(sets)
  BY <1>2, <1>4, FS_Surjection
<1>6. IsFiniteSet(UNION sets)
  BY <1>3, <1>5, FS_UNION
<1>7. QED
  BY <1>6 DEF Chunks, Of

LEMMA SearchStep ==
    ASSUME IndexInv, SearchInv, [Next]_vars
    PROVE  SearchInv'
<1>1. OneToAnId(points)
  BY DEF IndexInv, TypeOK, OneToAnId
<1>2. \A docs : IsFiniteSet(Without(docs))
  <2>1. \A docs : Without(docs) \in SUBSET points
    BY DEF Without
  <2>2. QED
    BY <2>1, FS_Subset DEF SearchInv
<1>3. ASSUME NEW i \in Ingests
      PROVE  IsFiniteSet(Upserted(Chunks(ingest[i].corpus, Changed(i))))
  <2>1. ingest[i].corpus \in Corpora /\ Changed(i) \in SUBSET Listed(ingest[i].corpus)
    BY RunsAreTyped DEF IndexInv, Run, Changed
  <2>2. IsFiniteSet(Chunks(ingest[i].corpus, Changed(i)))
    BY <2>1, FiniteChunks
  <2>3. \A chunks : {c \in points : \A new \in chunks : new.id # c.id} \in SUBSET points
    OBVIOUS
  <2>4. \A chunks : IsFiniteSet({c \in points : \A new \in chunks : new.id # c.id})
    BY <2>3, FS_Subset DEF SearchInv
  <2>5. QED
    BY <2>2, <2>4, FS_Union DEF Upserted
<1>4. IsFiniteSet(points')
  <2>1. \/ points' = points
        \/ \E i \in Ingests : \/ points' = Without(Removed(i)) \/ points' = Without(Changed(i))
                              \/ points' = Upserted(Chunks(ingest[i].corpus, Changed(i)))
    BY DEF Next, vars, LoadDocuments, ReadHashes, DeleteRemoved, Embed, DeleteChanged,
           Upsert, Stop, Edit, StartServer
  <2>2. QED
    BY <1>2, <1>3, <2>1 DEF SearchInv
<1>5. snapshot' = snapshot \/ snapshot' = points
  BY DEF Next, vars, LoadDocuments, ReadHashes, DeleteRemoved, Embed, DeleteChanged,
         Upsert, Stop, Edit, StartServer
<1>6. IsFiniteSet(snapshot') /\ OneToAnId(snapshot')
  BY <1>1, <1>5 DEF SearchInv
<1>7. QED
  BY <1>4, <1>6 DEF SearchInv, OneToAnId

\* What searches read: both indexes are finite and have one chunk to an id.
THEOREM SearchInvariant == Spec => []SearchInv
<1>1. Init => SearchInv
  BY FS_EmptySet DEF Init, SearchInv, OneToAnId
<1>2. IndexInv /\ SearchInv /\ [Next]_vars => SearchInv'
  BY SearchStep
<1>3. QED
  BY <1>1, <1>2, IndexInvariant, PTL DEF Spec

-----------------------------------------------------------------------------
(***************************************************************************)
(* A search.                                                               *)
(***************************************************************************)
LEMMA ReadableChunks ==
    ASSUME NEW chunks \in SUBSET AllChunks, IsFiniteSet(chunks), OneToAnId(chunks), NEW context,
           NEW S \in SUBSET Readable(chunks, context)
    PROVE  /\ IsFiniteSet(S) /\ OneToAnId(S)
           /\ \A c \in S : /\ c \in chunks /\ IsAuthorized(c, context) /\ c.id \in Triples
                           /\ Similarity(c.passage) \in Int /\ Overlap(c.passage) \in Int
<1>1. S \in SUBSET chunks /\ \A c \in S : IsAuthorized(c, context)
  BY DEF Readable
<1>2. \A c \in AllChunks : /\ c.id \in Triples
                           /\ Similarity(c.passage) \in Int /\ Overlap(c.passage) \in Int
  BY ScoreAssumption, IndexAssumption, ChunksOfADocument DEF AllChunks
<1>3. IsFiniteSet(S)
  BY <1>1, FS_Subset
<1>4. QED
  BY <1>1, <1>2, <1>3 DEF OneToAnId

LEMMA DenseIsARanking ==
    ASSUME NEW chunks \in SUBSET AllChunks, IsFiniteSet(chunks), OneToAnId(chunks), NEW context
    PROVE  /\ IsRanking(Dense(chunks, context), Readable(chunks, context))
           /\ \A i \in DOMAIN Dense(chunks, context) :
                 Similarity(Dense(chunks, context)[i].passage) >= Floor
<1> DEFINE S == Readable(chunks, context)
           ranking == Ranking(S, Similarity)
           places == {i \in DOMAIN ranking : Similarity(ranking[i].passage) >= Floor}
<1>1. IsRanking(ranking, S)
  <2>1. S \in SUBSET Readable(chunks, context)
    OBVIOUS
  <2> HIDE DEF S
  <2>2. /\ IsFiniteSet(S) /\ OneToAnId(S)
        /\ \A c \in S : c.id \in Triples /\ Similarity(c.passage) \in Int
    BY <2>1, ReadableChunks
  <2>3. QED
    BY <2>2, RankedBySimilarity
<1>2. Dense(chunks, context) = Picked(ranking, places)
  BY DEF Dense
<1>3. places \in SUBSET DOMAIN ranking
        /\ \A k \in places : Similarity(ranking[k].passage) >= Floor
  OBVIOUS
<1> HIDE DEF ranking, places, S
<1>4. /\ IsRanking(Picked(ranking, places), S)
      /\ \A i \in DOMAIN Picked(ranking, places) :
            \E k \in places : Picked(ranking, places)[i] = ranking[k]
  BY <1>1, <1>3, PickedRanking
<1>5. \A i \in DOMAIN Picked(ranking, places) :
            Similarity(Picked(ranking, places)[i].passage) >= Floor
  BY <1>3, <1>4
<1>6. QED
  BY <1>2, <1>4, <1>5 DEF S

LEMMA LexicalIsARanking ==
    ASSUME NEW chunks \in SUBSET AllChunks, IsFiniteSet(chunks), OneToAnId(chunks), NEW context
    PROVE  IsRanking(Lexical(chunks, context),
                     {c \in Readable(chunks, context) : Overlap(c.passage) > 0})
<1> DEFINE S == {c \in Readable(chunks, context) : Overlap(c.passage) > 0}
<1>1. S \in SUBSET Readable(chunks, context)
  OBVIOUS
<1>2. Lexical(chunks, context) = Ranking(S, Overlap)
  BY DEF Lexical
<1> HIDE DEF S
<1>3. IsRanking(Ranking(S, Overlap), S)
  BY <1>1, ReadableChunks, RankedByOverlap
<1>4. QED
  BY <1>2, <1>3 DEF S

\* What a question finds is readable by who asks, rests on a passage near
\* enough, and is ranked as both searches agree, whatever ingests, edits and
\* servers have done to the two indexes.
THEOREM EvidenceIsRanked == Spec => []EvidenceIsRankedInScope
<1>1. ASSUME IndexInv, SearchInv, NEW context \in Contexts
      PROVE  LET hits == Search(points, snapshot, context, Limit)
                 dense == Dense(points, context)
                 lexical == Lexical(snapshot, context)
                 both == FoundByBoth(context)
                 AheadInBoth(x, y) == /\ RankIn(dense, x) < RankIn(dense, y)
                                      /\ RankIn(lexical, x) < RankIn(lexical, y)
             IN  /\ \A i \in DOMAIN hits : IsAuthorized(hits[i], context)
                 /\ hits # <<>> => \E c \in points : IsAuthorized(c, context)
                                                      /\ Similarity(c.passage) >= Floor
                 /\ \A i, j \in DOMAIN hits : i < j =>
                       /\ hits[j].id \in both => hits[i].id \in both
                       /\ {hits[i].id, hits[j].id} \subseteq both =>
                             ~AheadInBoth(hits[j].id, hits[i].id)
                 /\ \A id \in both : Len(hits) < Limit => id \in IdsOf(hits)
  <2> DEFINE hits == Search(points, snapshot, context, Limit)
             dense == Dense(points, context)
             lexical == Lexical(snapshot, context)
             both == FoundByBoth(context)
             D == Readable(points, context)
             L == {c \in Readable(snapshot, context) : Overlap(c.passage) > 0}
  <2>1. /\ points \in SUBSET AllChunks /\ snapshot \in SUBSET AllChunks
        /\ IsFiniteSet(points) /\ IsFiniteSet(snapshot)
        /\ OneToAnId(points) /\ OneToAnId(snapshot)
    BY <1>1 DEF IndexInv, SearchInv, TypeOK, AllChunks, OneToAnId
  <2>2. /\ IsRanking(dense, D)
        /\ \A i \in DOMAIN dense : Similarity(dense[i].passage) >= Floor
    BY <2>1, DenseIsARanking
  <2>3. IsRanking(lexical, L)
    BY <2>1, LexicalIsARanking
  <2>4. /\ \A c \in D : c \in points /\ IsAuthorized(c, context) /\ c.id \in Triples
        /\ \A c \in L : IsAuthorized(c, context) /\ c.id \in Triples
    <3>1. L \in SUBSET Readable(snapshot, context) /\ D \in SUBSET Readable(points, context)
      OBVIOUS
    <3> HIDE DEF D, L
    <3>2. QED
      BY <2>1, <3>1, ReadableChunks
  <2>5. both = IdsOf(dense) \cap IdsOf(lexical)
    BY DEF FoundByBoth
  <2>6. hits = IF dense = <<>> THEN <<>> ELSE Fuse(dense, lexical, Limit)
    BY DEF Search
  <2> HIDE DEF hits, dense, lexical, both, D, L
  <2>7. CASE dense = <<>>
    <3>1. hits = <<>> /\ both = {}
      BY <2>5, <2>6, <2>7 DEF IdsOf
    <3>2. DOMAIN hits = {}
      BY <3>1
    <3>3. QED
      BY <3>1, <3>2 DEF hits, dense, lexical, both
  <2>8. CASE dense # <<>>
    <3>1. hits = Fuse(dense, lexical, Limit)
      BY <2>6, <2>8
    <3>2. \A c \in D \cup L : c.id \in Triples /\ IsAuthorized(c, context)
      BY <2>4
    <3>3. Limit \in Nat
      BY IndexAssumption
    <3>4. Agrees(hits, dense, lexical, both, Limit, D \cup L)
      <4>1. \A c \in D \cup L : c.id \in Triples
        BY <3>2
      <4>2. IsRanking(dense, D)
        BY <2>2
      <4>3. QED
        BY <2>3, <2>5, <3>1, <3>3, <4>1, <4>2, FusionAgrees
    <3>5. \E c \in points : IsAuthorized(c, context) /\ Similarity(c.passage) >= Floor
      <4>1. dense \in Seq(D) /\ Len(dense) # 0
        BY <2>2, <2>8 DEF IsRanking
      <4>2. 1 \in DOMAIN dense /\ dense[1] \in D
        BY <4>1
      <4>3. QED
        BY <2>2, <2>4, <4>2
    <3>6. \A i \in DOMAIN hits : IsAuthorized(hits[i], context)
      BY <3>2, <3>4 DEF Agrees
    <3>7. QED
      BY <3>4, <3>5, <3>6 DEF hits, dense, lexical, both, Agrees
  <2>9. QED
    BY <2>7, <2>8
<1>2. IndexInv /\ SearchInv => EvidenceIsRankedInScope
  BY <1>1, Zenon DEF EvidenceIsRankedInScope
<1>3. QED
  BY <1>2, IndexInvariant, SearchInvariant, PTL
=============================================================================
