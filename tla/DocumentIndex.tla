--------------------------- MODULE DocumentIndex ---------------------------
(***************************************************************************)
(* The corpus and what a question can find of it: the manifest, the script *)
(* that ingests it (rag/ingest.py over rag/manifest.py, rag/chunking.py    *)
(* and rag/vector_index.py), and a server that loaded its lexical index    *)
(* from the vector store when it started (rag/retriever.py).               *)
(*                                                                         *)
(* An ingest is a process: each of its calls on the store commits by       *)
(* itself, and it may die between any two of them.  The files are edited   *)
(* at any time, and a second ingest may run beside the first.  A scroll of *)
(* the collection and an upsert are one request each.                      *)
(*                                                                         *)
(* A definition with no use (NothingDeleted, say) is a likely mistake in   *)
(* the definition after it, which one of the properties would catch.       *)
(***************************************************************************)
EXTENDS Retrieval

CONSTANTS
    Documents,      \* 1..n
    Entries,        \* what the manifest and the file of a document may say
    Sections,       \* how many chunks each section of a version is split into
    Contexts,       \* who may ask: a project and scopes
    Limit,          \* passages per search
    Ingests,        \* 1..n, the runs of the script in the order they start
    MaxActive,      \* the bound on ingests at work at once
    MaxEdits,       \* the bound on edits of the corpus
    MaxFailures     \* the bound on ingests that stop half way

ASSUME IndexAssumption ==
    /\ Documents \subseteq Nat /\ IsFiniteSet(Documents) /\ Ingests \subseteq Nat
    /\ \A e \in Entries : Sections[<<e.text, e.header>>] \in Seq(Nat \ {0}) \ {<<>>}
    /\ \A e \in Entries : e.text # "none"
    /\ Limit \in Nat \ {0}
    /\ MaxActive \in Nat /\ MaxEdits \in Nat /\ MaxFailures \in Nat

VARIABLES
    manifest,   \* the entry of each document, Absent for none
    points,     \* the collection: the chunks of the vector store
    snapshot,   \* the chunks the server's lexical index was built from
    ingest,     \* where each run of the script is, and what it has read
    edits, failures,
    overlapped  \* history: an ingest has started beside another

history == <<edits, failures, overlapped>>
vars == <<manifest, points, snapshot, ingest, history>>

Absent == [text |-> "none"]

Listed(corpus) == {d \in Documents : corpus[d] # Absent}

Idle == [at |-> "idle", corpus |-> [d \in Documents |-> Absent],
         stored |-> [d \in Documents |-> "none"]]

Active == {i \in Ingests : ingest[i].at \notin {"idle", "done", "dead"}}

Init ==
    /\ manifest \in [Documents -> Entries \cup {Absent}]
    /\ points = {} /\ snapshot = {}
    /\ ingest = [i \in Ingests |-> Idle]
    /\ edits = 0 /\ failures = 0 /\ overlapped = FALSE

-----------------------------------------------------------------------------
(***************************************************************************)
(* Chunks: a section that fits is one chunk under its own locator, one     *)
(* that does not becomes part 1, part 2, ...  An entry is what is hashed,  *)
(* its text (the bodies and their locators); what is not, its header (the  *)
(* title and the headings above each body); and who may read it.           *)
(***************************************************************************)
\* Sections have locators of their own, also where their headings repeat.  A
\* header takes room in every chunk, and a heading on a page parts it in two.
SectionsOf(entry) == Sections[<<entry.text, entry.header>>]

Parts(n) == IF n = 1 THEN {0} ELSE 1..n

ChunkDocument(d, entry) ==
    LET sections == SectionsOf(entry)
        places == UNION {{s} \X Parts(sections[s]) : s \in DOMAIN sections}
    IN  {[id |-> <<d, p[1], p[2]>>, passage |-> <<entry.text, entry.header, p[1], p[2]>>,
          project |-> entry.project, scope |-> entry.scope] : p \in places}

\* Scores are compared and nothing else is done with them.
ASSUME ScoreAssumption ==
    \A d \in Documents, e \in Entries : \A c \in ChunkDocument(d, e) :
        Similarity(c.passage) \in Int /\ Overlap(c.passage) \in Int

Chunks(corpus, docs) == UNION {ChunkDocument(d, corpus[d]) : d \in docs}

DocumentOf(chunk) == chunk.id[1]

\* The content hash a chunk carries is that of its document's text alone.
Hashes == {e.text : e \in Entries}

HashOf(chunk) == chunk.passage[1]

StoredFor(d) == {c \in points : DocumentOf(c) = d}

Indexed == {DocumentOf(c) : c \in points}

-----------------------------------------------------------------------------
(***************************************************************************)
(* One run of the ingest.                                                  *)
(***************************************************************************)
Moves(i, from, to) ==
    ingest[i].at = from /\ ingest' = [ingest EXCEPT ![i].at = to]

\* A manifest that lists no document is refused before the store is touched.
LoadDocuments(i) ==
    /\ ingest[i].at = "idle"
    /\ \A j \in Ingests : j < i => ingest[j].at # "idle"
    /\ Cardinality(Active) < MaxActive
    /\ overlapped' = (overlapped \/ Active # {})
    /\ ingest' = [ingest EXCEPT ![i].at = IF Listed(manifest) = {} THEN "dead" ELSE "loaded",
                                ![i].corpus = manifest]
    /\ UNCHANGED <<manifest, points, snapshot, edits, failures>>

\* Where the chunks of a document disagree, the first one scrolled speaks.
HashesRead ==
    {h \in [Documents -> {"none"} \cup Hashes] :
        \A d \in Documents :
            IF d \in Indexed THEN \E c \in StoredFor(d) : h[d] = HashOf(c)
            ELSE h[d] = "none"}

ReadHashes(i) ==
    /\ ingest[i].at = "loaded"
    /\ \E h \in HashesRead :
          ingest' = [ingest EXCEPT ![i].at = "compared", ![i].stored = h]
    /\ UNCHANGED <<manifest, points, snapshot, history>>

Removed(i) == {d \in Documents : ingest[i].stored[d] # "none"} \ Listed(ingest[i].corpus)

EveryDocument(i) == Listed(ingest[i].corpus)

Changed(i) ==
    {d \in Listed(ingest[i].corpus) : ingest[i].stored[d] # ingest[i].corpus[d].text}

NothingDeleted(docs) == points

\* By document, not by chunk: the old chunks may have other ids.
Without(docs) == {c \in points : DocumentOf(c) \notin docs}

DeleteRemoved(i) ==
    /\ Moves(i, "compared", IF Changed(i) = {} THEN "done" ELSE "embedding")
    /\ points' = Without(Removed(i))
    /\ UNCHANGED <<manifest, snapshot, history>>

\* Chunking and embedding leave the store alone; if a batch fails, the run
\* does (Stop).
Embed(i) ==
    /\ Moves(i, "embedding", "embedded")
    /\ UNCHANGED <<manifest, points, snapshot, history>>

DeleteChanged(i) ==
    /\ Moves(i, "embedded", "writing")
    /\ points' = Without(Changed(i))
    /\ UNCHANGED <<manifest, snapshot, history>>

Beside(chunks) == points \cup chunks

\* A chunk takes the place of the point with its id.
Upserted(chunks) ==
    {c \in points : \A new \in chunks : new.id # c.id} \cup chunks

Upsert(i) ==
    /\ Moves(i, "writing", "done")
    /\ points' = Upserted(Chunks(ingest[i].corpus, Changed(i)))
    /\ UNCHANGED <<manifest, snapshot, history>>

\* The provider, the store or the process fails between two calls.
Stop(i) ==
    /\ i \in Active
    /\ failures < MaxFailures
    /\ ingest' = [ingest EXCEPT ![i].at = "dead"]
    /\ failures' = failures + 1
    /\ UNCHANGED <<manifest, points, snapshot, edits, overlapped>>

-----------------------------------------------------------------------------
\* A row of the manifest, or the file behind it, is edited.
Edit(d) ==
    /\ edits < MaxEdits
    /\ \E e \in (Entries \cup {Absent}) \ {manifest[d]} :
          manifest' = [manifest EXCEPT ![d] = e]
    /\ edits' = edits + 1
    /\ UNCHANGED <<points, snapshot, ingest, failures, overlapped>>

\* The lexical index is read back from the store, not from the files.
StartServer ==
    /\ snapshot' = points
    /\ UNCHANGED <<manifest, points, ingest, history>>

Next ==
    \/ \E i \in Ingests :
          \/ LoadDocuments(i) \/ ReadHashes(i) \/ DeleteRemoved(i) \/ Embed(i)
          \/ DeleteChanged(i) \/ Upsert(i) \/ Stop(i)
    \/ \E d \in Documents : Edit(d)
    \/ StartServer

Spec == Init /\ [][Next]_vars

-----------------------------------------------------------------------------
Corpora == [Documents -> Entries \cup {Absent}]

Steps == {"idle", "loaded", "compared", "embedding", "embedded", "writing", "done", "dead"}

\* The collection holds well-formed chunks, one to an id, and a run that goes
\* on to write has something to write (rag/vector_index.py: upsert).
TypeOK ==
    /\ manifest \in Corpora
    /\ points \cup snapshot \subseteq UNION {ChunkDocument(d, e) : d \in Documents, e \in Entries}
    /\ \A c, e \in points : c.id = e.id => c = e
    /\ ingest \in [Ingests -> [at : Steps, corpus : Corpora,
                                stored : [Documents -> {"none"} \cup Hashes]]]
    /\ \A i \in Ingests :
          ingest[i].at \in {"embedding", "embedded", "writing"} => Changed(i) # {}

LastStarted(i) == \A j \in Ingests : j > i => ingest[j].at = "idle"

\* The index holds the whole of one version of document d, read as `text'.
Holds(d, text) ==
    \E e \in Entries :
        e.text = text /\ StoredFor(d) = ChunkDocument(d, e) /\ StoredFor(d) # {}

CaughtUp(i, d) ==
    LET corpus == ingest[i].corpus
    IN  IF d \in Listed(corpus)
        THEN /\ Holds(d, corpus[d].text)
             /\ d \in Changed(i) => StoredFor(d) = ChunkDocument(d, corpus[d])
        ELSE StoredFor(d) = {}

\* After an ingest that had the index to itself, a document can be found by
\* every body of the text that was loaded and by no other, all of them cut and
\* headed as in one version of it, whatever the interrupted runs before it left
\* behind; under the loaded headings and for the loaded readers when that text
\* was not indexed before; and a document the manifest had dropped cannot be
\* found at all (rag/ingest.py: ingest).
IngestCatchesUp ==
    \A i \in Ingests :
        ~overlapped /\ ingest[i].at = "done" /\ LastStarted(i) =>
            \A d \in Documents : CaughtUp(i, d)

Settled(d) ==
    /\ manifest[d] # Absent
    /\ Holds(d, manifest[d].text)
    /\ \A i \in Active : ingest[i].corpus[d].text = manifest[d].text

\* A document whose bodies nobody edits does not leave the index, not even for
\* the moment between an ingest's delete and its upsert (rag/manifest.py:
\* changed_documents).
UntouchedStaysFindable ==
    [][\A d \in Documents : ~overlapped' /\ Settled(d) => StoredFor(d)' = StoredFor(d)]_vars

FoundByBoth(context) ==
    IdsOf(Dense(points, context)) \cap IdsOf(Lexical(snapshot, context))

\* What a question finds is readable by who asks, in the copy it is quoted
\* from; it finds nothing unless the store holds a passage near enough, even
\* when the server's older lexical index does; and what both searches found
\* comes first, in an order neither of them contradicts when they agree
\* (rag/retriever.py: search_detailed, rag/fusion.py).
EvidenceIsRankedInScope ==
    \A context \in Contexts :
        LET hits == Search(points, snapshot, context, Limit)
            dense == Dense(points, context)
            lexical == Lexical(snapshot, context)
            both == FoundByBoth(context)
            AheadInBoth(x, y) == /\ RankIn(dense, x) < RankIn(dense, y)
                                 /\ RankIn(lexical, x) < RankIn(lexical, y)
        IN  /\ \A i \in DOMAIN hits : IsAuthorized(hits[i], context)
            /\ hits # <<>> => \E c \in points : IsAuthorized(c, context)
                                                 /\ Similarity(c.passage) >= Floor
            /\ \A i, j \in DOMAIN hits : i < j =>
                  /\ hits[j].id \in both => hits[i].id \in both
                  /\ {hits[i].id, hits[j].id} \subseteq both =>
                        ~AheadInBoth(hits[j].id, hits[i].id)
            /\ \A id \in both : Len(hits) < Limit => id \in IdsOf(hits)

-----------------------------------------------------------------------------
(***************************************************************************)
(* The inductive invariant of ingests that do not overlap.                 *)
(***************************************************************************)
Whole(d) == StoredFor(d) = {} \/ \E text \in Hashes : Holds(d, text)

\* What run i read about document d still stands.
Stands(i, d) ==
    IF ingest[i].stored[d] = "none" THEN StoredFor(d) = {} ELSE Holds(d, ingest[i].stored[d])

\* What is left to do at each step: nothing has been read, removed documents
\* are still there, they are gone, the changed ones are gone too.
ReadInv(i) ==
    /\ ingest[i].at = "compared" => \A d \in Documents : Stands(i, d)
    /\ ingest[i].at \in {"embedding", "embedded"} =>
          \A d \in Documents :
             IF d \in Listed(ingest[i].corpus) THEN Stands(i, d) ELSE StoredFor(d) = {}
    /\ ingest[i].at = "writing" =>
          \A d \in Documents :
             IF d \in Listed(ingest[i].corpus) \ Changed(i) THEN Stands(i, d)
             ELSE StoredFor(d) = {}

\* Runs start in order, and none beside a run at work.
OrderInv ==
    /\ \A i, j \in Ingests : j < i /\ ingest[i].at # "idle" => ingest[j].at # "idle"
    /\ \A i \in Active : LastStarted(i)

IndexInv ==
    /\ TypeOK
    /\ overlapped \in BOOLEAN
    /\ ~overlapped =>
          /\ OrderInv
          /\ \A d \in Documents : Whole(d)
          /\ \A i \in Ingests : ReadInv(i)
    /\ IngestCatchesUp

(***************************************************************************)
(* The inductive invariant of what is searched: both indexes are finite    *)
(* and hold one chunk to an id, so that rankings have no ties.             *)
(***************************************************************************)
OneToAnId(chunks) == \A c, e \in chunks : c.id = e.id => c = e

SearchInv ==
    /\ IsFiniteSet(points) /\ IsFiniteSet(snapshot)
    /\ OneToAnId(snapshot)
=============================================================================
