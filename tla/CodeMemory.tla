----------------------------- MODULE CodeMemory -----------------------------
(***************************************************************************)
(* CodeMemory (src/migi/code_memory.py): import_fenced_text stores the     *)
(* fenced blocks of a text one by one, each unless a stored artifact has   *)
(* the same content hash. The endpoint /code/import (src/migi/api.py) runs *)
(* imports in a thread pool, and looking for the hash and storing the      *)
(* artifact are two transactions.                                          *)
(*                                                                         *)
(* A text is the sequence of its blocks, with the kind of source, the tags *)
(* and the named systems its importer gives; a block is its language and   *)
(* content, a content its own hash. An artifact is named by the import and *)
(* the block it was made for. created_at is the wall clock, which may      *)
(* repeat and go back; where it ties, list_kind orders by ids, which are   *)
(* random.                                                                 *)
(***************************************************************************)
EXTENDS Integers, Sequences, FiniteSets, SequencesExt, FiniteSetsExt

CONSTANTS
    Import,     \* the calls of import_fenced_text
    Language,   \* what canonical_language makes of the hints
    Content,    \* what stands between the fences
    Label,      \* tags and named systems
    Kind,       \* the kinds of sources
    Texts,      \* the texts that are imported
    OccursIn,   \* the pairs of a query token and a content, language or label
    Queries,    \* what clients recall
    MaxClock    \* bound on created_at

Block == [language : Language, content : Content]
Text == [blocks : Seq(Block), kind : Kind, tags : SUBSET Label, systems : SUBSET Label]

ASSUME TextsAssumption == Texts \subseteq Text
ASSUME ClockAssumption == MaxClock \in Nat
ASSUME LimitAssumption == \A q \in Queries : q.limit \in Int

VARIABLES
    serial,     \* the clients of this database take turns
    artifacts,  \* the objects of kind code_artifact
    import,     \* the import calls
    answer      \* the query of the recall that was made, and its hits

codeVars == <<serial, artifacts, import, answer>>

ArtifactId == Import \X (Nat \ {0})
Artifact == [artifact_id : ArtifactId, language : Language, content : Content,
             kind : Kind, tags : SUBSET Label, systems : SUBSET Label,
             created_at : 0 .. MaxClock]
NoText == [blocks |-> <<>>]

Stage == {"new", "drafting", "searching", "putting", "done", "rejected", "lost"}
Ended == {"done", "rejected", "lost"}
Running(i) == import[i].at \notin Ended \cup {"new"}

(* Mutant of Matches: the language is compared. *)
MatchesLanguage(a, draft) == a.language = draft.language

(* The artifact has the content hash that is looked for. *)
Matches(a, draft) == a.content = draft.content

(* find_exact: the oldest that matches, or one of the oldest. *)
Found(draft) == {a \in artifacts : Matches(a, draft)}
FindExact(draft) ==
    {a \in Found(draft) : \A b \in Found(draft) : a.created_at <= b.created_at}

(* _score_artifact: every token counts for every field that contains it.   *)
(* The title of an imported artifact names its language, and symbols has   *)
(* none; tokens of formats and of the titles' fixed words are not asked.   *)
Occurs(token, values) == \E value \in values : <<token, value>> \in OccursIn
TokenScore(a, token) ==
    (IF Occurs(token, {a.content}) THEN 3 ELSE 0)
      + (IF Occurs(token, {a.language}) THEN 6 + 4 ELSE 0)
      + (IF Occurs(token, a.tags) THEN 5 ELSE 0)
      + (IF Occurs(token, a.systems) THEN 7 ELSE 0)
Score(a, tokens) ==
    IF tokens = <<>> THEN 1 ELSE FoldLeft(LAMBDA sum, t : sum + TokenScore(a, t), 0, tokens)

(* The artifacts that pass every filter that is set, and score. *)
Hits(q) ==
    {a \in artifacts :
        /\ q.languages # {} => a.language \in q.languages
        /\ q.kinds # {} => a.kind \in q.kinds
        /\ q.systems # {} => q.systems \cap a.systems # {}
        /\ Score(a, q.tokens) > 0}

-----------------------------------------------------------------------------
CodeInit ==
    /\ serial \in BOOLEAN
    /\ artifacts = {}
    /\ import = [i \in Import |->
                   [at |-> "new", text |-> NoText, draft |-> {}, answers |-> <<>>]]
    /\ answer = {}

(* One recall, the last call of all, bounds the model. *)
Begin(i, text, to) ==
    /\ import[i].at = "new"
    /\ answer = {}
    /\ serial => \A k \in Import : ~Running(k)
    /\ import' = [import EXCEPT ![i].at = to, ![i].text = text]
    /\ UNCHANGED <<serial, artifacts, answer>>

BeginImport(i, text) == Begin(i, text, IF text.blocks = <<>> THEN "done" ELSE "drafting")

(* ValueError at the first block: the source or the status is not valid.   *)
RejectImport(i, text) == text.blocks # <<>> /\ Begin(i, text, "rejected")

Draft(i, n) ==
    /\ import[i].at = "drafting"
    /\ LET text == import[i].text
           block == text.blocks[Len(import[i].answers) + 1]
       IN  \E now \in 0 .. MaxClock :
              import' = [import EXCEPT
                  ![i].at = "searching",
                  ![i].draft = {[artifact_id |-> <<i, n>>, language |-> block.language,
                                 content |-> block.content, kind |-> text.kind,
                                 tags |-> text.tags, systems |-> text.systems,
                                 created_at |-> now]}]
    /\ UNCHANGED <<serial, artifacts, answer>>

(* Mutant of CreateArtifact: blocks are counted from 0. *)
CreateArtifactFromZero(i) == Draft(i, Len(import[i].answers))

(* CodeArtifact.create for the block that is next. *)
CreateArtifact(i) == Draft(i, Len(import[i].answers) + 1)

(* ingest returns the artifact and the loop goes on. *)
Answer(i, a) ==
    LET answers == Append(import[i].answers, a.artifact_id)
    IN  import' = [import EXCEPT
                     ![i].at = IF Len(answers) = Len(import[i].text.blocks)
                               THEN "done" ELSE "drafting",
                     ![i].draft = {},
                     ![i].answers = answers]

(* ingest finds the content stored. *)
ReturnExisting(i) ==
    /\ import[i].at = "searching"
    /\ \E draft \in import[i].draft :
          \E a \in FindExact(draft) : Answer(i, a)
    /\ UNCHANGED <<serial, artifacts, answer>>

(* Mutant of FindNothing: the store is not searched. *)
FindNothingUnsearched(i) ==
    /\ import[i].at = "searching"
    /\ import' = [import EXCEPT ![i].at = "putting"]
    /\ UNCHANGED <<serial, artifacts, answer>>

FindNothing(i) ==
    /\ import[i].at = "searching"
    /\ \A draft \in import[i].draft : Found(draft) = {}
    /\ import' = [import EXCEPT ![i].at = "putting"]
    /\ UNCHANGED <<serial, artifacts, answer>>

PutArtifact(i) ==
    /\ import[i].at = "putting"
    /\ \E draft \in import[i].draft :
          /\ artifacts' = artifacts \cup {draft}
          /\ Answer(i, draft)
    /\ UNCHANGED <<serial, answer>>

(* The process dies or a session raises: the blocks so far stay stored. *)
LoseImport(i) ==
    /\ Running(i)
    /\ import' = [import EXCEPT ![i].at = "lost"]
    /\ UNCHANGED <<serial, artifacts, answer>>

(* hits.sort by score and id, and the first max(1, limit) of them. *)
Ranked(hits, tokens) ==
    {s \in SetToSeqs(hits) :
        \A m, n \in DOMAIN s : m < n => Score(s[m], tokens) >= Score(s[n], tokens)}
Limit(q) == Max({1, q.limit})

(* Mutant of Recall: the first hits in order of creation. *)
RecallUnsorted(q) ==
    /\ \A i \in Import : ~Running(i)
    /\ \E s \in SetToSeqs(Hits(q)) :
          answer' = {[query |-> q, hits |-> SubSeq(s, 1, Min({Limit(q), Len(s)}))]}
    /\ UNCHANGED <<serial, artifacts, import>>

(* recall reads the store in one transaction, so what it sees of a running *)
(* import is what it would see had that import died there: it is enough to *)
(* let clients recall between imports.                                     *)
Recall(q) ==
    /\ answer = {}
    /\ \A i \in Import : ~Running(i)
    /\ \E s \in Ranked(Hits(q), q.tokens) :
          answer' = {[query |-> q, hits |-> SubSeq(s, 1, Min({Limit(q), Len(s)}))]}
    /\ UNCHANGED <<serial, artifacts, import>>

CodeNext ==
    \/ \E i \in Import :
        \/ \E text \in Texts : BeginImport(i, text) \/ RejectImport(i, text)
        \/ CreateArtifact(i)
        \/ ReturnExisting(i)
        \/ FindNothing(i)
        \/ PutArtifact(i)
        \/ LoseImport(i)
    \/ \E q \in Queries : Recall(q)

CodeSpec == CodeInit /\ [][CodeNext]_codeVars

-----------------------------------------------------------------------------
(* Type invariant: the stored artifacts and the imports' locals. *)
CodeTypeOK ==
    /\ serial \in BOOLEAN
    /\ artifacts \subseteq Artifact
    /\ import \in [Import -> [at : Stage, text : Texts \cup {NoText},
                              draft : SUBSET Artifact, answers : Seq(ArtifactId)]]
    /\ \A r \in answer : r.query \in Queries /\ r.hits \in Seq(artifacts)

(* What an import has been told is in the store and has the content of the *)
(* block it was told for, also while other imports run and after it died.  *)
AnswersAreFindable ==
    \A i \in Import : \A n \in DOMAIN import[i].answers :
        \E a \in artifacts :
            /\ a.artifact_id = import[i].answers[n]
            /\ a.content = import[i].text.blocks[n].content

(* One artifact for each content, when imports take turns, however many of *)
(* them die between two blocks and are tried again                         *)
(* (tests/test_code_memory.py, test_deduplicates_identical_content_by_hash)*)
OneArtifactPerContent ==
    serial => \A a, b \in artifacts : a.content = b.content => a = b

(* Every block that an import was told of is recalled by a query that its  *)
(* stored artifact satisfies, unless the limit's worth of others score no  *)
(* less; the artifact may have been stored by another import, and then the *)
(* language, kind, tags and systems that count are those of that one.      *)
ImportsAreRecalled ==
    [][ \A i \in Import, r \in answer' \ answer : \A n \in DOMAIN import[i].answers :
          \E a \in artifacts :
             /\ a.artifact_id = import[i].answers[n]
             /\ \/ a \notin Hits(r.query)
                \/ \E m \in DOMAIN r.hits : r.hits[m] = a
                \/ /\ Len(r.hits) >= r.query.limit /\ r.hits # <<>>
                   /\ \A m \in DOMAIN r.hits :
                         Score(r.hits[m], r.query.tokens) >= Score(a, r.query.tokens)
      ]_codeVars
=============================================================================
