-------------------------- MODULE CodeMemoryProofs --------------------------
(***************************************************************************)
(* What holds of CodeMemory for every set of imports, texts and queries.   *)
(***************************************************************************)
EXTENDS CodeMemory, FiniteSetTheorems, TLAPS

BlockOf(i) == import[i].text.blocks[Len(import[i].answers) + 1]

(* How far an import has come: it answers its blocks in their order, and   *)
(* the draft is the artifact of the block that is next.                    *)
ProgressOf(i) ==
    /\ import[i].at = "new" => import[i].answers = <<>>
    /\ Len(import[i].answers) <= Len(import[i].text.blocks)
    /\ Running(i) => Len(import[i].answers) < Len(import[i].text.blocks)
    /\ import[i].at \in {"searching", "putting"} =>
          \E a \in Artifact : import[i].draft = {a} /\ a.content = BlockOf(i).content

(* What an import was told is stored: the part of AnswersAreFindable that  *)
(* one import contributes.                                                 *)
FindableOf(i) ==
    \A n \in DOMAIN import[i].answers :
        \E a \in artifacts :
            /\ a.artifact_id = import[i].answers[n]
            /\ a.content = import[i].text.blocks[n].content

ImportInv ==
    /\ CodeTypeOK
    /\ IsFiniteSet(artifacts)
    /\ \A i \in Import : ProgressOf(i) /\ FindableOf(i)

Step(i) ==
    \/ \E text \in Texts : BeginImport(i, text) \/ RejectImport(i, text)
    \/ CreateArtifact(i)
    \/ ReturnExisting(i)
    \/ FindNothing(i)
    \/ PutArtifact(i)
    \/ LoseImport(i)

ImportTypeOK ==
    import \in [Import -> [at : Stage, text : Texts \cup {NoText},
                           draft : SUBSET Artifact, answers : Seq(ArtifactId)]]

-----------------------------------------------------------------------------
(* The library's operators on the sets and sequences that occur here.      *)

LEMMA MaxOfPair ==
    ASSUME NEW m \in Int, NEW n \in Int
    PROVE  /\ Max({m, n}) \in Int /\ Max({m, n}) >= m /\ Max({m, n}) >= n
           /\ Max({m, n}) \in {m, n}
<1>1. \E x \in {m, n} : \A y \in {m, n} : x >= y
  BY DEF Max
<1> QED
  BY <1>1 DEF Max

LEMMA MinOfPair ==
    ASSUME NEW m \in Int, NEW n \in Int
    PROVE  /\ Min({m, n}) \in Int /\ Min({m, n}) <= m /\ Min({m, n}) <= n
           /\ Min({m, n}) \in {m, n}
<1>1. \E x \in {m, n} : \A y \in {m, n} : x <= y
  OBVIOUS
<1> QED
  BY <1>1 DEF Min

(* As many hits as there are, up to the limit, and one at the least of it. *)
LEMMA RecallLength ==
    ASSUME NEW q \in Queries, NEW n \in Nat
    PROVE  /\ Min({Limit(q), n}) \in 0 .. n
           /\ Min({Limit(q), n}) < n => Min({Limit(q), n}) >= q.limit
           /\ n > 0 => Min({Limit(q), n}) > 0
<1>1. q.limit \in Int
  BY LimitAssumption
<1>2. Limit(q) \in Int /\ Limit(q) >= 1 /\ Limit(q) >= q.limit
  <2>1. 1 \in Int
    OBVIOUS
  <2>2. /\ Max({1, q.limit}) \in Int /\ Max({1, q.limit}) >= 1
        /\ Max({1, q.limit}) >= q.limit
    BY <1>1, <2>1, MaxOfPair, Zenon
  <2> QED
    BY <2>2 DEF Limit
<1>3. /\ Min({Limit(q), n}) \in Int /\ Min({Limit(q), n}) <= n
      /\ Min({Limit(q), n}) \in {Limit(q), n}
  <2>1. n \in Int
    OBVIOUS
  <2> QED
    BY <1>2, <2>1, MinOfPair, Zenon
<1> QED
  BY <1>1, <1>2, <1>3

LEMMA FirstOnes ==
    ASSUME NEW S, NEW s \in Seq(S), NEW n \in 0 .. Len(s)
    PROVE  /\ SubSeq(s, 1, n) \in Seq(S) /\ Len(SubSeq(s, 1, n)) = n
           /\ DOMAIN SubSeq(s, 1, n) = 1 .. n
           /\ \A m \in 1 .. n : SubSeq(s, 1, n)[m] = s[m]
OBVIOUS

(* SetToSeqs of a finite set: every sequence of it has every element once. *)
LEMMA Orderings ==
    ASSUME NEW S, IsFiniteSet(S), NEW s \in SetToSeqs(S)
    PROVE  /\ s \in Seq(S) /\ DOMAIN s = 1 .. Len(s)
           /\ \A x \in S : \E m \in DOMAIN s : s[m] = x
<1>1. Cardinality(S) \in Nat
  BY FS_CardinalityType
<1>2. /\ s \in [1 .. Cardinality(S) -> S]
      /\ \A m, n \in 1 .. Cardinality(S) : m # n => s[m] # s[n]
  BY DEF SetToSeqs
<1>3. s \in Seq(S) /\ Len(s) = Cardinality(S) /\ DOMAIN s = 1 .. Len(s)
  BY <1>1, <1>2
<1>4. s \in Surjection(1 .. Cardinality(S), S)
  <2>1. /\ IsFiniteSet(1 .. Cardinality(S))
        /\ Cardinality(1 .. Cardinality(S)) = Cardinality(S)
    BY <1>1, FS_Interval
  <2>2. s \in Injection(1 .. Cardinality(S), S)
    BY <1>2 DEF Injection, IsInjective
  <2> QED
    BY <1>1, <2>1, <2>2, FS_Injection
<1> QED
  BY <1>3, <1>4 DEF Surjection


-----------------------------------------------------------------------------
(* The steps of an import.                                                 *)

(* An import that moves on by itself keeps what holds of all of them.      *)
LEMMA ImportMoves ==
    ASSUME ImportInv, NEW i \in Import,
           import' = [import EXCEPT ![i] = import'[i]],
           import'[i] \in [at : Stage, text : Texts \cup {NoText},
                           draft : SUBSET Artifact, answers : Seq(ArtifactId)],
           artifacts \subseteq artifacts', artifacts' \subseteq Artifact,
           IsFiniteSet(artifacts'), serial' = serial, answer' = answer,
           ProgressOf(i)', FindableOf(i)'
    PROVE  ImportInv'
<1>1. ImportTypeOK /\ ImportTypeOK'
  BY DEF ImportInv, CodeTypeOK, ImportTypeOK
<1>2. \A k \in Import \ {i} : import'[k] = import[k]
  BY <1>1 DEF ImportTypeOK
<1>3. ASSUME NEW k \in Import \ {i} PROVE ProgressOf(k)' /\ FindableOf(k)'
  <2>1. import'[k] = import[k]
    BY <1>2
  <2>2. ProgressOf(k) => ProgressOf(k)'
    BY <2>1 DEF ProgressOf, Running, BlockOf
  <2>3. FindableOf(k) => FindableOf(k)'
    BY <2>1 DEF FindableOf
  <2> QED
    BY <2>2, <2>3 DEF ImportInv
<1>4. CodeTypeOK'
  <2>1. Seq(artifacts) \subseteq Seq(artifacts')
    OBVIOUS
  <2> QED
    BY <1>1, <2>1 DEF ImportInv, CodeTypeOK, ImportTypeOK
<1> QED
  BY <1>3, <1>4 DEF ImportInv

LEMMA BlocksOfTexts ==
    ASSUME NEW text \in Texts \cup {NoText}
    PROVE  /\ text.blocks \in Seq(Block)
           /\ text.blocks # <<>> <=> Len(text.blocks) > 0
           /\ text.blocks # <<>> => text \in Text
<1>1. text = NoText \/ text \in Text
  BY TextsAssumption
<1>2. text.blocks \in Seq(Block)
  <2>1. CASE text = NoText
    BY <2>1 DEF NoText
  <2>2. CASE text \in Text
    BY <2>2 DEF Text
  <2> QED
    BY <1>1, <2>1, <2>2
<1>3. text.blocks # <<>> => text \in Text
  BY <1>1 DEF NoText
<1>4. text.blocks # <<>> <=> Len(text.blocks) > 0
  BY <1>2
<1> QED
  BY <1>2, <1>3, <1>4

LEMMA BeginStep ==
    ASSUME ImportInv, NEW i \in Import, NEW text \in Texts,
           BeginImport(i, text) \/ RejectImport(i, text)
    PROVE  ImportInv'
<1>1. /\ import[i] \in [at : Stage, text : Texts \cup {NoText},
                        draft : SUBSET Artifact, answers : Seq(ArtifactId)]
      /\ import[i].answers = <<>>
  BY DEF ImportInv, CodeTypeOK, ProgressOf, BeginImport, RejectImport, Begin
<1>2. PICK to \in {"done", "drafting", "rejected"} :
         /\ import'[i] = [at |-> to, text |-> text, draft |-> import[i].draft,
                          answers |-> <<>>]
         /\ to = "drafting" => text.blocks # <<>>
         /\ import' = [import EXCEPT ![i] = import'[i]]
         /\ UNCHANGED <<serial, artifacts, answer>>
  <2>1. import \in [Import -> [at : Stage, text : Texts \cup {NoText},
                               draft : SUBSET Artifact, answers : Seq(ArtifactId)]]
    BY DEF ImportInv, CodeTypeOK
  <2>2. CASE BeginImport(i, text)
    BY <1>1, <2>1, <2>2 DEF BeginImport, Begin
  <2>3. CASE RejectImport(i, text)
    BY <1>1, <2>1, <2>3 DEF RejectImport, Begin
  <2> QED
    BY <2>2, <2>3
<1>3. ProgressOf(i)' /\ FindableOf(i)'
  BY <1>2, BlocksOfTexts DEF ProgressOf, FindableOf, Running, Ended
<1>4. artifacts \subseteq Artifact /\ IsFiniteSet(artifacts)
  BY DEF ImportInv, CodeTypeOK
<1> QED
  BY <1>1, <1>2, <1>3, <1>4, ImportMoves DEF Stage

LEMMA CreateStep ==
    ASSUME ImportInv, NEW i \in Import, CreateArtifact(i)
    PROVE  /\ ImportInv'
           /\ import' = [import EXCEPT ![i] = import'[i]]
           /\ import'[i].at = "searching"
           /\ UNCHANGED <<serial, artifacts, answer>>
<1>1. /\ import[i] \in [at : Stage, text : Texts \cup {NoText},
                        draft : SUBSET Artifact, answers : Seq(ArtifactId)]
      /\ import[i].at = "drafting"
      /\ Len(import[i].answers) < Len(import[i].text.blocks)
      /\ Len(import[i].answers) \in Nat
  <2>1. /\ import[i] \in [at : Stage, text : Texts \cup {NoText},
                          draft : SUBSET Artifact, answers : Seq(ArtifactId)]
        /\ import[i].at = "drafting"
    BY DEF ImportInv, CodeTypeOK, CreateArtifact, Draft
  <2>2. Running(i)
    BY <2>1 DEF Running, Ended
  <2> QED
    BY <2>1, <2>2 DEF ImportInv, ProgressOf
<1>2. import[i].text \in Text
  BY <1>1, BlocksOfTexts
<1>3. BlockOf(i) \in Block
  BY <1>1, <1>2 DEF Text, BlockOf
<1>4. PICK now \in 0 .. MaxClock :
         import'[i] = [at |-> "searching", text |-> import[i].text,
                       draft |-> {[artifact_id |-> <<i, Len(import[i].answers) + 1>>,
                                   language |-> BlockOf(i).language,
                                   content |-> BlockOf(i).content,
                                   kind |-> import[i].text.kind,
                                   tags |-> import[i].text.tags,
                                   systems |-> import[i].text.systems,
                                   created_at |-> now]},
                       answers |-> import[i].answers]
  BY <1>1 DEF CreateArtifact, Draft, BlockOf, ImportInv, CodeTypeOK
<1>5. /\ import' = [import EXCEPT ![i] = import'[i]]
      /\ UNCHANGED <<serial, artifacts, answer>>
  BY <1>1 DEF CreateArtifact, Draft, ImportInv, CodeTypeOK
<1> DEFINE draft == [artifact_id |-> <<i, Len(import[i].answers) + 1>>,
                     language |-> BlockOf(i).language, content |-> BlockOf(i).content,
                     kind |-> import[i].text.kind, tags |-> import[i].text.tags,
                     systems |-> import[i].text.systems, created_at |-> now]
<1>6. draft \in Artifact /\ draft.content = BlockOf(i).content
  BY <1>1, <1>2, <1>3 DEF Artifact, ArtifactId, Block, Text
<1>7. import'[i] = [at |-> "searching", text |-> import[i].text, draft |-> {draft},
                    answers |-> import[i].answers]
  BY <1>4
<1> HIDE DEF draft
<1>8. ProgressOf(i)' /\ FindableOf(i)'
  <2>1. /\ import'[i].at = "searching" /\ import'[i].text = import[i].text
        /\ import'[i].draft = {draft} /\ import'[i].answers = import[i].answers
    BY <1>7
  <2>2. BlockOf(i)' = BlockOf(i)
    BY <2>1 DEF BlockOf
  <2>3. FindableOf(i)'
    BY <1>5, <2>1 DEF FindableOf, ImportInv
  <2>4. ProgressOf(i)'
    BY <1>1, <1>6, <2>1, <2>2 DEF ProgressOf
  <2> QED
    BY <2>3, <2>4
<1>9. artifacts \subseteq Artifact /\ IsFiniteSet(artifacts)
  BY DEF ImportInv, CodeTypeOK
<1> QED
  BY <1>1, <1>5, <1>6, <1>7, <1>8, <1>9, ImportMoves DEF Stage

(* An import that has been told of an artifact with the content of the     *)
(* block that was next, stored before the step or by it.                   *)
LEMMA AnswerStep ==
    ASSUME ImportInv, NEW i \in Import, NEW a \in Artifact,
           import[i].at \in {"searching", "putting"}, a.content = BlockOf(i).content,
           Answer(i, a), artifacts' = artifacts \cup {a}, UNCHANGED <<serial, answer>>
    PROVE  /\ ImportInv'
           /\ import' = [import EXCEPT ![i] = import'[i]]
           /\ import'[i].at \in {"done", "drafting"}
<1>1. /\ import[i] \in [at : Stage, text : Texts \cup {NoText},
                        draft : SUBSET Artifact, answers : Seq(ArtifactId)]
      /\ Len(import[i].answers) < Len(import[i].text.blocks)
      /\ Len(import[i].answers) \in Nat
      /\ Len(import[i].text.blocks) \in Nat
  BY BlocksOfTexts DEF ImportInv, CodeTypeOK, ProgressOf, Running, Ended
<1> DEFINE told == Append(import[i].answers, a.artifact_id)
<1>0. told \in Seq(ArtifactId)
  BY <1>1 DEF Artifact
<1>2. PICK at \in {"done", "drafting"} :
         /\ import'[i] = [at |-> at, text |-> import[i].text, draft |-> {}, answers |-> told]
         /\ at = "drafting" => Len(told) # Len(import[i].text.blocks)
         /\ import' = [import EXCEPT ![i] = import'[i]]
  BY <1>1 DEF Answer, ImportInv, CodeTypeOK
<1>3. /\ Len(told) = Len(import[i].answers) + 1
      /\ told[Len(told)] = a.artifact_id
      /\ \A n \in 1 .. Len(import[i].answers) : told[n] = import[i].answers[n]
      /\ DOMAIN told = 1 .. Len(told)
      /\ DOMAIN import[i].answers = 1 .. Len(import[i].answers)
  BY <1>1, <1>0 DEF Artifact
<1> HIDE DEF told
<1>4. ProgressOf(i)'
  BY <1>1, <1>2, <1>3 DEF ProgressOf, Running, Ended
<1>5. FindableOf(i)'
  <2> SUFFICES ASSUME NEW n \in DOMAIN told
               PROVE  \E b \in artifacts' : /\ b.artifact_id = told[n]
                                            /\ b.content = import[i].text.blocks[n].content
    BY <1>2 DEF FindableOf
  <2>1. CASE n = Len(told)
    BY <1>3, <2>1 DEF BlockOf
  <2>2. CASE n # Len(told)
    <3>1. n \in DOMAIN import[i].answers /\ told[n] = import[i].answers[n]
      BY <1>1, <1>3, <2>2
    <3> QED
      BY <3>1 DEF ImportInv, FindableOf
  <2> QED
    BY <2>1, <2>2
<1>6. artifacts' \subseteq Artifact /\ IsFiniteSet(artifacts')
  BY FS_AddElement DEF ImportInv, CodeTypeOK
<1>7. import'[i] \in [at : Stage, text : Texts \cup {NoText},
                       draft : SUBSET Artifact, answers : Seq(ArtifactId)]
  BY <1>0, <1>1, <1>2 DEF Stage
<1>8. artifacts \subseteq artifacts' /\ serial' = serial /\ answer' = answer
  OBVIOUS
<1>9. ImportInv'
  BY <1>2, <1>4, <1>5, <1>6, <1>7, <1>8, ImportMoves
<1> QED
  BY <1>2, <1>9

(* The artifact that is looked for and found, or made and stored. *)
LEMMA ToldOf ==
    ASSUME ImportInv, NEW i \in Import, ReturnExisting(i) \/ PutArtifact(i)
    PROVE  \E a \in Artifact :
              /\ a.content = BlockOf(i).content
              /\ Answer(i, a)
              /\ artifacts' = artifacts \cup {a}
              /\ UNCHANGED <<serial, answer>>
              /\ import[i].at \in {"searching", "putting"}
              /\ PutArtifact(i) => import[i].draft = {a}
              /\ ReturnExisting(i) => a \in artifacts
<1>1. PICK draft \in Artifact : import[i].draft = {draft} /\ draft.content = BlockOf(i).content
  BY DEF ImportInv, ProgressOf, ReturnExisting, PutArtifact
<1>2. CASE ReturnExisting(i)
  <2>1. PICK a \in FindExact(draft) : Answer(i, a)
    BY <1>1, <1>2 DEF ReturnExisting
  <2>2. a \in artifacts /\ a.content = draft.content /\ a \in Artifact
    BY <2>1 DEF FindExact, Found, Matches, ImportInv, CodeTypeOK
  <2>3. ~PutArtifact(i)
    BY <1>2 DEF ReturnExisting, PutArtifact
  <2> QED
    BY <1>1, <1>2, <2>1, <2>2, <2>3 DEF ReturnExisting
<1>3. CASE PutArtifact(i)
  <2>1. ~ReturnExisting(i)
    BY <1>3 DEF ReturnExisting, PutArtifact
  <2> QED
    BY <1>1, <1>3, <2>1 DEF PutArtifact
<1> QED
  BY <1>2, <1>3

LEMMA OtherStep ==
    ASSUME ImportInv, NEW i \in Import, FindNothing(i) \/ LoseImport(i)
    PROVE  /\ ImportInv'
           /\ import' = [import EXCEPT ![i] = import'[i]]
           /\ import'[i].draft = import[i].draft
           /\ import'[i].at = IF FindNothing(i) THEN "putting" ELSE "lost"
           /\ UNCHANGED <<serial, artifacts, answer>>
<1>1. import \in [Import -> [at : Stage, text : Texts \cup {NoText},
                             draft : SUBSET Artifact, answers : Seq(ArtifactId)]]
  BY DEF ImportInv, CodeTypeOK
<1>2. /\ import' = [import EXCEPT ![i].at = IF FindNothing(i) THEN "putting" ELSE "lost"]
      /\ UNCHANGED <<serial, artifacts, answer>>
      /\ Running(i) /\ FindNothing(i) => import[i].at = "searching"
  BY DEF FindNothing, LoseImport, Running, Ended
<1>3. /\ import'[i].draft = import[i].draft /\ import'[i].text = import[i].text
      /\ import'[i].answers = import[i].answers
      /\ import'[i].at = IF FindNothing(i) THEN "putting" ELSE "lost"
      /\ import' = [import EXCEPT ![i] = import'[i]]
      /\ import'[i] \in [at : Stage, text : Texts \cup {NoText},
                         draft : SUBSET Artifact, answers : Seq(ArtifactId)]
  BY <1>1, <1>2 DEF Stage
<1>4. ProgressOf(i)'
  <2>0. Running(i)
    BY <1>1 DEF FindNothing, LoseImport, Running, Ended
  <2>1. ProgressOf(i) /\ Running(i) /\ import'[i].at \in {"putting", "lost"}
    BY <1>3, <2>0 DEF ImportInv
  <2>2. BlockOf(i)' = BlockOf(i)
    BY <1>3 DEF BlockOf
  <2>3. import'[i].at = "putting" => import[i].at = "searching"
    BY <1>2, <1>3 DEF FindNothing
  <2> QED
    BY <1>3, <2>1, <2>2, <2>3 DEF ProgressOf
<1>5. FindableOf(i)'
  <2>1. FindableOf(i)
    BY DEF ImportInv
  <2> QED
    BY <1>2, <1>3, <2>1 DEF FindableOf
<1>6. /\ artifacts \subseteq artifacts' /\ artifacts' \subseteq Artifact
      /\ IsFiniteSet(artifacts') /\ serial' = serial /\ answer' = answer
  BY <1>2 DEF ImportInv, CodeTypeOK
<1>7. ImportInv'
  BY <1>3, <1>4, <1>5, <1>6, ImportMoves
<1> QED
  BY <1>2, <1>3, <1>7

(* What is recalled is a sequence of stored artifacts. *)
LEMMA RecallStep ==
    ASSUME ImportInv, NEW q \in Queries, Recall(q)
    PROVE  ImportInv'
<1>1. PICK s \in Ranked(Hits(q), q.tokens) :
         answer' = {[query |-> q, hits |-> SubSeq(s, 1, Min({Limit(q), Len(s)}))]}
  BY DEF Recall
<1>2. Hits(q) \subseteq artifacts /\ IsFiniteSet(Hits(q))
  BY FS_Subset DEF Hits, ImportInv
<1>3. s \in Seq(Hits(q))
  BY <1>1, <1>2, Orderings DEF Ranked
<1>4. Min({Limit(q), Len(s)}) \in 0 .. Len(s)
  BY <1>3, RecallLength
<1>5. SubSeq(s, 1, Min({Limit(q), Len(s)})) \in Seq(artifacts)
  <2>1. s \in Seq(artifacts)
    BY <1>2, <1>3
  <2> QED
    BY <1>4, <2>1, FirstOnes, Zenon
<1>6. UNCHANGED <<serial, artifacts, import>>
  BY DEF Recall
<1>7. CodeTypeOK'
  <2>1. \A r \in answer' : r.query \in Queries /\ r.hits \in Seq(artifacts)
    <3> DEFINE hits == SubSeq(s, 1, Min({Limit(q), Len(s)}))
    <3>1. hits \in Seq(artifacts) /\ answer' = {[query |-> q, hits |-> hits]}
      BY <1>1, <1>5
    <3> HIDE DEF hits
    <3> QED
      BY <3>1
  <2> QED
    BY <1>6, <2>1 DEF ImportInv, CodeTypeOK
<1>8. \A i \in Import : ProgressOf(i)' /\ FindableOf(i)'
  BY <1>6 DEF ImportInv, ProgressOf, FindableOf, BlockOf, Running
<1> QED
  BY <1>6, <1>7, <1>8 DEF ImportInv

LEMMA ImportInvariance == CodeSpec => []ImportInv
<1>1. CodeInit => ImportInv
  <2> SUFFICES ASSUME CodeInit PROVE ImportInv
    OBVIOUS
  <2>1. CodeTypeOK
    BY DEF CodeInit, CodeTypeOK, Stage
  <2>2. \A i \in Import : ProgressOf(i) /\ FindableOf(i)
    BY DEF CodeInit, ProgressOf, FindableOf, Running, NoText
  <2> QED
    BY <2>1, <2>2, FS_EmptySet DEF CodeInit, ImportInv
<1>2. ImportInv /\ [CodeNext]_codeVars => ImportInv'
  <2> SUFFICES ASSUME ImportInv, [CodeNext]_codeVars PROVE ImportInv'
    OBVIOUS
  <2>1. CASE \E i \in Import : Step(i)
    <3>1. PICK i \in Import : Step(i)
      BY <2>1
    <3>2. CASE ReturnExisting(i) \/ PutArtifact(i)
      <4>1. PICK a \in Artifact : /\ a.content = BlockOf(i).content
                                  /\ Answer(i, a)
                                  /\ artifacts' = artifacts \cup {a}
                                  /\ UNCHANGED <<serial, answer>>
                                  /\ import[i].at \in {"searching", "putting"}
        BY <3>2, ToldOf
      <4> QED
        BY <4>1, AnswerStep
    <3> QED
      BY <3>1, <3>2, BeginStep, CreateStep, OtherStep DEF Step
  <2>2. CASE \E q \in Queries : Recall(q)
    BY <2>2, RecallStep
  <2>3. CASE UNCHANGED codeVars
    BY <2>3 DEF codeVars, ImportInv, CodeTypeOK, ProgressOf, FindableOf, BlockOf, Running
  <2> QED
    BY <2>1, <2>2, <2>3 DEF CodeNext, Step
<1> QED
  BY <1>1, <1>2, PTL DEF CodeSpec

(* Type correctness of the store and of the imports' locals. *)
THEOREM CodeTypeCorrect == CodeSpec => []CodeTypeOK
<1>1. ImportInv => CodeTypeOK
  BY DEF ImportInv
<1> QED
  BY <1>1, ImportInvariance, PTL

(* Whatever an import has been told of is stored, with the content of the  *)
(* block it was told for: while others run and after any of them has died. *)
THEOREM ToldIsStored == CodeSpec => []AnswersAreFindable
<1>1. ImportInv => AnswersAreFindable
  BY DEF ImportInv, FindableOf, AnswersAreFindable
<1> QED
  BY <1>1, ImportInvariance, PTL
-----------------------------------------------------------------------------
(* Imports that take turns.                                                *)

(* When imports take turns one runs at a time, and what it is about to put *)
(* is not there: nobody else can have put it since the import has looked.  *)
SerialInv ==
    serial =>
        /\ OneArtifactPerContent
        /\ \A i, k \in Import : Running(i) /\ Running(k) => i = k
        /\ \A i \in Import : import[i].at = "putting" =>
              \A draft \in import[i].draft : Found(draft) = {}

LEMMA SerialInit == ASSUME CodeInit PROVE SerialInv
BY DEF CodeInit, SerialInv, OneArtifactPerContent, Running

(* A step that stores nothing and starts no import. *)
LEMMA SerialStays ==
    ASSUME ImportInv, SerialInv, NEW i \in Import, UNCHANGED <<serial, artifacts>>,
           import' = [import EXCEPT ![i] = import'[i]],
           Running(i)' => Running(i) \/ \A k \in Import : ~Running(k),
           import'[i].at = "putting" => \A draft \in import'[i].draft : Found(draft) = {}
    PROVE  SerialInv'
<1> SUFFICES ASSUME serial PROVE SerialInv'
  BY DEF SerialInv
<1>1. \A k \in Import \ {i} : import'[k] = import[k]
  BY DEF ImportInv, CodeTypeOK
<1>2. OneArtifactPerContent'
  BY DEF SerialInv, OneArtifactPerContent
<1>3. \A k \in Import \ {i} : Running(k)' = Running(k)
  BY <1>1 DEF Running
<1>4. \A k, m \in Import : Running(k)' /\ Running(m)' => k = m
  BY <1>3 DEF SerialInv
<1>5. ASSUME NEW k \in Import, import'[k].at = "putting", NEW draft \in import'[k].draft
      PROVE  Found(draft)' = {}
  <2>1. Found(draft) = {}
    BY <1>1, <1>5 DEF SerialInv
  <2> QED
    BY <2>1 DEF Found, Matches
<1> QED
  BY <1>2, <1>4, <1>5 DEF SerialInv

LEMMA SerialStep ==
    ASSUME ImportInv, SerialInv, NEW i \in Import, Step(i)
    PROVE  SerialInv'
<1>1. CASE \E text \in Texts : BeginImport(i, text) \/ RejectImport(i, text)
  <2>1. /\ import' = [import EXCEPT ![i] = import'[i]]
        /\ import'[i].at # "putting"
        /\ UNCHANGED <<serial, artifacts>>
        /\ serial => \A k \in Import : ~Running(k)
    BY <1>1 DEF BeginImport, RejectImport, Begin, ImportInv, CodeTypeOK
  <2>2. CASE serial
    BY <2>1, <2>2, SerialStays
  <2>3. CASE ~serial
    BY <2>1, <2>3 DEF SerialInv
  <2> QED
    BY <2>2, <2>3
<1>2. CASE CreateArtifact(i)
  <2>1. Running(i)
    BY <1>2 DEF CreateArtifact, Draft, Running, Ended
  <2> QED
    BY <1>2, <2>1, CreateStep, SerialStays
<1>3. CASE FindNothing(i) \/ LoseImport(i)
  <2>1. Running(i)
    BY <1>3 DEF FindNothing, LoseImport, Running, Ended
  <2>2. FindNothing(i) => \A draft \in import[i].draft : Found(draft) = {}
    BY DEF FindNothing
  <2> QED
    BY <1>3, <2>1, <2>2, OtherStep, SerialStays
<1>4. CASE ReturnExisting(i) \/ PutArtifact(i)
  <2>1. PICK a \in Artifact :
           /\ a.content = BlockOf(i).content /\ Answer(i, a)
           /\ artifacts' = artifacts \cup {a} /\ UNCHANGED <<serial, answer>>
           /\ import[i].at \in {"searching", "putting"}
           /\ PutArtifact(i) => import[i].draft = {a}
           /\ ReturnExisting(i) => a \in artifacts
    BY <1>4, ToldOf
  <2>2. /\ import' = [import EXCEPT ![i] = import'[i]]
        /\ import'[i].at \in {"done", "drafting"}
    BY <2>1, AnswerStep
  <2>3. Running(i)
    BY <2>1 DEF Running, Ended
  <2>4. CASE ReturnExisting(i)
    BY <2>1, <2>2, <2>3, <2>4, SerialStays
  <2>5. CASE PutArtifact(i)
    <3> SUFFICES ASSUME serial PROVE SerialInv'
      BY <2>1 DEF SerialInv
    <3>1. \A k \in Import \ {i} : import'[k] = import[k]
      BY <2>2 DEF ImportInv, CodeTypeOK
    <3>2. \A k \in Import \ {i} : ~Running(k) /\ ~Running(k)'
      BY <2>3, <3>1 DEF SerialInv, Running
    <3>3. \A b \in artifacts : b.content # a.content
      BY <2>1, <2>5 DEF PutArtifact, SerialInv, Found, Matches
    <3>4. OneArtifactPerContent'
      BY <2>1, <3>3 DEF SerialInv, OneArtifactPerContent
    <3>5. \A k \in Import : import'[k].at # "putting"
      BY <2>2, <3>2 DEF Running, Ended
    <3> QED
      BY <3>2, <3>4, <3>5 DEF SerialInv
  <2> QED
    BY <1>4, <2>4, <2>5
<1> QED
  BY <1>1, <1>2, <1>3, <1>4 DEF Step

(* One artifact for each content when imports take turns, however many of  *)
(* them died after any of their blocks and were tried again.               *)
THEOREM ContentIsStoredOnce == CodeSpec => []OneArtifactPerContent
<1>1. ImportInv /\ SerialInv /\ [CodeNext]_codeVars => SerialInv'
  <2> SUFFICES ASSUME ImportInv, SerialInv, [CodeNext]_codeVars PROVE SerialInv'
    OBVIOUS
  <2>1. CASE \E i \in Import : Step(i)
    BY <2>1, SerialStep
  <2>2. CASE (\E q \in Queries : Recall(q)) \/ UNCHANGED codeVars
    <3>1. UNCHANGED <<serial, artifacts, import>>
      BY <2>2 DEF Recall, codeVars
    <3> QED
      BY <3>1 DEF SerialInv, OneArtifactPerContent, Running, Found, Matches
  <2> QED
    BY <2>1, <2>2 DEF CodeNext, Step
<1>2. SerialInv => OneArtifactPerContent
  BY DEF SerialInv, OneArtifactPerContent
<1>3. CodeInit => SerialInv
  BY SerialInit
<1> QED
  BY <1>1, <1>2, <1>3, ImportInvariance, PTL DEF CodeSpec

-----------------------------------------------------------------------------
(* Recall.                                                                 *)

(* Every block that an import was told of is recalled by a query that its  *)
(* artifact satisfies, unless a limit's worth of others score no less.     *)
THEOREM ToldIsRecalled == CodeSpec => ImportsAreRecalled
<1> DEFINE
      Recalled(i, r, n) ==
          \E a \in artifacts :
             /\ a.artifact_id = import[i].answers[n]
             /\ \/ a \notin Hits(r.query)
                \/ \E m \in DOMAIN r.hits : r.hits[m] = a
                \/ /\ Len(r.hits) >= r.query.limit /\ r.hits # <<>>
                   /\ \A m \in DOMAIN r.hits :
                         Score(r.hits[m], r.query.tokens) >= Score(a, r.query.tokens)
<1>1. ASSUME ImportInv, [CodeNext]_codeVars
      PROVE  [ \A i \in Import, r \in answer' \ answer :
                  \A n \in DOMAIN import[i].answers : Recalled(i, r, n) ]_codeVars
  <2> SUFFICES ASSUME NEW i \in Import, NEW r \in answer' \ answer,
                      NEW n \in DOMAIN import[i].answers
               PROVE  Recalled(i, r, n)
    OBVIOUS
  <2>1. PICK q \in Queries : Recall(q)
    BY <1>1 DEF CodeNext, BeginImport, RejectImport, Begin, CreateArtifact, Draft,
                ReturnExisting, FindNothing, PutArtifact, LoseImport, codeVars
  <2>2. PICK s \in Ranked(Hits(q), q.tokens) :
           answer' = {[query |-> q, hits |-> SubSeq(s, 1, Min({Limit(q), Len(s)}))]}
    BY <2>1 DEF Recall
  <2> DEFINE len == Min({Limit(q), Len(s)})
             hits == SubSeq(s, 1, len)
  <2>3. Hits(q) \subseteq artifacts /\ IsFiniteSet(Hits(q)) /\ s \in SetToSeqs(Hits(q))
    BY <1>1, <2>2, FS_Subset DEF Hits, ImportInv, Ranked
  <2>4. /\ s \in Seq(Hits(q)) /\ DOMAIN s = 1 .. Len(s)
        /\ \A a \in Hits(q) : \E m \in DOMAIN s : s[m] = a
    BY <2>3, Orderings
  <2>5. \A m, k \in DOMAIN s : m < k => Score(s[m], q.tokens) >= Score(s[k], q.tokens)
    BY <2>2 DEF Ranked
  <2>6. /\ len \in 0 .. Len(s)
        /\ len < Len(s) => len >= q.limit
        /\ Len(s) > 0 => len > 0
    BY <2>4, RecallLength
  <2>7. /\ Len(hits) = len /\ DOMAIN hits = 1 .. len
        /\ \A m \in 1 .. len : hits[m] = s[m]
    <3> HIDE DEF len
    <3> QED
      BY <2>4, <2>6, FirstOnes
  <2>8. r = [query |-> q, hits |-> hits]
    BY <2>2
  <2> HIDE DEF len, hits
  <2>9. r.query = q /\ r.hits = hits
    BY <2>8
  <2>10. PICK a \in artifacts : a.artifact_id = import[i].answers[n]
    BY <1>1 DEF ImportInv, FindableOf
  <2>11. CASE a \in Hits(q)
    <3>1. PICK k \in DOMAIN s : s[k] = a
      BY <2>4, <2>11
    <3>2. CASE k <= len
      BY <2>4, <2>6, <2>7, <2>9, <2>10, <3>1, <3>2
    <3>3. CASE k > len
      <4>1. len < Len(s) /\ len > 0 /\ len \in Nat
        BY <2>4, <2>6, <3>3
      <4>2. \A m \in DOMAIN hits : Score(hits[m], q.tokens) >= Score(a, q.tokens)
        <5> SUFFICES ASSUME NEW m \in 1 .. len
                     PROVE  Score(s[m], q.tokens) >= Score(a, q.tokens)
          BY <2>7
        <5>1. m \in DOMAIN s /\ m < k
          BY <2>4, <3>3, <4>1
        <5> QED
          BY <2>5, <3>1, <5>1
      <4>3. Len(hits) >= q.limit /\ hits # <<>>
        BY <2>6, <2>7, <4>1
      <4> QED
        BY <2>9, <2>10, <4>2, <4>3
    <3> QED
      BY <2>4, <2>6, <3>2, <3>3
  <2> QED
    BY <2>9, <2>10, <2>11
<1> QED
  BY <1>1, ImportInvariance, PTL DEF CodeSpec, ImportsAreRecalled
=============================================================================
