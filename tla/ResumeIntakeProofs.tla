------------------------- MODULE ResumeIntakeProofs --------------------------
(***************************************************************************)
(* For any uploads of any files: a committed resume has its file in the    *)
(* object store, what is answered is true, and a second candidate for the  *)
(* same content comes only of uploads that overlap.  IInv is inductive:    *)
(* the first two, the types, how many files and answers a request has      *)
(* (Sized), and what it knows of the resume in hand (InHand).              *)
(***************************************************************************)
EXTENDS ResumeIntake, SequenceTheorems, TLAPS

AtFile == {"lookup", "analyze", "put", "insert"}

(* The answers are of the files done. *)
Sized ==
    \A r \in Request :
        /\ pc[r] \in AtFile => Len(items[r]) < Len(files[r])
        /\ pc[r] # "idle" => job[r] \in Job
        /\ pc[r] = "idle" => files[r] = << >>
        /\ Len(items[r]) <= Len(files[r])

(* The id in hand is nobody else's and not committed; its object is stored *)
(* before it is inserted, and no resume that was known has the content.    *)
InHand ==
    \A r \in Request :
        /\ id[r] # NoResume <=> pc[r] \in {"put", "insert"}
        /\ id[r] \notin rows
        /\ \A q \in Request : id[q] = id[r] /\ id[q] # NoResume => q = r
        /\ pc[r] = "insert" => id[r] \in objects
        /\ pc[r] \in {"analyze", "put", "insert"} =>
             \A m \in known[r] : m \in rows /\ checksum[m] # Current(r)
        /\ pc[r] \notin {"analyze", "put", "insert"} => known[r] = {}

IInv == StoredFilesHaveObjects /\ AnswersTrue /\ Sized /\ InHand

-----------------------------------------------------------------------------
(* A bounded sequence is a sequence that is not too long. *)
LEMMA Bounded ==
    ASSUME NEW S, NEW n \in Nat, NEW s
    PROVE  s \in BoundedSeq(S, n) <=> s \in Seq(S) /\ Len(s) <= n
<1>1. ASSUME s \in BoundedSeq(S, n) PROVE s \in Seq(S) /\ Len(s) <= n
  <2>1. PICK m \in 0..n : s \in [1..m -> S]
    BY <1>1 DEF BoundedSeq, SeqOf
  <2> QED
    BY <2>1
<1>2. ASSUME s \in Seq(S), Len(s) <= n PROVE s \in BoundedSeq(S, n)
  <2>1. Len(s) \in 0..n /\ s \in [1..Len(s) -> S]
    BY <1>2
  <2> QED
    BY <2>1 DEF BoundedSeq, SeqOf
<1> QED
  BY <1>1, <1>2

(* The empty sequence is short enough. *)
LEMMA EmptyBounded ==
    ASSUME NEW S
    PROVE  << >> \in BoundedSeq(S, MaxFiles)
<1>1. MaxFiles \in Nat /\ Len(<< >>) <= MaxFiles
  BY FilesAssumption
<1>2. << >> \in Seq(S)
  BY EmptySeq
<1> QED
  BY <1>1, <1>2, Bounded

(* The initial states satisfy the inductive invariant. *)
LEMMA InitInv == Init => IInv
<1> SUFFICES ASSUME Init PROVE IInv
  OBVIOUS
<1> USE FilesAssumption, NullAssumption DEF Init
<1>1. << >> \in BoundedSeq(Content, MaxFiles) /\ << >> \in BoundedSeq(Item, MaxFiles)
  BY EmptyBounded
<1>2. TypeOK
  BY <1>1 DEF TypeOK
<1>3. StoredFilesHaveObjects
  BY <1>2 DEF StoredFilesHaveObjects
<1>4. Sized
  <2>1. Len(<< >>) = 0
    OBVIOUS
  <2> QED
    BY <2>1 DEF Sized, AtFile
<1>5. InHand
  BY DEF InHand
<1>6. AnswersTrue
  BY DEF AnswersTrue
<1> QED
  BY <1>3, <1>4, <1>5, <1>6 DEF IInv

(* What the files and answers of a request are. *)
LEMMA SeqTypes ==
    ASSUME TypeOK, NEW r \in Request
    PROVE  /\ files[r] \in Seq(Content) /\ Len(files[r]) \in Nat
           /\ items[r] \in Seq(Item) /\ Len(items[r]) \in Nat
<1>1. files[r] \in BoundedSeq(Content, MaxFiles) /\ items[r] \in BoundedSeq(Item, MaxFiles)
  BY DEF TypeOK
<1>2. files[r] \in Seq(Content) /\ items[r] \in Seq(Item)
  BY <1>1, Bounded, FilesAssumption
<1> QED
  BY <1>2

(* What processFile leaves when it returns. *)
LEMMA NextFileTypes ==
    ASSUME IInv, NEW r \in Request, pc[r] \in AtFile, NEW status, NEW n,
           [status |-> status, resume |-> n] \in Item, NextFile(r, status, n)
    PROVE  /\ pc' \in [Request -> {"idle", "lookup", "analyze", "put", "insert", "respond"}]
           /\ job' = job
           /\ files' \in [Request -> BoundedSeq(Content, MaxFiles)]
           /\ id' \in [Request -> Resume \cup {NoResume}]
           /\ items' \in [Request -> BoundedSeq(Item, MaxFiles)]
           /\ known' \in [Request -> SUBSET Resume]
           /\ Sized'
<1> DEFINE x == [status |-> status, resume |-> n]
<1>1. TypeOK /\ Sized
  BY DEF IInv, StoredFilesHaveObjects
<1>2. /\ files[r] \in Seq(Content) /\ Len(files[r]) \in Nat /\ Len(files[r]) <= MaxFiles
      /\ items[r] \in Seq(Item) /\ Len(items[r]) \in Nat
      /\ Len(items[r]) < Len(files[r]) /\ job[r] \in Job /\ MaxFiles \in Nat
  <2>1. files[r] \in BoundedSeq(Content, MaxFiles) /\ MaxFiles \in Nat
    BY <1>1, FilesAssumption DEF TypeOK
  <2>2. Len(files[r]) <= MaxFiles
    BY <2>1, Bounded
  <2> QED
    BY <1>1, <2>1, <2>2, SeqTypes DEF Sized, AtFile
<1>3. Append(items[r], x) \in Seq(Item) /\ Len(Append(items[r], x)) = Len(items[r]) + 1
  BY <1>2, AppendProperties
<1>4. Append(items[r], x) \in BoundedSeq(Item, MaxFiles)
  <2>1. Len(Append(items[r], x)) <= MaxFiles
    BY <1>2, <1>3
  <2> HIDE DEF x
  <2> QED
    BY <1>2, <1>3, <2>1, Bounded
<1>5. /\ files' = files
      /\ items' = [items EXCEPT ![r] = Append(items[r], x)]
      /\ pc' = [pc EXCEPT ![r] = IF Len(items[r]) + 1 = Len(files[r]) THEN "respond" ELSE "lookup"]
      /\ id' = [id EXCEPT ![r] = NoResume]
      /\ known' = [known EXCEPT ![r] = {}]
      /\ job' = job
  BY DEF NextFile
<1>6. /\ pc \in [Request -> {"idle", "lookup", "analyze", "put", "insert", "respond"}]
      /\ files \in [Request -> BoundedSeq(Content, MaxFiles)]
      /\ id \in [Request -> Resume \cup {NoResume}]
      /\ items \in [Request -> BoundedSeq(Item, MaxFiles)]
      /\ known \in [Request -> SUBSET Resume]
  BY <1>1 DEF TypeOK
<1>7. Sized'
  <2> SUFFICES ASSUME NEW q \in Request
               PROVE  /\ pc'[q] \in AtFile => Len(items'[q]) < Len(files[q])
                      /\ pc'[q] # "idle" => job'[q] \in Job
                      /\ pc'[q] = "idle" => files[q] = << >>
                      /\ Len(items'[q]) <= Len(files[q])
    BY <1>5 DEF Sized
  <2>1. CASE q = r
    <3>1. /\ Len(items'[r]) = Len(items[r]) + 1
          /\ pc'[r] = IF Len(items[r]) + 1 = Len(files[r]) THEN "respond" ELSE "lookup"
      BY <1>3, <1>5, <1>6
    <3>2. Len(items'[r]) = Len(files[r]) => pc'[r] \notin AtFile
      BY <3>1 DEF AtFile
    <3>3. pc'[r] # "idle" /\ job'[r] \in Job
      BY <1>2, <1>5, <3>1
    <3> QED
      BY <1>2, <2>1, <3>1, <3>2, <3>3
  <2>2. CASE q # r
    <3>1. items'[q] = items[q] /\ pc'[q] = pc[q] /\ job'[q] = job[q]
      BY <1>5, <1>6, <2>2
    <3> QED
      BY <1>1, <3>1 DEF Sized
  <2> QED
    BY <2>1, <2>2
<1> QED
  BY <1>4, <1>5, <1>6, <1>7

(* When processFile returns, the invariant holds again if the tables have  *)
(* only grown, by the resume in hand, and the answer is true.              *)
LEMMA NextFileInv ==
    ASSUME IInv, NEW r \in Request, pc[r] \in AtFile, NEW status, NEW n,
           [status |-> status, resume |-> n] \in Item, NextFile(r, status, n),
           rows \subseteq rows', rows' \subseteq rows \cup {id[r]},
           rows' \subseteq objects', objects \subseteq objects', objects' \subseteq Resume,
           checksum' \in [Resume -> Content \cup {NoContent}],
           \A m \in Resume : m \in rows' <=> checksum'[m] # NoContent,
           \A m \in rows : checksum'[m] = checksum[m],
           attached \subseteq attached', attached' \subseteq Job \X rows',
           status # "failed" =>
             n \in rows' /\ checksum'[n] = Current(r) /\ <<job[r], n>> \in attached'
    PROVE  IInv'
<1>1. TypeOK /\ Sized /\ InHand /\ AnswersTrue
  BY DEF IInv, StoredFilesHaveObjects
<1>2. TypeOK'
  BY <1>1, NextFileTypes DEF TypeOK
<1>3. /\ files' = files
      /\ items' = [items EXCEPT ![r] = Append(items[r], [status |-> status, resume |-> n])]
      /\ pc' = [pc EXCEPT ![r] = IF Len(items[r]) + 1 = Len(files[r]) THEN "respond" ELSE "lookup"]
      /\ id' = [id EXCEPT ![r] = NoResume]
      /\ known' = [known EXCEPT ![r] = {}]
      /\ job' = job
  BY DEF NextFile
<1>4. /\ pc \in [Request -> {"idle", "lookup", "analyze", "put", "insert", "respond"}]
      /\ files \in [Request -> BoundedSeq(Content, MaxFiles)]
      /\ id \in [Request -> Resume \cup {NoResume}]
      /\ items \in [Request -> BoundedSeq(Item, MaxFiles)]
      /\ known \in [Request -> SUBSET Resume]
      /\ rows \subseteq Resume
  BY <1>1 DEF TypeOK
<1>5. InHand'
  <2> SUFFICES ASSUME NEW q \in Request
               PROVE  /\ id'[q] # NoResume <=> pc'[q] \in {"put", "insert"}
                      /\ id'[q] \notin rows'
                      /\ \A p \in Request : id'[p] = id'[q] /\ id'[p] # NoResume => p = q
                      /\ pc'[q] = "insert" => id'[q] \in objects'
                      /\ pc'[q] \in {"analyze", "put", "insert"} =>
                           \A m \in known'[q] : m \in rows' /\ checksum'[m] # Current(q)'
                      /\ pc'[q] \notin {"analyze", "put", "insert"} => known'[q] = {}
    BY DEF InHand
  <2>1. NoResume \notin rows'
    BY NullAssumption
  <2>2. \A p \in Request \ {r} : /\ pc'[p] = pc[p] /\ id'[p] = id[p] /\ known'[p] = known[p]
                                 /\ Current(p)' = Current(p)
    BY <1>3, <1>4 DEF Current
  <2>3. id'[r] = NoResume /\ known'[r] = {} /\ pc'[r] \in {"respond", "lookup"}
    BY <1>3, <1>4
  <2>4. CASE q = r
    BY <2>1, <2>3, <2>4
  <2>5. CASE q # r
    <3>1. id[q] \notin rows'
      BY <1>1, <2>1, <2>5 DEF InHand
    <3>2. \A p \in Request : id'[p] = id'[q] /\ id'[p] # NoResume => p = q
      BY <1>1, <2>2, <2>3, <2>5 DEF InHand
    <3>3. \A m \in known[q] : m \in rows => m \in rows' /\ checksum'[m] = checksum[m]
      OBVIOUS
    <3> QED
      BY <1>1, <2>2, <2>5, <3>1, <3>2, <3>3 DEF InHand
  <2> QED
    BY <2>4, <2>5
<1>6. AnswersTrue'
  <2>0. ASSUME NEW q \in Request, pc'[q] = "respond" PROVE Len(items'[q]) = Len(files[q])
    <3>1. CASE q = r
      <4>1. items[r] \in Seq(Item) /\ Len(items[r]) + 1 = Len(files[r])
        BY <1>1, <1>3, <1>4, <2>0, <3>1, SeqTypes
      <4> QED
        BY <1>3, <1>4, <3>1, <4>1, AppendProperties
    <3>2. CASE q # r
      BY <1>1, <1>3, <1>4, <2>0, <3>2 DEF AnswersTrue
    <3> QED
      BY <3>1, <3>2
  <2> SUFFICES ASSUME NEW q \in Request, NEW k \in 1..Len(items'[q]), items'[q][k].status # "failed"
               PROVE  /\ items'[q][k].resume \in rows' \cap objects'
                      /\ checksum'[items'[q][k].resume] = files[q][k]
                      /\ <<job[q], items'[q][k].resume>> \in attached'
    BY <1>3, <2>0 DEF AnswersTrue
  <2>1. ASSUME k \in 1..Len(items[q]), items'[q][k] = items[q][k]
        PROVE  /\ items'[q][k].resume \in rows' \cap objects'
               /\ checksum'[items'[q][k].resume] = files[q][k]
               /\ <<job[q], items'[q][k].resume>> \in attached'
    BY <1>1, <2>1 DEF AnswersTrue
  <2>2. CASE q # r
    BY <1>3, <1>4, <2>1, <2>2
  <2>3. CASE q = r
    <3>1. items[r] \in Seq(Item)
      BY <1>1, SeqTypes
    <3>2. items'[r] = Append(items[r], [status |-> status, resume |-> n])
      BY <1>3, <1>4
    <3>3. /\ Len(items[r]) \in Nat /\ Len(items'[r]) = Len(items[r]) + 1
          /\ items'[r][Len(items[r]) + 1] = [status |-> status, resume |-> n]
          /\ \A i \in 1..Len(items[r]) : items'[r][i] = items[r][i]
      BY <3>1, <3>2, AppendProperties, LenProperties
    <3>4. CASE k = Len(items[r]) + 1
      BY <2>3, <3>3, <3>4 DEF Current
    <3>5. CASE k # Len(items[r]) + 1
      BY <2>1, <2>3, <3>3, <3>5
    <3> QED
      BY <3>4, <3>5
  <2> QED
    BY <2>2, <2>3
<1> QED
  BY <1>2, <1>5, <1>6, NextFileTypes DEF IInv, StoredFilesHaveObjects

-----------------------------------------------------------------------------
(* A step preserves the inductive invariant. *)
LEMMA InvStep ==
    ASSUME IInv, [Next]_vars
    PROVE  IInv'
<1>1. /\ TypeOK /\ Sized /\ InHand /\ AnswersTrue /\ rows \subseteq objects
      /\ FilesAssumption /\ NullAssumption
  BY FilesAssumption, NullAssumption DEF IInv, StoredFilesHaveObjects
<1>2. ASSUME NEW r \in Request, NEW j \in Job, NEW fs \in BoundedSeq(Content, MaxFiles) \ {<< >>}, Upload(r, j, fs) PROVE IInv'
  <2>1. fs \in Seq(Content) /\ Len(fs) <= MaxFiles /\ Len(fs) > 0
    <3>1. fs \in Seq(Content) /\ Len(fs) <= MaxFiles
      BY <1>1, Bounded DEF FilesAssumption
    <3> QED
      BY <3>1, EmptySeq
  <2>2. TypeOK'
    BY <1>1, <1>2 DEF Upload, TypeOK, tables
  <2>3. Sized'
    BY <1>1, <1>2, <2>1 DEF Upload, TypeOK, Sized, AtFile, FilesAssumption
  <2>4. InHand'
    BY <1>1, <1>2 DEF Upload, TypeOK, InHand, Current, tables
  <2>5. AnswersTrue'
    BY <1>1, <1>2 DEF Upload, TypeOK, AnswersTrue, Sized, tables
  <2> QED
    BY <1>1, <1>2, <2>2, <2>3, <2>4, <2>5 DEF IInv, StoredFilesHaveObjects, Upload, tables
<1>3. ASSUME NEW r \in Request, NEW n \in Resume, Duplicate(r, n) \/ DuplicateUnknown(r, n) PROVE IInv'
  <2>1. PICK status \in {"duplicate", "failed"}, m \in {n, NoResume} :
          /\ [status |-> status, resume |-> m] \in Item
          /\ status = "failed" \/ m = n
          /\ AttachDuplicate(r, n) /\ NextFile(r, status, m)
    BY <1>3 DEF Duplicate, DuplicateUnknown, Item
  <2>2. n \in rows /\ pc[r] \in AtFile /\ job[r] \in Job
    BY <1>1, <2>1 DEF AttachDuplicate, WithContent, AtFile, Sized
  <2>3. /\ UNCHANGED <<rows, checksum, objects>>
        /\ attached' = attached \cup {<<job[r], n>>} /\ attached' \subseteq Job \X rows'
    BY <1>1, <2>1, <2>2 DEF AttachDuplicate, TypeOK
  <2>4. /\ checksum \in [Resume -> Content \cup {NoContent}] /\ objects \subseteq Resume
        /\ \A m2 \in Resume : m2 \in rows <=> checksum[m2] # NoContent
    BY <1>1 DEF TypeOK
  <2>5. status # "failed" =>
          m \in rows' /\ checksum'[m] = Current(r) /\ <<job[r], m>> \in attached'
    BY <2>1, <2>2, <2>3 DEF AttachDuplicate, WithContent
  <2> QED
    BY <1>1, <2>1, <2>2, <2>3, <2>4, <2>5, NextFileInv
<1>4. ASSUME NEW r \in Request, NoDuplicate(r) PROVE IInv'
  <2>1. TypeOK' /\ Sized' /\ AnswersTrue'
    BY <1>1, <1>4 DEF NoDuplicate, TypeOK, tables, Sized, AtFile, AnswersTrue
  <2>2. InHand'
    BY <1>1, <1>4 DEF NoDuplicate, TypeOK, tables, InHand, Current, WithContent
  <2> QED
    BY <1>1, <1>4, <2>1, <2>2 DEF IInv, StoredFilesHaveObjects, NoDuplicate, tables
<1>5. ASSUME NEW r \in Request, NEW n \in Resume, Analyzed(r, n) PROVE IInv'
  <2>1. TypeOK' /\ Sized' /\ AnswersTrue'
    BY <1>1, <1>5 DEF Analyzed, TypeOK, tables, Sized, AtFile, AnswersTrue
  <2>2. InHand'
    BY <1>1, <1>5 DEF Analyzed, TypeOK, tables, InHand, Current, NullAssumption
  <2> QED
    BY <1>1, <1>5, <2>1, <2>2 DEF IInv, StoredFilesHaveObjects, Analyzed, tables
<1>6. ASSUME NEW r \in Request, Stored(r) PROVE IInv'
  <2>1. TypeOK' /\ Sized' /\ AnswersTrue'
    BY <1>1, <1>6 DEF Stored, TypeOK, tables, Sized, AtFile, AnswersTrue, InHand
  <2>2. InHand'
    BY <1>1, <1>6 DEF Stored, TypeOK, tables, InHand, Current
  <2> QED
    BY <1>1, <1>6, <2>1, <2>2 DEF IInv, StoredFilesHaveObjects, Stored, tables
<1>7. ASSUME NEW r \in Request, PutFailed(r) \/ FileFailed(r) PROVE IInv'
  <2>1. /\ NextFile(r, "failed", NoResume) /\ pc[r] \in AtFile
        /\ UNCHANGED tables /\ objects' \in {objects, objects \cup {id[r]}}
        /\ objects' = objects \/ pc[r] = "put"
    BY <1>7 DEF PutFailed, FileFailed, AtFile
  <2>2. [status |-> "failed", resume |-> NoResume] \in Item
    BY DEF Item
  <2>3. objects' \subseteq Resume
    BY <1>1, <2>1 DEF InHand, TypeOK
  <2> QED
    BY <1>1, <2>1, <2>2, <2>3, NextFileInv DEF TypeOK, tables
<1>8. ASSUME NEW r \in Request, Inserted(r) \/ InsertUnknown(r) PROVE IInv'
  <2>1. id[r] \in Resume /\ id[r] \notin rows /\ id[r] \in objects /\ job[r] \in Job
    BY <1>1, <1>8 DEF Inserted, InsertUnknown, TypeOK, InHand, Sized
  <2>2. PICK status \in {"ready", "failed"}, m \in {id[r], NoResume} :
          /\ [status |-> status, resume |-> m] \in Item
          /\ status = "failed" \/ m = id[r]
          /\ pc[r] = "insert" /\ Commit(r) /\ NextFile(r, status, m)
    BY <1>8, <2>1 DEF Inserted, InsertUnknown, Item
  <2>3. Current(r) \in Content
    <3>1. /\ files[r] \in Seq(Content) /\ Len(files[r]) \in Nat
          /\ Len(items[r]) \in Nat /\ Len(items[r]) < Len(files[r])
      BY <1>1, <2>2, SeqTypes DEF Sized, AtFile
    <3> QED
      BY <3>1 DEF Current
  <2>4. /\ checksum' \in [Resume -> Content \cup {NoContent}]
        /\ \A m2 \in Resume : m2 \in rows' <=> checksum'[m2] # NoContent
        /\ \A m2 \in rows : checksum'[m2] = checksum[m2]
        /\ rows' = rows \cup {id[r]} /\ attached' = attached \cup {<<job[r], id[r]>>}
        /\ objects' = objects /\ checksum'[id[r]] = Current(r)
    BY <1>1, <2>1, <2>2, <2>3 DEF Commit, TypeOK, NullAssumption
  <2>5. /\ rows' \subseteq objects' /\ objects' \subseteq Resume
        /\ attached' \subseteq Job \X rows' /\ pc[r] \in AtFile
    BY <1>1, <2>1, <2>2, <2>4 DEF TypeOK, AtFile
  <2>6. status # "failed" =>
          m \in rows' /\ checksum'[m] = Current(r) /\ <<job[r], m>> \in attached'
    BY <2>2, <2>4
  <2> QED
    BY <1>1, <2>2, <2>4, <2>5, <2>6, NextFileInv
<1>9. ASSUME NEW r \in Request, Respond(r) \/ Crash(r) PROVE IInv'
  <2>1. Ended(r)
    BY <1>9 DEF Respond, Crash
  <2>2. << >> \in BoundedSeq(Content, MaxFiles) /\ << >> \in BoundedSeq(Item, MaxFiles)
    BY EmptyBounded
  <2>3. TypeOK'
    BY <1>1, <2>1, <2>2 DEF Ended, TypeOK, tables
  <2>4. Sized'
    BY <1>1, <2>1 DEF Ended, TypeOK, Sized, AtFile, FilesAssumption
  <2>5. AnswersTrue' /\ InHand'
    BY <1>1, <2>1 DEF Ended, TypeOK, tables, AnswersTrue, InHand, Current, NullAssumption
  <2> QED
    BY <1>1, <2>1, <2>3, <2>4, <2>5 DEF IInv, StoredFilesHaveObjects, Ended, tables
<1>10. CASE UNCHANGED vars
  BY <1>1, <1>10 DEF vars, tables, IInv, StoredFilesHaveObjects, TypeOK, Sized, InHand, Current, AnswersTrue
<1> QED
  BY <1>2, <1>3, <1>4, <1>5, <1>6, <1>7, <1>8, <1>9, <1>10 DEF Next

(* What the theorems below rest on, in every reachable state. *)
THEOREM Inductive == Spec => []IInv
BY InitInv, InvStep, PTL DEF Spec

-----------------------------------------------------------------------------
(* Through every failure and crash a committed resume has its object:      *)
(* processFile stores before it inserts.                                   *)
THEOREM ObjectsThere == Spec => []StoredFilesHaveObjects
<1>1. IInv => StoredFilesHaveObjects
  BY DEF IInv
<1> QED
  BY <1>1, Inductive, PTL

(* What bulkUpload reports of a file is so: ready or duplicate is a resume *)
(* of that very file's content.                                            *)
THEOREM TrueAnswers == Spec => []AnswersTrue
<1>1. IInv => AnswersTrue
  BY DEF IInv
<1> QED
  BY <1>1, Inductive, PTL

(* The look for the checksum misses only resumes committed after it.       *)
LEMMA RaceStep ==
    ASSUME IInv, [Next]_vars, NEW r \in Request, NEW n \in rows' \ rows,
           pc[r] = "insert", id[r] = n
    PROVE  \A m \in WithContent(checksum'[n]) : m \notin known[r]
<1>1. PICK q \in Request : Inserted(q) \/ InsertUnknown(q)
  BY DEF Next, vars, tables, Upload, Duplicate, DuplicateUnknown, AttachDuplicate,
         NoDuplicate, Analyzed, Stored, PutFailed, FileFailed, Respond, Crash, Ended
<1>2. Commit(q) /\ id[q] = n
  BY <1>1 DEF Inserted, InsertUnknown, Commit
<1>3. q = r /\ n \in Resume
  BY <1>2, NullAssumption DEF IInv, InHand, StoredFilesHaveObjects, TypeOK
<1>4. checksum'[n] = Current(r)
  BY <1>2, <1>3 DEF Commit, IInv, StoredFilesHaveObjects, TypeOK
<1> QED
  BY <1>4 DEF IInv, InHand, WithContent

(* A second candidate for a content comes only of uploads that overlap.    *)
THEOREM RacesOnly == Spec => DuplicatesOnlyByRace
<1>1. IInv /\ [Next]_vars =>
        [\A r \in Request, n \in rows' \ rows :
           pc[r] = "insert" /\ id[r] = n =>
             \A m \in WithContent(checksum'[n]) : m \notin known[r]]_vars
  BY RaceStep
<1> QED
  BY <1>1, Inductive, PTL DEF Spec, DuplicatesOnlyByRace

=============================================================================
