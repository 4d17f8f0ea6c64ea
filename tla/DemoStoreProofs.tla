--------------------------- MODULE DemoStoreProofs ---------------------------
(***************************************************************************)
(* For any jobs, CVs, requests and sizes of store and seed: what is stored *)
(* is consistent, uploads are lost to overlapping requests only, a seed    *)
(* that nobody disturbs leaves whole jobs, and the page of a job shows of  *)
(* a CV what is of that CV.  The first part is about every handler of      *)
(* DemoStore: its jobs are good ones (Goods), CVs belong to one job (Own)  *)
(* and who has a job in hand has its safe CVs (Held).  The second is about *)
(* the tools: how far a seed is (Tooled, Seeded); the third about the page *)
(* of a job: the job shown is a good one (Shown).                          *)
(***************************************************************************)
EXTENDS WorkspaceTools, JobPage, SequenceTheorems, FiniteSetTheorems, TLAPS

(* A job that agrees with itself; its CVs are numbered through. *)
Good(j) ==
    /\ IsFiniteSet(j.cvs)
    /\ j.cv_count = Cardinality(Ready(j))
    /\ \A c \in j.cvs : c.number \in 1..Cardinality(j.cvs)
    /\ \A c, d \in j.cvs : c.number = d.number => c = d
    /\ j.run # NoRun => j.run \subseteq Candidates(j)

InPlay == Jobs(store) \cup Jobs(disk) \cup ({base[r] : r \in Request} \ {NoJob})
HasJob(r) == pc[r] \in {"analyze", "rank", "once_analyze", "once_rank"}

Goods ==
    /\ \A j \in InPlay : Good(j)
    /\ \A r \in Request : /\ HasJob(r) => base[r] # NoJob
                          /\ IsFiniteSet(files[r])

Ids(j) == {c.id : c \in j.cvs}

(* Ids are used once. *)
Own ==
    /\ \A j, k \in InPlay : j.id # k.id => Ids(j) \cap Ids(k) = {}
    /\ \A j \in InPlay : j.id \in drawn /\ Ids(j) \subseteq drawn
    /\ \A r \in Request : /\ files[r] \subseteq drawn
                          /\ \A j \in InPlay : files[r] \cap Ids(j) = {}
                          /\ \A q \in Request \ {r} : files[r] \cap files[q] = {}

Held ==
    \A x \in safe : \E j \in Jobs(store) :
        /\ x \in Ids(j)
        /\ \A r \in Request : base[r] # NoJob /\ base[r].id = j.id => x \in Ids(base[r])

DInv == TypeOK /\ Goods /\ Own /\ Held

Tooled ==
    /\ TTypeOK
    /\ by \in Request \cup {NoRequest}
    /\ tool \in Seeding => left \in 1..Fixtures

(* How far an undisturbed seed is. *)
Seeded ==
    alone =>
        /\ tool # "importing"
        /\ \A r \in Request \ {by} : pc[r] = "idle"
        /\ \A k \in 2..Len(store) : Whole(store[k])
        /\ tool = "idle" /\ left = 0 => Len(store) = Fixtures /\ Whole(store[1])
        /\ tool \in {"reset", "creating"} =>
             Len(store) = Fixtures - left /\ (Len(store) > 0 => Whole(store[1]))
        /\ tool \in {"created", "uploading", "uploaded", "ranking"} =>
             Len(store) = Fixtures - left + 1 /\ store[1].id = toolJob
        /\ tool \in {"uploading", "ranking"} => base[by] = store[1]
        /\ tool = "uploading" => files[by] # {}
        /\ tool \in {"uploaded", "ranking"} => store[1].cvs # {}

IInv == DInv /\ Tooled /\ Seeded

-----------------------------------------------------------------------------
(* A sequence without its i-th element. *)
LEMMA Removed ==
    ASSUME NEW S, NEW s \in Seq(S), NEW i \in 1..Len(s)
    PROVE  /\ RemoveAt(s, i) \in Seq(S)
           /\ Len(RemoveAt(s, i)) = Len(s) - 1
           /\ \A k \in 1..(Len(s) - 1) :
                RemoveAt(s, i)[k] = IF k < i THEN s[k] ELSE s[k + 1]
<1> DEFINE a == SubSeq(s, 1, i - 1)
           b == SubSeq(s, i + 1, Len(s))
<1>1. /\ a \in Seq(S) /\ Len(a) = i - 1
      /\ \A k \in 1..(i - 1) : a[k] = s[k]
  OBVIOUS
<1>2. /\ b \in Seq(S) /\ Len(b) = Len(s) - i
      /\ \A k \in 1..(Len(s) - i) : b[k] = s[i + k]
  OBVIOUS
<1> HIDE DEF a, b
<1>3. /\ a \o b \in Seq(S) /\ Len(a \o b) = Len(s) - 1
  <2>1. a \o b \in Seq(S) /\ Len(a \o b) = Len(a) + Len(b)
    BY <1>1, <1>2, ConcatProperties
  <2>2. Len(a) + Len(b) = Len(s) - 1
    BY <1>1, <1>2
  <2> QED
    BY <2>1, <2>2
<1>4. ASSUME NEW k \in 1..(Len(s) - 1)
      PROVE  (a \o b)[k] = IF k < i THEN s[k] ELSE s[k + 1]
  <2>1. k \in 1..(Len(a) + Len(b))
    BY <1>1, <1>2
  <2>2. CASE k < i
    <3>1. (a \o b)[k] = a[k]
      BY <2>1, <2>2, <1>1, <1>2
    <3> QED
      BY <3>1, <2>2, <1>1
  <2>3. CASE ~(k < i)
    <3> DEFINE l == k - (i - 1)
    <3>1. l \in 1..(Len(s) - i) /\ i + l = k + 1
      BY <2>3
    <3>2. (a \o b)[k] = b[l]
      BY <2>1, <2>3, <1>1, <1>2
    <3>3. b[l] = s[i + l]
      BY <3>1, <1>2
    <3> QED
      BY <3>1, <3>2, <3>3, <2>3
  <2> QED
    BY <2>2, <2>3
<1> QED
  BY <1>3, <1>4 DEF RemoveAt, a, b

(* The jobs but the one with the id of job. *)
Others(job) == RemoveFirstMatch(store, LAMBDA j : j.id = job.id)
Have(job) == \E i \in DOMAIN store : store[i].id = job.id

(* At most one stored job has the id: it is the one that goes. *)
LEMMA OthersIs ==
    ASSUME TypeOK, NEW job, NEW i \in 1..Len(store), store[i].id = job.id
    PROVE  Others(job) = RemoveAt(store, i)
<1> DEFINE I == {k \in 1..Len(store) : store[k].id = job.id}
<1>1. I = {i}
  BY DEF TypeOK
<1>2. Min(I) = i
  BY <1>1 DEF Min
<1>3. SelectInSeq(store, LAMBDA j : j.id = job.id) = i
  BY <1>1, <1>2 DEF SelectInSeq
<1> QED
  BY <1>3 DEF Others, RemoveFirstMatch

(* What saveJob keeps of the store: other jobs, in their order. *)
LEMMA OthersAre ==
    ASSUME TypeOK, NEW job \in StoredJob
    PROVE  /\ Others(job) \in Seq(StoredJob)
           /\ Len(Others(job)) = IF Have(job) THEN Len(store) - 1 ELSE Len(store)
           /\ \A k \in 1..Len(Others(job)) :
                Others(job)[k] \in Jobs(store) /\ Others(job)[k].id # job.id
           /\ \A k, l \in 1..Len(Others(job)) :
                Others(job)[k].id = Others(job)[l].id => k = l
           /\ ~Have(job) => Others(job) = store
           /\ Len(store) > 0 /\ store[1].id = job.id =>
                \A k \in 1..Len(Others(job)) : Others(job)[k] = store[k + 1]
<1>1. /\ store \in Seq(StoredJob) /\ DOMAIN store = 1..Len(store) /\ Len(store) \in Nat
      /\ \A k, l \in DOMAIN store : store[k].id = store[l].id => k = l
  BY DEF TypeOK
<1>2. CASE ~Have(job)
  <2>1. Others(job) = store
    BY <1>1, <1>2 DEF Have, Others, RemoveFirstMatch
  <2>2. ~(Len(store) > 0 /\ store[1].id = job.id)
    BY <1>1, <1>2 DEF Have
  <2>3. \A k \in 1..Len(store) : store[k] \in Jobs(store) /\ store[k].id # job.id
    BY <1>1, <1>2 DEF Have, Jobs
  <2> QED
    BY <1>1, <1>2, <2>1, <2>2, <2>3
<1>3. CASE Have(job)
  <2>1. PICK i \in 1..Len(store) : store[i].id = job.id
    BY <1>1, <1>3 DEF Have
  <2> DEFINE rest == RemoveAt(store, i)
  <2>2. Others(job) = rest
    BY <2>1, OthersIs
  <2>3. /\ rest \in Seq(StoredJob) /\ Len(rest) = Len(store) - 1
        /\ \A k \in 1..(Len(store) - 1) :
             rest[k] = IF k < i THEN store[k] ELSE store[k + 1]
    BY <1>1, Removed
  <2> HIDE DEF rest
  <2>4. ASSUME NEW k \in 1..Len(rest)
        PROVE  rest[k] \in Jobs(store) /\ rest[k].id # job.id
    BY <1>1, <2>1, <2>3 DEF Jobs
  <2>5. ASSUME NEW k \in 1..Len(rest), NEW l \in 1..Len(rest), rest[k].id = rest[l].id
        PROVE  k = l
    <3> DEFINE At(n) == IF n < i THEN n ELSE n + 1
    <3>1. At(k) \in 1..Len(store) /\ At(l) \in 1..Len(store)
      BY <1>1, <2>3
    <3>2. rest[k] = store[At(k)] /\ rest[l] = store[At(l)]
      BY <1>1, <2>3
    <3>3. At(k) = At(l)
      BY <1>1, <2>5, <3>1, <3>2
    <3> QED
      BY <1>1, <2>3, <3>3
  <2>6. ASSUME store[1].id = job.id, NEW k \in 1..Len(rest)
        PROVE  rest[k] = store[k + 1]
    <3>1. i = 1
      BY <1>1, <2>1, <2>6
    <3> QED
      BY <3>1, <2>3
  <2> QED
    BY <1>3, <2>2, <2>3, <2>4, <2>5, <2>6
<1> QED
  BY <1>2, <1>3

(* saveJob puts the job first, and keeps as many of the others as fit.     *)
LEMMA SavedIs ==
    ASSUME TypeOK, NEW job \in StoredJob
    PROVE  /\ Saved(job) \in Seq(StoredJob) /\ Len(Saved(job)) \in 1..Limit
           /\ Saved(job)[1] = job
           /\ Len(Saved(job)) = IF Len(Others(job)) < Limit THEN Len(Others(job)) + 1 ELSE Limit
           /\ \A k \in 2..Len(Saved(job)) :
                k - 1 \in 1..Len(Others(job)) /\ Saved(job)[k] = Others(job)[k - 1]
<1> DEFINE rest == Others(job)
           all == <<job>> \o rest
<1>1. rest \in Seq(StoredJob)
  BY OthersAre
<1>2. Limit \in Nat \ {0}
  BY BoundAssumption
<1>3. Saved(job) = SubSeq(all, 1, IF Len(all) < Limit THEN Len(all) ELSE Limit)
  BY DEF Saved, Others
<1> HIDE DEF rest
<1>4. /\ all \in Seq(StoredJob) /\ Len(all) = Len(rest) + 1
      /\ all[1] = job /\ \A k \in 2..Len(all) : k - 1 \in 1..Len(rest) /\ all[k] = rest[k - 1]
  BY <1>1
<1> HIDE DEF all
<1> DEFINE n == IF Len(all) < Limit THEN Len(all) ELSE Limit
<1>5. n \in 1..Limit /\ n <= Len(all) /\ Len(rest) \in Nat
      /\ n = IF Len(rest) < Limit THEN Len(rest) + 1 ELSE Limit
  BY <1>1, <1>2, <1>4
<1> HIDE DEF n
<1>6. /\ SubSeq(all, 1, n) \in Seq(StoredJob) /\ Len(SubSeq(all, 1, n)) = n
      /\ \A k \in 1..n : SubSeq(all, 1, n)[k] = all[k]
  BY <1>4, <1>5
<1>7. Saved(job) = SubSeq(all, 1, n)
  BY <1>3 DEF n
<1> QED
  BY <1>4, <1>5, <1>6, <1>7 DEF rest

(* A store of jobs with distinct ids again. *)
LEMMA SavedStore ==
    ASSUME TypeOK, NEW job \in StoredJob
    PROVE  /\ Saved(job) \in Seq(StoredJob) /\ Len(Saved(job)) \in 1..Limit
           /\ Saved(job)[1] = job
           /\ \A k \in 2..Len(Saved(job)) :
                Saved(job)[k] \in Jobs(store) /\ Saved(job)[k].id # job.id
           /\ \A k, l \in DOMAIN Saved(job) : Saved(job)[k].id = Saved(job)[l].id => k = l
<1> DEFINE t == Saved(job)
<1>1. /\ t \in Seq(StoredJob) /\ Len(t) \in 1..Limit /\ t[1] = job
      /\ \A k \in 2..Len(t) : k - 1 \in 1..Len(Others(job)) /\ t[k] = Others(job)[k - 1]
  BY SavedIs
<1>2. DOMAIN t = 1..Len(t)
  BY <1>1
<1> HIDE DEF t
<1> DEFINE rest == Others(job)
<1>0. /\ \A k \in 1..Len(rest) : rest[k] \in Jobs(store) /\ rest[k].id # job.id
      /\ \A k, l \in 1..Len(rest) : rest[k].id = rest[l].id => k = l
  BY OthersAre
<1>3. \A k \in 2..Len(t) : t[k] \in Jobs(store) /\ t[k].id # job.id
  BY <1>0, <1>1
<1>4. ASSUME NEW k \in DOMAIN t, NEW l \in DOMAIN t, t[k].id = t[l].id
      PROVE  k = l
  <2>1. CASE k = 1 \/ l = 1
    BY <2>1, <1>1, <1>2, <1>3, <1>4
  <2>2. CASE k # 1 /\ l # 1
    <3>1. k \in 2..Len(t) /\ l \in 2..Len(t)
      BY <2>2, <1>1, <1>2
    <3>2. /\ k - 1 \in 1..Len(rest) /\ t[k] = rest[k - 1]
          /\ l - 1 \in 1..Len(rest) /\ t[l] = rest[l - 1]
      BY <3>1, <1>1
    <3> HIDE DEF rest
    <3>4. k - 1 = l - 1
      BY <3>2, <1>0, <1>4
    <3> QED
      BY <3>1, <3>4
  <2> QED
    BY <2>1, <2>2
<1> QED
  BY <1>1, <1>2, <1>3, <1>4 DEF t

(* Where the jobs are: one that is new, and the one saved last again.      *)
LEMMA SavedOrder ==
    ASSUME TypeOK, NEW job \in StoredJob
    PROVE  /\ ~Have(job) /\ Len(store) < Limit =>
                /\ Len(Saved(job)) = Len(store) + 1
                /\ \A k \in 2..Len(Saved(job)) : Saved(job)[k] = store[k - 1]
           /\ Len(store) > 0 /\ store[1].id = job.id =>
                /\ Len(Saved(job)) = Len(store)
                /\ \A k \in 2..Len(Saved(job)) : Saved(job)[k] = store[k]
<1>1. Len(store) \in Nat /\ Len(store) <= Limit /\ DOMAIN store = 1..Len(store) /\ Limit \in Nat
  BY BoundAssumption DEF TypeOK
<1> DEFINE rest == Others(job)
           t == Saved(job)
<1>4. /\ Len(rest) = IF Have(job) THEN Len(store) - 1 ELSE Len(store)
      /\ ~Have(job) => rest = store
      /\ Len(store) > 0 /\ store[1].id = job.id =>
           \A k \in 1..Len(rest) : rest[k] = store[k + 1]
  BY OthersAre
<1>5. /\ Len(t) = IF Len(rest) < Limit THEN Len(rest) + 1 ELSE Limit
      /\ \A k \in 2..Len(t) : k - 1 \in 1..Len(rest) /\ t[k] = rest[k - 1]
  BY SavedIs
<1> HIDE DEF rest, t
<1>2. CASE ~Have(job) /\ Len(store) < Limit
  <2>1. ~(Len(store) > 0 /\ store[1].id = job.id)
    BY <1>1, <1>2 DEF Have
  <2> QED
    BY <1>1, <1>2, <1>4, <1>5, <2>1 DEF t
<1>3. CASE Len(store) > 0 /\ store[1].id = job.id
  <2>1. Have(job)
    BY <1>1, <1>3 DEF Have
  <2>2. ~(~Have(job) /\ Len(store) < Limit)
    BY <2>1
  <2>3. Len(rest) = Len(store) - 1 /\ Len(t) = Len(store)
    <3>1. Len(rest) = Len(store) - 1
      BY <1>4, <2>1
    <3>2. Len(rest) < Limit
      BY <1>1, <1>3, <3>1
    <3>3. Len(t) = Len(rest) + 1
      BY <1>5, <3>2
    <3> QED
      BY <1>1, <3>1, <3>3
  <2>4. ASSUME NEW k \in 2..Len(t)
        PROVE  t[k] = store[k]
    <3>1. k - 1 \in 1..Len(rest) /\ t[k] = rest[k - 1]
      BY <1>5
    <3>2. rest[k - 1] = store[(k - 1) + 1]
      BY <1>3, <1>4, <3>1
    <3> QED
      BY <1>1, <2>3, <3>1, <3>2
  <2> QED
    BY <2>2, <2>3, <2>4 DEF t
<1> QED
  BY <1>2, <1>3

-----------------------------------------------------------------------------
(* An upload leaves a good job: its CVs are numbered on from the old ones. *)
LEMMA UploadGood ==
    ASSUME NEW b \in StoredJob, Good(b), NEW fs \in SUBSET Cv, IsFiniteSet(fs),
           fs \cap Ids(b) = {}, NEW ok \in SUBSET fs, NEW number \in Numberings(b, fs)
    PROVE  LET j == WithCvs(b, Analyzed(b, fs, ok, number))
           IN  /\ j \in StoredJob /\ Good(j)
               /\ j.id = b.id /\ Ids(j) = Ids(b) \cup fs
<1> DEFINE n == Cardinality(b.cvs)
           m == Cardinality(fs)
           Cell(c) == [id |-> c, number |-> number[c],
                       status |-> IF c \in ok THEN "ready" ELSE "failed"]
           new == Analyzed(b, fs, ok, number)
           j == WithCvs(b, new)
<1>1. /\ n \in Nat /\ m \in Nat
      /\ number \in [fs -> (n + 1)..(n + m)]
      /\ \A c, d \in fs : number[c] = number[d] => c = d
  <2>1. n \in Nat /\ m \in Nat
    BY FS_CardinalityType DEF Good
  <2>2. number \in Injection(fs, (n + 1)..(n + m))
    BY DEF Numberings, Bijection
  <2> QED
    BY <2>1, <2>2 DEF Injection, IsInjective
<1>2. new = {Cell(c) : c \in fs}
  BY DEF Analyzed
<1>3. /\ new \subseteq StoredCv /\ {c.id : c \in new} = fs
      /\ \A c \in new : c.number \in (n + 1)..(n + m)
      /\ \A c, d \in new : c.number = d.number => c = d
  <2>1. \A c \in fs : Cell(c) \in StoredCv /\ Cell(c).id = c /\ Cell(c).number = number[c]
    BY <1>1 DEF StoredCv
  <2> HIDE DEF Cell, new
  <2>2. \A x \in new : \E c \in fs : x = Cell(c)
    BY <1>2
  <2>3. \A c \in fs : Cell(c) \in new
    BY <1>2
  <2>4. new \subseteq StoredCv /\ \A x \in new : x.id \in fs /\ x = Cell(x.id)
    BY <2>1, <2>2
  <2>5. {c.id : c \in new} = fs
    BY <2>1, <2>3, <2>4
  <2>6. \A x \in new : x.number = number[x.id]
    BY <2>1, <2>4
  <2>7. \A x, y \in new : x.number = y.number => x = y
    BY <1>1, <2>4, <2>6
  <2> QED
    BY <1>1, <2>4, <2>5, <2>6, <2>7
<1>4. IsFiniteSet(new) /\ Cardinality(new) = m
  <2> DEFINE f == [c \in fs |-> Cell(c)]
  <2>1. f \in Bijection(fs, new)
    <3>1. f \in [fs -> new]
      BY <1>2
    <3>2. \A c, d \in fs : f[c] = f[d] => c = d
      OBVIOUS
    <3>3. \A c \in new : \E d \in fs : f[d] = c
      BY <1>2
    <3> HIDE DEF f, new
    <3> QED
      BY <3>1, <3>2, <3>3 DEF Bijection, Injection, Surjection, IsInjective
  <2>2. ExistsBijection(fs, new)
    BY <2>1 DEF ExistsBijection
  <2> QED
    BY <2>2, FS_Bijection
<1>5. b.cvs \cap new = {}
  BY <1>3 DEF Ids
<1>6. /\ IsFiniteSet(b.cvs \cup new)
      /\ Cardinality(b.cvs \cup new) = n + m
  <2>1. Cardinality(b.cvs \cap new) = 0
    BY <1>5, FS_EmptySet
  <2> HIDE DEF new
  <2>2. IsFiniteSet(b.cvs)
    BY DEF Good
  <2>3. /\ IsFiniteSet(b.cvs \cup new)
        /\ Cardinality(b.cvs \cup new) = n + m - Cardinality(b.cvs \cap new)
    BY <1>4, <2>2, FS_Union
  <2> QED
    BY <1>1, <2>1, <2>3
<1>7. /\ b.cvs \subseteq StoredCv /\ b.id \in Job
      /\ b.run \in {NoRun} \cup SUBSET (Cv \X Nat)
  BY DEF StoredJob
<1> HIDE DEF new
<1> DEFINE ready == {c \in b.cvs \cup new : c.status = "ready"}
<1>9. Cardinality(ready) \in Nat
  BY <1>6, FS_Subset, FS_CardinalityType
<1> HIDE DEF ready
<1>0. j = [b EXCEPT !.cvs = @ \cup new, !.cv_count = Cardinality(ready)]
  BY DEF WithCvs, ready
<1>10. j \in StoredJob
  BY <1>0, <1>3, <1>7, <1>9 DEF StoredJob
<1>8. /\ j.cvs = b.cvs \cup new /\ j.id = b.id /\ j.run = b.run
      /\ j.cv_count = Cardinality(ready)
  BY <1>0 DEF StoredJob
<1> HIDE DEF j
<1>17. Ready(j) = ready
  BY <1>8 DEF Ready, ready
<1>11. \A c \in b.cvs : c.number \in 1..n
  BY DEF Good
<1>12. ASSUME NEW c \in b.cvs \cup new
       PROVE  c.number \in 1..(n + m)
  BY <1>1, <1>3, <1>11
<1>13. ASSUME NEW c \in b.cvs \cup new, NEW d \in b.cvs \cup new, c.number = d.number
       PROVE  c = d
  <2>1. CASE c \in b.cvs /\ d \in b.cvs
    BY <1>13, <2>1 DEF Good
  <2>2. CASE c \in new /\ d \in new
    BY <1>3, <1>13, <2>2
  <2>3. CASE (c \in new /\ d \in b.cvs) \/ (c \in b.cvs /\ d \in new)
    BY <1>1, <1>3, <1>11, <1>13, <2>3
  <2> QED
    BY <2>1, <2>2, <2>3
<1>14. j.run # NoRun => j.run \subseteq Candidates(j)
  <2>1. b.run # NoRun => b.run \subseteq Candidates(b)
    BY DEF Good
  <2>2. Candidates(b) \subseteq Candidates(j)
    BY <1>8 DEF Candidates, Ready
  <2> QED
    BY <1>8, <2>1, <2>2
<1>15. Good(j)
  BY <1>6, <1>8, <1>12, <1>13, <1>14, <1>17 DEF Good
<1>16. Ids(j) = Ids(b) \cup fs
  BY <1>3, <1>8 DEF Ids
<1> QED
  BY <1>8, <1>10, <1>15, <1>16 DEF j, new

-----------------------------------------------------------------------------
(* What is stored, on disk or in hand has ids; those in hand are of jobs.  *)
LEMMA InPlayType ==
    ASSUME TypeOK
    PROVE  /\ InPlay \subseteq StoredJob
           /\ \A r \in Request : base[r] # NoJob => base[r] \in InPlay
BY DEF TypeOK, InPlay, Jobs

(* Two stored jobs with one id are the same. *)
LEMMA OneOfAnId ==
    ASSUME TypeOK, NEW j \in Jobs(store), NEW k \in Jobs(store), j.id = k.id
    PROVE  j = k
BY DEF TypeOK, Jobs

(* A handler reads a job, at most, and goes on to its next await. *)
LEMMA BeginStep ==
    ASSUME DInv, NEW r \in Request, NEW p, NEW job, NEW fs \in SUBSET Cv,
           Continue(r, p, job, fs), UNCHANGED <<tables, safe>>,
           p \in {"idle", "parse", "analyze", "rank", "once_parse"},
           job \in {NoJob} \cup Jobs(store),
           p \in {"analyze", "rank"} => job # NoJob,
           IsFiniteSet(fs), fs \cap drawn = {}, drawn' = drawn \cup fs
    PROVE  DInv'
<1>1. TypeOK /\ Goods /\ Own /\ Held
  BY DEF DInv
<1>2. /\ pc' = [pc EXCEPT ![r] = p] /\ base' = [base EXCEPT ![r] = job]
      /\ files' = [files EXCEPT ![r] = fs]
      /\ store' = store /\ disk' = disk /\ safe' = safe
  BY DEF Continue, tables
<1>3. /\ pc'[r] = p /\ \A q \in Request \ {r} : pc'[q] = pc[q]
      /\ base'[r] = job /\ \A q \in Request \ {r} : base'[q] = base[q]
      /\ files'[r] = fs /\ \A q \in Request \ {r} : files'[q] = files[q]
  BY <1>1, <1>2 DEF TypeOK
<1>4. Jobs(store) \subseteq StoredJob /\ Jobs(store') = Jobs(store) /\ Jobs(disk') = Jobs(disk)
  BY <1>1, <1>2 DEF TypeOK, Jobs
<1>5. TypeOK'
  BY <1>1, <1>2, <1>4 DEF TypeOK
<1>6. InPlay' \subseteq InPlay
  BY <1>1, <1>3, <1>4 DEF InPlay
<1>7. Goods'
  BY <1>1, <1>3, <1>6 DEF Goods, HasJob
<1>8. Own'
  <2>1. /\ \A j, k \in InPlay' : j.id # k.id => Ids(j) \cap Ids(k) = {}
        /\ \A j \in InPlay' : j.id \in drawn' /\ Ids(j) \subseteq drawn'
    BY <1>1, <1>6 DEF Own
  <2>2. ASSUME NEW q \in Request
        PROVE  /\ files'[q] \subseteq drawn'
               /\ \A j \in InPlay' : files'[q] \cap Ids(j) = {}
    BY <1>1, <1>3, <1>6 DEF Own
  <2>3. ASSUME NEW q \in Request, NEW o \in Request \ {q}
        PROVE  files'[q] \cap files'[o] = {}
    BY <1>1, <1>3 DEF Own
  <2> QED
    BY <2>1, <2>2, <2>3 DEF Own
<1>9. Held'
  <2> SUFFICES ASSUME NEW x \in safe
               PROVE  \E j \in Jobs(store)' :
                        /\ x \in Ids(j)
                        /\ \A q \in Request : base'[q] # NoJob /\ base'[q].id = j.id
                                                => x \in Ids(base'[q])
    BY <1>2 DEF Held
  <2>1. PICK j \in Jobs(store) :
          /\ x \in Ids(j)
          /\ \A q \in Request : base[q] # NoJob /\ base[q].id = j.id => x \in Ids(base[q])
    BY <1>1 DEF Held
  <2>2. ASSUME job # NoJob, job.id = j.id PROVE x \in Ids(job)
    BY <1>1, <2>1, <2>2, OneOfAnId
  <2> QED
    BY <1>3, <1>4, <2>1, <2>2
<1> QED
  BY <1>5, <1>7, <1>8, <1>9 DEF DInv

(* A handler saves a job in place of the one it read, or a new one. *)
LEMMA SaveStep ==
    ASSUME DInv, NEW r \in Request, NEW job \in StoredJob, Good(job), SaveJob(r, job),
           NEW p, NEW next, NEW fs, Continue(r, p, next, fs),
           p \in {"idle", "once_analyze", "once_rank"},
           next \in {NoJob, job}, p # "idle" => next # NoJob,
           fs \in {{}, files[r]}, fs \cap Ids(job) = {},
           drawn' \subseteq Job \cup Cv, drawn \subseteq drawn',
           job.id \in drawn', Ids(job) \subseteq drawn,
           \A k \in InPlay : k.id # job.id => Ids(k) \cap Ids(job) = {},
           \A q \in Request \ {r} : files[q] \cap Ids(job) = {},
           \A j \in Jobs(store) : j.id = job.id =>
              base[r] # NoJob /\ base[r].id = job.id /\ Ids(base[r]) \subseteq Ids(job)
    PROVE  DInv'
<1>1. TypeOK /\ Goods /\ Own /\ Held
  BY DEF DInv
<1>2. /\ pc' = [pc EXCEPT ![r] = p] /\ base' = [base EXCEPT ![r] = next]
      /\ files' = [files EXCEPT ![r] = fs]
      /\ store' = Saved(job) /\ disk' \in {Saved(job), disk, << >>}
  BY DEF Continue, SaveJob, Write
<1>3. /\ pc'[r] = p /\ \A q \in Request \ {r} : pc'[q] = pc[q]
      /\ base'[r] = next /\ \A q \in Request \ {r} : base'[q] = base[q]
      /\ files'[r] = fs /\ \A q \in Request \ {r} : files'[q] = files[q]
  BY <1>1, <1>2 DEF TypeOK
<1>4. /\ Saved(job) \in Seq(StoredJob) /\ Len(Saved(job)) \in 1..Limit
      /\ Saved(job)[1] = job
      /\ \A k \in 2..Len(Saved(job)) : Saved(job)[k] \in Jobs(store) /\ Saved(job)[k].id # job.id
      /\ \A k, l \in DOMAIN Saved(job) : Saved(job)[k].id = Saved(job)[l].id => k = l
  BY <1>1, SavedStore
<1>5. DOMAIN Saved(job) = 1..Len(Saved(job))
  BY <1>4
<1>6. /\ job \in Jobs(Saved(job))
      /\ \A j \in Jobs(Saved(job)) : j = job \/ (j \in Jobs(store) /\ j.id # job.id)
  BY <1>4, <1>5 DEF Jobs
<1>7. Jobs(<< >>) = {}
  BY DEF Jobs
<1>8. InPlay' \subseteq InPlay \cup {job}
  <2>1. Jobs(store') \subseteq Jobs(store) \cup {job}
    BY <1>2, <1>6
  <2>2. Jobs(disk') \subseteq Jobs(store) \cup Jobs(disk) \cup {job}
    BY <1>2, <1>6, <1>7
  <2>3. \A q \in Request : base'[q] \in {base[q], NoJob, job}
    BY <1>3
  <2> QED
    BY <2>1, <2>2, <2>3 DEF InPlay
<1>9. safe' = (safe \ CvsOf({j \in Jobs(store) : \A k \in Jobs(store') : k.id # j.id}))
                  \cup (IF Alone(r, job) THEN CvsOf({job}) \cap files[r] ELSE {})
  BY DEF SaveJob
<1>10. TypeOK'
  <2>1. \A s \in {store', disk'} :
          /\ s \in Seq(StoredJob) /\ Len(s) <= Limit
          /\ \A k, l \in DOMAIN s : s[k].id = s[l].id => k = l
    <3>1. /\ << >> \in Seq(StoredJob) /\ Len(<< >>) <= Limit
          /\ \A k, l \in DOMAIN << >> : << >>[k].id = << >>[l].id => k = l
      BY BoundAssumption
    <3>2. Len(Saved(job)) <= Limit
      BY <1>4, BoundAssumption
    <3>3. /\ disk \in Seq(StoredJob) /\ Len(disk) <= Limit
          /\ \A k, l \in DOMAIN disk : disk[k].id = disk[l].id => k = l
      BY <1>1 DEF TypeOK
    <3>4. \A s \in {Saved(job), disk, << >>} :
            /\ s \in Seq(StoredJob) /\ Len(s) <= Limit
            /\ \A k, l \in DOMAIN s : s[k].id = s[l].id => k = l
      <4> HIDE DEF Saved
      <4> QED
        BY <1>4, <3>1, <3>2, <3>3
    <3> QED
      BY <1>2, <3>4
  <2>2. safe' \subseteq Cv
    BY <1>1, <1>9 DEF TypeOK
  <2>3. /\ pc' \in [Request -> {"idle", "parse", "analyze", "rank",
                                "once_parse", "once_analyze", "once_rank"}]
        /\ base' \in [Request -> {NoJob} \cup StoredJob]
        /\ files' \in [Request -> SUBSET Cv]
    BY <1>1, <1>2 DEF TypeOK
  <2> QED
    BY <2>1, <2>2, <2>3 DEF TypeOK
<1>11. Goods'
  <2>1. \A q \in Request : HasJob(q)' => base'[q] # NoJob
    BY <1>1, <1>3 DEF Goods, HasJob
  <2>2. \A q \in Request : IsFiniteSet(files'[q])
    BY <1>1, <1>3, FS_EmptySet DEF Goods
  <2> QED
    BY <1>1, <1>8, <2>1, <2>2 DEF Goods
<1>12. Own'
  <2>1. /\ \A j, k \in InPlay' : j.id # k.id => Ids(j) \cap Ids(k) = {}
        /\ \A j \in InPlay' : j.id \in drawn' /\ Ids(j) \subseteq drawn'
    BY <1>1, <1>8 DEF Own
  <2>2. ASSUME NEW q \in Request
        PROVE  /\ files'[q] \subseteq drawn'
               /\ \A j \in InPlay' : files'[q] \cap Ids(j) = {}
    BY <1>1, <1>3, <1>8 DEF Own
  <2>3. ASSUME NEW q \in Request, NEW o \in Request \ {q}
        PROVE  files'[q] \cap files'[o] = {}
    BY <1>1, <1>3 DEF Own
  <2> QED
    BY <2>1, <2>2, <2>3 DEF Own
<1>13. Held'
  <2> SUFFICES ASSUME NEW x \in safe'
               PROVE  \E j \in Jobs(store') :
                        /\ x \in Ids(j)
                        /\ \A q \in Request : base'[q] # NoJob /\ base'[q].id = j.id
                                                => x \in Ids(base'[q])
    BY DEF Held
  <2>0. Jobs(store') = Jobs(Saved(job))
    BY <1>2
  <2>1. CASE x \in CvsOf({job}) /\ Alone(r, job)
    <3>1. x \in Ids(job)
      BY <2>1 DEF CvsOf, Ids
    <3>2. \A q \in Request : base'[q] # NoJob /\ base'[q].id = job.id => base'[q] = job
      BY <1>3, <2>1 DEF Alone
    <3> QED
      BY <1>6, <2>0, <3>1, <3>2
  <2>2. CASE x \in safe /\ x \notin CvsOf({j \in Jobs(store) : \A k \in Jobs(store') : k.id # j.id})
    <3>1. PICK j \in Jobs(store) :
            /\ x \in Ids(j)
            /\ \A q \in Request : base[q] # NoJob /\ base[q].id = j.id => x \in Ids(base[q])
      BY <1>1, <2>2 DEF Held
    <3>2. PICK k \in Jobs(store') : k.id = j.id
      BY <2>2, <3>1 DEF CvsOf, Ids
    <3>3. CASE j.id = job.id
      <4>1. x \in Ids(job)
        BY <3>1, <3>3
      <4> QED
        BY <1>3, <1>6, <2>0, <3>1, <3>3, <4>1
    <3>4. CASE j.id # job.id
      <4>1. k = j
        BY <1>1, <1>6, <2>0, <3>2, <3>4, OneOfAnId
      <4> QED
        BY <1>3, <3>1, <3>4, <4>1
    <3> QED
      BY <3>3, <3>4
  <2> QED
    BY <1>9, <2>1, <2>2
<1> QED
  BY <1>10, <1>11, <1>12, <1>13 DEF DInv

(* A reset, and the end of the process, leave nothing or what was on disk. *)
LEMMA EmptyStep ==
    ASSUME DInv, safe' = {}, drawn' = drawn,
           \/ store' = << >> /\ disk' \in {disk, << >>} /\ UNCHANGED locals
           \/ store' \in {disk, << >>} /\ disk' \in {disk, << >>} /\ Stopped
    PROVE  DInv'
<1>1. TypeOK /\ Goods /\ Own /\ Held
  BY DEF DInv
<1>2. Jobs(<< >>) = {} /\ Jobs(store') \cup Jobs(disk') \subseteq Jobs(disk)
  BY DEF Jobs
<1>3. \A r \in Request :
        /\ pc'[r] \in {pc[r], "idle"} /\ base'[r] \in {base[r], NoJob} /\ files'[r] \in {files[r], {}}
        /\ (pc'[r] = pc[r] /\ base'[r] = base[r]) \/ pc'[r] = "idle"
  BY <1>1 DEF locals, Stopped, TypeOK
<1>4. TypeOK'
  <2>1. \A s \in {store', disk'} :
          /\ s \in Seq(StoredJob) /\ Len(s) <= Limit
          /\ \A k, l \in DOMAIN s : s[k].id = s[l].id => k = l
    <3>1. /\ << >> \in Seq(StoredJob) /\ Len(<< >>) <= Limit
          /\ \A k, l \in DOMAIN << >> : << >>[k].id = << >>[l].id => k = l
      BY BoundAssumption
    <3> QED
      BY <1>1, <3>1 DEF TypeOK
  <2>2. /\ pc' \in [Request -> {"idle", "parse", "analyze", "rank",
                                "once_parse", "once_analyze", "once_rank"}]
        /\ base' \in [Request -> {NoJob} \cup StoredJob]
        /\ files' \in [Request -> SUBSET Cv]
    BY <1>1 DEF TypeOK, Stopped, locals
  <2> QED
    BY <1>1, <2>1, <2>2 DEF TypeOK
<1>5. InPlay' \subseteq InPlay
  BY <1>2, <1>3 DEF InPlay
<1>6. Goods'
  BY <1>1, <1>3, <1>5, FS_EmptySet DEF Goods, HasJob
<1>7. Own'
  BY <1>1, <1>3, <1>5 DEF Own
<1>8. Held'
  BY DEF Held
<1> QED
  BY <1>4, <1>6, <1>7, <1>8 DEF DInv

-----------------------------------------------------------------------------
(* createJob saves a job of an id that nobody had. *)
LEMMA NewJobSaved ==
    ASSUME DInv, NEW r \in Request, NEW n \in Job, n \notin drawn, drawn' = drawn \cup {n},
           SaveJob(r, NewJob(n)),
           \/ End(r)
           \/ Continue(r, "once_analyze", NewJob(n), files[r])
    PROVE  DInv'
<1> DEFINE job == NewJob(n)
<1>1. TypeOK /\ Own
  BY DEF DInv
<1>2. job.id = n /\ job.cvs = {} /\ job.cv_count = 0 /\ job.run = NoRun /\ Ids(job) = {}
  BY DEF NewJob, Ids
<1>3. job \in StoredJob
  BY DEF NewJob, StoredJob
<1> HIDE DEF job
<1>4. Good(job)
  <2>1. Ready(job) = {}
    BY <1>2 DEF Ready
  <2> QED
    BY <1>2, <2>1, FS_EmptySet DEF Good
<1>5. \A j \in Jobs(store) : j.id # job.id
  BY <1>1, <1>2 DEF Own, InPlay
<1>6. job # NoJob
  BY <1>3, NoJobAssumption
<1>7. SaveJob(r, job) /\ (End(r) \/ Continue(r, "once_analyze", job, files[r]))
  BY DEF job
<1>8. drawn' \subseteq Job \cup Cv /\ drawn \subseteq drawn' /\ job.id \in drawn' /\ Ids(job) \subseteq drawn
  BY <1>1, <1>2 DEF TypeOK
<1>9. CASE End(r)
  <2>1. Continue(r, "idle", NoJob, {})
    BY <1>9 DEF End
  <2> QED
    BY <1>2, <1>3, <1>4, <1>5, <1>7, <1>8, <2>1, SaveStep
<1>10. CASE Continue(r, "once_analyze", job, files[r])
  BY <1>2, <1>3, <1>4, <1>5, <1>6, <1>7, <1>8, <1>10, SaveStep
<1> QED
  BY <1>7, <1>9, <1>10

(* What a request that has a job in hand knows of it. *)
LEMMA InHand ==
    ASSUME DInv, NEW r \in Request, HasJob(r)
    PROVE  /\ base[r] \in StoredJob /\ base[r] \in InPlay /\ Good(base[r])
           /\ base[r].id \in drawn /\ Ids(base[r]) \subseteq drawn
           /\ files[r] \in SUBSET Cv /\ IsFiniteSet(files[r]) /\ files[r] \subseteq drawn
           /\ files[r] \cap Ids(base[r]) = {}
           /\ \A k \in InPlay : k.id # base[r].id =>
                Ids(k) \cap Ids(base[r]) = {} /\ Ids(k) \cap files[r] = {}
           /\ \A q \in Request \ {r} :
                files[q] \cap Ids(base[r]) = {} /\ files[q] \cap files[r] = {}
<1>1. base[r] # NoJob /\ base[r] \in InPlay
  BY InPlayType DEF DInv, Goods
<1>2. base[r] \in StoredJob
  BY <1>1, InPlayType DEF DInv
<1> QED
  BY <1>1, <1>2 DEF DInv, TypeOK, Goods, Own

(* upload_cvs and rank_once save the job they read with the new CVs.       *)
LEMMA UploadSaved ==
    ASSUME DInv, NEW r \in Request, HasJob(r), NEW ok \in SUBSET files[r],
           NEW number \in Numberings(base[r], files[r]), drawn' = drawn,
           SaveJob(r, WithCvs(base[r], Analyzed(base[r], files[r], ok, number))),
           \/ End(r)
           \/ Continue(r, "once_rank",
                       WithCvs(base[r], Analyzed(base[r], files[r], ok, number)), {})
    PROVE  DInv'
<1> DEFINE job == WithCvs(base[r], Analyzed(base[r], files[r], ok, number))
<1>1. /\ job \in StoredJob /\ Good(job)
      /\ job.id = base[r].id /\ Ids(job) = Ids(base[r]) \cup files[r]
  BY InHand, UploadGood
<1>2. SaveJob(r, job) /\ (End(r) \/ Continue(r, "once_rank", job, {}))
  OBVIOUS
<1> HIDE DEF job
<1>3. /\ drawn' \subseteq Job \cup Cv /\ drawn \subseteq drawn'
      /\ job.id \in drawn' /\ Ids(job) \subseteq drawn
  BY <1>1, InHand DEF DInv, TypeOK
<1>4. /\ \A k \in InPlay : k.id # job.id => Ids(k) \cap Ids(job) = {}
      /\ \A q \in Request \ {r} : files[q] \cap Ids(job) = {}
      /\ base[r] # NoJob /\ Ids(base[r]) \subseteq Ids(job)
  BY <1>1, InHand, NoJobAssumption
<1>5. job # NoJob
  BY <1>1, NoJobAssumption
<1>6. CASE End(r)
  <2>1. Continue(r, "idle", NoJob, {})
    BY <1>6 DEF End
  <2> QED
    BY <1>1, <1>2, <1>3, <1>4, <2>1, SaveStep
<1>7. CASE Continue(r, "once_rank", job, {})
  BY <1>1, <1>2, <1>3, <1>4, <1>5, <1>7, SaveStep
<1> QED
  BY <1>2, <1>6, <1>7

(* rankJob saves the job it read with its run. *)
LEMMA RankSaved ==
    ASSUME DInv, NEW r \in Request, HasJob(r), drawn' = drawn,
           SaveJob(r, [base[r] EXCEPT !.run = Candidates(base[r])]), End(r)
    PROVE  DInv'
<1> DEFINE job == [base[r] EXCEPT !.run = Candidates(base[r])]
<1>1. base[r] \in StoredJob /\ Good(base[r])
  BY InHand
<1>2. Candidates(base[r]) \in SUBSET (Cv \X Nat)
  BY <1>1 DEF StoredJob, StoredCv, Candidates, Ready
<1>3. job \in StoredJob
  BY <1>1, <1>2 DEF StoredJob
<1>4. /\ job.id = base[r].id /\ job.cvs = base[r].cvs /\ job.cv_count = base[r].cv_count
      /\ job.run = Candidates(base[r])
  BY <1>1 DEF StoredJob
<1>5. SaveJob(r, job) /\ Continue(r, "idle", NoJob, {})
  BY DEF End
<1> HIDE DEF job
<1>6. Ready(job) = Ready(base[r]) /\ Candidates(job) = Candidates(base[r]) /\ Ids(job) = Ids(base[r])
  BY <1>4 DEF Ready, Candidates, Ids
<1>7. Good(job)
  BY <1>1, <1>4, <1>6 DEF Good
<1>8. /\ drawn' \subseteq Job \cup Cv /\ drawn \subseteq drawn'
      /\ job.id \in drawn' /\ Ids(job) \subseteq drawn
  BY <1>4, <1>6, InHand DEF DInv, TypeOK
<1>9. /\ \A k \in InPlay : k.id # job.id => Ids(k) \cap Ids(job) = {}
      /\ \A q \in Request \ {r} : files[q] \cap Ids(job) = {}
      /\ base[r] # NoJob
  BY <1>1, <1>4, <1>6, InHand, NoJobAssumption
<1> QED
  BY <1>3, <1>4, <1>5, <1>6, <1>7, <1>8, <1>9, SaveStep

(* Every handler of the store, and the end of its process. *)
LEMMA HandlerStep ==
    ASSUME DInv, NEW r \in Request, Handler(r)
    PROVE  DInv'
<1>1. TypeOK
  BY DEF DInv
<1>2. ASSUME NEW job \in Jobs(store)
      PROVE  job \in StoredJob /\ job # NoJob
  BY <1>1, NoJobAssumption DEF TypeOK, Jobs
<1>3. \A fs \in Uploads : fs \in SUBSET Cv /\ IsFiniteSet(fs) /\ fs \cap drawn = {}
  BY DEF Uploads
<1>4. IsFiniteSet({})
  BY FS_EmptySet
<1>5. ASSUME CreateBegin(r) PROVE DInv'
  BY <1>4, <1>5, BeginStep DEF CreateBegin, tables
<1>6. ASSUME NEW n \in Job, CreateSave(r, n) PROVE DInv'
  BY <1>6, NewJobSaved DEF CreateSave
<1>7. ASSUME NEW n \in Job, OnceCreated(r, n) PROVE DInv'
  BY <1>7, NewJobSaved DEF OnceCreated
<1>8. ASSUME NEW job \in Jobs(store), NEW fs \in Uploads, UploadBegin(r, job, fs) PROVE DInv'
  BY <1>2, <1>3, <1>8, BeginStep DEF UploadBegin, tables
<1>9. ASSUME NEW job \in Jobs(store), RankBegin(r, job) PROVE DInv'
  BY <1>2, <1>4, <1>9, BeginStep DEF RankBegin, tables
<1>10. ASSUME NEW fs \in Uploads, OnceBegin(r, fs) PROVE DInv'
  BY <1>3, <1>10, BeginStep DEF OnceBegin, tables
<1>11. ASSUME pc[r] \in {"analyze", "once_analyze"}, NEW ok \in SUBSET files[r],
              NEW number \in Numberings(base[r], files[r]),
              UploadSave(r, ok, number) \/ OnceUploaded(r, ok, number)
       PROVE  DInv'
  <2>1. HasJob(r)
    BY <1>11 DEF HasJob
  <2>2. CASE UploadSave(r, ok, number)
    BY <1>11, <2>1, <2>2, UploadSaved DEF UploadSave
  <2>3. CASE OnceUploaded(r, ok, number)
    BY <1>11, <2>1, <2>3, UploadSaved DEF OnceUploaded
  <2> QED
    BY <1>11, <2>2, <2>3
<1>12. ASSUME RankSave(r) PROVE DInv'
  BY <1>12, RankSaved DEF RankSave, HasJob
<1>13. ASSUME Fail(r) PROVE DInv'
  BY <1>4, <1>13, BeginStep DEF Fail, End, tables
<1>14. ASSUME Reset(r) PROVE DInv'
  BY <1>14, EmptyStep DEF Reset, Write
<1> QED
  BY <1>5, <1>6, <1>7, <1>8, <1>9, <1>10, <1>11, <1>12, <1>13, <1>14 DEF Handler

(* The process ends, and the store is read from disk or lost. *)
LEMMA RestartStep ==
    ASSUME DInv, Restart \/ RestartTorn
    PROVE  DInv'
<1>1. safe' = {} /\ drawn' = drawn /\ Stopped
  BY DEF Restart, RestartTorn, Stopped
<1>2. store' \in {disk, << >>} /\ disk' \in {disk, << >>}
  BY DEF Restart, RestartTorn
<1> QED
  BY <1>1, <1>2, EmptyStep

-----------------------------------------------------------------------------
(* A handler leaves the others where they are. *)
LEMMA OthersStay ==
    ASSUME TypeOK, NEW r \in Request, Handler(r), NEW q \in Request \ {r}
    PROVE  pc'[q] = pc[q] /\ base'[q] = base[q] /\ files'[q] = files[q]
BY DEF Handler, CreateBegin, CreateSave, OnceCreated, UploadBegin, RankBegin, OnceBegin,
       UploadSave, OnceUploaded, RankSave, Fail, Reset, End, Continue, locals, TypeOK

(* The tools do nothing to the store but what its handlers do. *)
LEMMA ToolIsHandler ==
    ASSUME Tooled, TNext
    PROVE  (\E r \in Request : Handler(r)) \/ Restart \/ RestartTorn \/ UNCHANGED vars
<1>1. by # NoRequest => by \in Request
  BY DEF Tooled
<1>2. tool \in {"creating", "uploading", "ranking", "importing"} => by \in Request
  BY <1>1 DEF Tooled, TTypeOK
<1>3. Stored(toolJob) \subseteq Jobs(store) /\ \A n \in Job : Stored(n) \subseteq Jobs(store)
  BY DEF Stored
<1>4. ASSUME NEW r \in Request,
             \/ SeedBegin(r) \/ SeedCreate(r) \/ SeedRank(r) \/ ResetWorkspace(r) \/ Elsewhere(r)
      PROVE  Handler(r)
  BY <1>3, <1>4 DEF SeedBegin, SeedCreate, SeedRank, ResetWorkspace, Elsewhere, Handler
<1>5. ASSUME NEW r \in Request, NEW fs \in Uploads,
             SeedUpload(r, fs) \/ \E n \in Job : Import(r, n, fs)
      PROVE  Handler(r)
  BY <1>3, <1>5 DEF SeedUpload, Import, Handler
<1>6. ASSUME NEW n \in Job, SeedCreated(n)
      PROVE  by \in Request /\ Handler(by)
  BY <1>2, <1>6 DEF SeedCreated, Handler
<1>7. ASSUME tool \in {"uploading", "importing"}, NEW ok \in SUBSET files[by],
             NEW number \in Numberings(base[by], files[by]),
             SeedUploaded(ok, number) \/ Imported(ok, number)
      PROVE  by \in Request /\ Handler(by)
  <2>1. UploadSave(by, ok, number) /\ by \in Request
    BY <1>2, <1>7 DEF SeedUploaded, Imported
  <2>2. pc[by] \in {"analyze", "once_analyze"}
    BY <2>1 DEF UploadSave
  <2> QED
    BY <2>1, <2>2 DEF Handler
<1>8. ASSUME SeedRanked \/ ToolFails
      PROVE  by \in Request /\ Handler(by)
  BY <1>1, <1>2, <1>8 DEF SeedRanked, ToolFails, Handler
<1>9. ASSUME SeedStops PROVE UNCHANGED vars
  BY <1>9 DEF SeedStops
<1>10. ASSUME ServerRestarts PROVE Restart \/ RestartTorn
  BY <1>10 DEF ServerRestarts
<1> QED
  BY <1>4, <1>5, <1>6, <1>7, <1>8, <1>9, <1>10 DEF TNext

(* So whatever happens keeps the store right. *)
LEMMA StoreStep ==
    ASSUME DInv, Tooled, [TNext]_tvars
    PROVE  DInv'
<1>1. CASE UNCHANGED vars
  BY <1>1 DEF vars, tables, locals, DInv, TypeOK, Goods, Own, Held, InPlay, HasJob
<1>2. CASE TNext
  BY <1>1, <1>2, ToolIsHandler, HandlerStep, RestartStep
<1> QED
  BY <1>1, <1>2 DEF tvars

(* A tool knows its request, and how many jobs are left. *)
LEMMA ToolStep ==
    ASSUME DInv, Tooled, [TNext]_tvars
    PROVE  Tooled'
<1> DEFINE OfTool == {"creating", "uploading", "ranking", "importing"}
           Known == /\ alone' \in BOOLEAN
                    /\ tool' \in {"idle", "importing"} \cup Seeding
                    /\ by' # NoRequest <=> tool' \in OfTool
                    /\ by' # NoRequest => by' \in Request /\ pc'[by'] \in {"parse", "analyze", "rank"}
                    /\ toolJob' \in Job \cup {NoJob} /\ left' \in 0..Fixtures
                    /\ tool' \in Seeding => left' \in 1..Fixtures
<1>1. TypeOK'
  BY StoreStep DEF DInv
<1>2. /\ TypeOK /\ alone \in BOOLEAN
      /\ tool \in {"idle", "importing"} \cup Seeding
      /\ by # NoRequest <=> tool \in OfTool
      /\ by # NoRequest => by \in Request /\ pc[by] \in {"parse", "analyze", "rank"}
      /\ toolJob \in Job \cup {NoJob} /\ left \in 0..Fixtures
      /\ tool \in Seeding => left \in 1..Fixtures
      /\ Fixtures \in Nat \ {0}
  BY FixturesAssumption, BoundAssumption DEF Tooled, TTypeOK
<1>3. \A r \in Request : r # NoRequest
  BY NoRequestAssumption
<1>4. \A r \in Request : \A p, job, fs : Continue(r, p, job, fs) => pc'[r] = p
  BY <1>2 DEF Continue, TypeOK
<1>5. ASSUME NEW r \in Request, SeedBegin(r) PROVE Known
  BY <1>2, <1>5 DEF SeedBegin, Tool, Seeding
<1>6. ASSUME NEW r \in Request, SeedCreate(r) PROVE Known
  BY <1>2, <1>3, <1>4, <1>6 DEF SeedCreate, CreateBegin, Tool, Seeding
<1>7. ASSUME NEW r \in Request, SeedRank(r) PROVE Known
  BY <1>2, <1>3, <1>4, <1>7 DEF SeedRank, RankBegin, Tool, Seeding
<1>8. ASSUME NEW r \in Request, ResetWorkspace(r) PROVE Known
  BY <1>2, <1>8 DEF ResetWorkspace, Reset, locals, Seeding
<1>9. ASSUME NEW r \in Request, NEW fs \in Uploads, SeedUpload(r, fs) PROVE Known
  BY <1>2, <1>3, <1>4, <1>9 DEF SeedUpload, UploadBegin, Tool, Seeding
<1>10. ASSUME NEW r \in Request, NEW fs \in Uploads, NEW n \in Job, Import(r, n, fs) PROVE Known
  BY <1>2, <1>3, <1>4, <1>10 DEF Import, UploadBegin, Tool, Seeding
<1>11. ASSUME NEW r \in Request, Elsewhere(r) PROVE Known
  <2>1. by # NoRequest => pc'[by] = pc[by]
    BY <1>2, <1>11, OthersStay DEF Elsewhere
  <2> QED
    BY <1>2, <1>11, <2>1 DEF Elsewhere, Seeding
<1>12. ASSUME NEW n \in Job, SeedCreated(n) PROVE Known
  BY <1>2, <1>12 DEF SeedCreated, Tool, Seeding
<1>13. ASSUME NEW ok, NEW number, SeedUploaded(ok, number) \/ Imported(ok, number) PROVE Known
  BY <1>2, <1>13, NoRequestAssumption DEF SeedUploaded, Imported, ToolStops, Tool, Seeding
<1>14. ASSUME SeedRanked PROVE Known
  BY <1>2, <1>14 DEF SeedRanked, Tool, Seeding
<1>15. ASSUME ToolFails \/ SeedStops PROVE Known
  BY <1>2, <1>15 DEF ToolFails, SeedStops, ToolStops, Tool, Seeding
<1>16. ASSUME ServerRestarts PROVE Known
  BY <1>2, <1>16 DEF ServerRestarts, Tool, Seeding
<1>17. ASSUME UNCHANGED tvars PROVE Known
  BY <1>2, <1>17 DEF tvars, vars, locals, tools
<1>18. Known
  BY <1>5, <1>6, <1>7, <1>8, <1>9, <1>10, <1>11, <1>12, <1>13, <1>14, <1>15, <1>16, <1>17 DEF TNext
<1> QED
  BY <1>1, <1>18 DEF Tooled, TTypeOK

-----------------------------------------------------------------------------
(* How far a seed is that nobody disturbs, step by step.  Only its own     *)
(* requests are under way, so that the store is as it left it.             *)
Calm == DInv /\ Tooled /\ Seeded /\ alone

(* The job the seed is at comes first in the store. *)
LEMMA FirstStored ==
    ASSUME TypeOK, Len(store) > 0, NEW j \in Jobs(store), j.id = store[1].id
    PROVE  j = store[1]
BY OneOfAnId DEF Jobs, TypeOK

(* The two saves of a job that is first in the store already. *)
LEMMA FirstSaved ==
    ASSUME Calm, tool \in {"uploading", "ranking"}, NEW job \in StoredJob,
           job.id = store[1].id, Write(Saved(job))
    PROVE  /\ Len(store') = Len(store) /\ store'[1] = job
           /\ \A k \in 2..Len(store') : Whole(store'[k])
<1>1. TypeOK /\ store' = Saved(job) /\ Len(store) = Fixtures - left + 1 /\ left \in 1..Fixtures
  BY DEF Calm, DInv, Seeded, Tooled, Write, Seeding
<1>2. Len(store) > 0
  BY <1>1, FixturesAssumption, BoundAssumption
<1>3. /\ Len(Saved(job)) = Len(store)
      /\ \A k \in 2..Len(Saved(job)) : Saved(job)[k] = store[k]
  BY <1>1, <1>2, SavedOrder
<1>4. Saved(job)[1] = job
  BY <1>1, SavedStore
<1>5. \A k \in 2..Len(store) : Whole(store[k])
  BY DEF Calm, Seeded
<1> QED
  BY <1>1, <1>3, <1>4, <1>5

(* The job created comes before those that are whole already. *)
LEMMA SeedCreatedStep ==
    ASSUME Calm, NEW n \in Job, SeedCreated(n)
    PROVE  Seeded'
<1>1. /\ TypeOK /\ Own /\ tool = "creating" /\ left \in 1..Fixtures /\ by \in Request
      /\ Len(store) = Fixtures - left /\ (Len(store) > 0 => Whole(store[1]))
      /\ \A k \in 2..Len(store) : Whole(store[k])
      /\ \A r \in Request \ {by} : pc[r] = "idle"
  BY DEF Calm, DInv, Seeded, Tooled, TTypeOK, SeedCreated, Seeding
<1>2. /\ CreateSave(by, n) /\ tool' = "created" /\ by' = NoRequest /\ toolJob' = n
      /\ left' = left /\ alone' = alone
  BY DEF SeedCreated, Tool
<1> DEFINE job == NewJob(n)
<1>3. job \in StoredJob /\ job.id = n
  BY DEF NewJob, StoredJob
<1>4. store' = Saved(job) /\ n \notin drawn /\ End(by)
  BY <1>2 DEF CreateSave, SaveJob, Write
<1> HIDE DEF job
<1>5. ~Have(job)
  BY <1>1, <1>3, <1>4 DEF Have, Own, InPlay, Jobs
<1>6. Len(store) < Limit /\ Len(store) \in Nat
  BY <1>1, FixturesAssumption, BoundAssumption
<1>7. /\ Len(Saved(job)) = Len(store) + 1 /\ Saved(job)[1] = job
      /\ \A k \in 2..Len(Saved(job)) : Saved(job)[k] = store[k - 1]
  BY <1>1, <1>3, <1>5, <1>6, SavedOrder, SavedStore
<1>8. \A k \in 2..Len(store') : Whole(store'[k])
  BY <1>1, <1>4, <1>6, <1>7
<1>9. \A r \in Request : pc'[r] = "idle"
  BY <1>1, <1>4 DEF End, Continue, TypeOK
<1>10. Len(store') = Fixtures - left' + 1 /\ store'[1].id = toolJob'
  BY <1>1, <1>2, <1>3, <1>4, <1>7, FixturesAssumption
<1> QED
  BY <1>2, <1>8, <1>9, <1>10 DEF Seeded

(* It has CVs then, *)
LEMMA SeedUploadedStep ==
    ASSUME Calm, NEW ok \in SUBSET files[by], NEW number \in Numberings(base[by], files[by]),
           SeedUploaded(ok, number)
    PROVE  Seeded'
<1>1. /\ DInv /\ TypeOK /\ tool = "uploading" /\ by \in Request /\ left \in 1..Fixtures
      /\ Len(store) = Fixtures - left + 1 /\ store[1].id = toolJob
      /\ base[by] = store[1] /\ files[by] # {}
      /\ \A r \in Request \ {by} : pc[r] = "idle"
  BY DEF Calm, DInv, Seeded, Tooled, TTypeOK, SeedUploaded, Seeding
<1>2. /\ UploadSave(by, ok, number) /\ tool' = "uploaded" /\ by' = NoRequest
      /\ toolJob' = toolJob /\ left' = left /\ alone' = alone
  BY DEF SeedUploaded, Tool
<1> DEFINE job == WithCvs(base[by], Analyzed(base[by], files[by], ok, number))
<1>3. HasJob(by)
  BY <1>2 DEF UploadSave, HasJob
<1>4. job \in StoredJob /\ job.id = base[by].id /\ Ids(job) = Ids(base[by]) \cup files[by]
  BY <1>1, <1>3, InHand, UploadGood
<1>5. Write(Saved(job)) /\ End(by)
  BY <1>2 DEF UploadSave, SaveJob
<1> HIDE DEF job
<1>6. job.cvs # {}
  BY <1>1, <1>4 DEF Ids
<1>7. /\ Len(store') = Len(store) /\ store'[1] = job
      /\ \A k \in 2..Len(store') : Whole(store'[k])
  BY <1>1, <1>4, <1>5, FirstSaved
<1>8. \A r \in Request : pc'[r] = "idle"
  BY <1>1, <1>5 DEF End, Continue, TypeOK
<1> QED
  BY <1>1, <1>2, <1>4, <1>6, <1>7, <1>8 DEF Seeded

(* and is whole when it is ranked. *)
LEMMA SeedRankedStep ==
    ASSUME Calm, SeedRanked
    PROVE  Seeded'
<1>1. /\ DInv /\ TypeOK /\ tool = "ranking" /\ by \in Request /\ left \in 1..Fixtures
      /\ Len(store) = Fixtures - left + 1
      /\ base[by] = store[1] /\ store[1].cvs # {}
      /\ \A r \in Request \ {by} : pc[r] = "idle"
  BY DEF Calm, DInv, Seeded, Tooled, TTypeOK, SeedRanked, Seeding
<1>2. /\ RankSave(by) /\ by' = NoRequest /\ left' = left - 1 /\ alone' = alone
      /\ tool' = IF left' = 0 THEN "idle" ELSE "reset"
  BY DEF SeedRanked, Tool
<1> DEFINE job == [base[by] EXCEPT !.run = Candidates(base[by])]
<1>3. HasJob(by) /\ Write(Saved(job)) /\ End(by)
  BY <1>2 DEF RankSave, HasJob, SaveJob
<1>4. base[by] \in StoredJob
  BY <1>1, <1>3, InHand
<1>5. Candidates(base[by]) \in SUBSET (Cv \X Nat)
  BY <1>4 DEF StoredJob, StoredCv, Candidates, Ready
<1>6. /\ job \in StoredJob /\ job.id = base[by].id /\ job.cvs = base[by].cvs
      /\ job.run = Candidates(base[by])
  BY <1>4, <1>5 DEF StoredJob
<1> HIDE DEF job
<1>7. Whole(job)
  BY <1>1, <1>6 DEF Whole, Candidates, Ready
<1>8. /\ Len(store') = Len(store) /\ store'[1] = job
      /\ \A k \in 2..Len(store') : Whole(store'[k])
  BY <1>1, <1>3, <1>6, FirstSaved
<1>9. \A r \in Request : pc'[r] = "idle"
  BY <1>1, <1>3 DEF End, Continue, TypeOK
<1>10. Len(store') = Fixtures - left'
  BY <1>1, <1>2, <1>8, FixturesAssumption, BoundAssumption
<1> QED
  BY <1>2, <1>7, <1>8, <1>9, <1>10, FixturesAssumption, BoundAssumption DEF Seeded

(* Every step of a tool; those of anybody else end the calm. *)
LEMMA SeedStep ==
    ASSUME DInv, Tooled, Seeded, [TNext]_tvars
    PROVE  Seeded'
<1>1. ASSUME NEW r \in Request, SeedBegin(r) PROVE Seeded'
  <2>1. /\ store' = << >> /\ pc' = pc
        /\ tool' = "reset" /\ by' = NoRequest /\ left' = Fixtures
    BY <1>1 DEF SeedBegin, Reset, Write, Tool, locals
  <2>2. alone' => \A q \in Request : pc[q] = "idle"
    BY <1>1, Zenon DEF SeedBegin
  <2>3. Len(store') = Fixtures - left' /\ Len(store') = 0
    BY <2>1, FixturesAssumption, BoundAssumption
  <2> QED
    BY <2>1, <2>2, <2>3 DEF Seeded
<1>2. CASE ~alone /\ alone' = alone
  BY <1>2 DEF Seeded
<1>3. CASE ~alone'
  BY <1>3 DEF Seeded
<1>4. CASE alone /\ alone'
  <2>1. /\ Calm /\ TypeOK /\ Len(store) \in Nat
        /\ tool # "importing"
        /\ tool \in Seeding => left \in 1..Fixtures
        /\ by # NoRequest <=> tool \in {"creating", "uploading", "ranking"}
        /\ by # NoRequest => by \in Request
        /\ tool \in {"idle"} \cup Seeding
        /\ \A r \in Request \ {by} : pc[r] = "idle"
        /\ \A k \in 2..Len(store) : Whole(store[k])
    BY <1>4 DEF Calm, DInv, TypeOK, Seeded, Tooled, TTypeOK
  <2>2. \A r \in Request : \A p, job, fs : Continue(r, p, job, fs) =>
          /\ base'[r] = job /\ files'[r] = fs
          /\ \A q \in Request \ {r} : pc'[q] = pc[q]
    BY <2>1 DEF Continue, TypeOK
  <2>3. ASSUME NEW r \in Request, SeedCreate(r) PROVE Seeded'
    <3>1. /\ store' = store /\ tool = "reset" /\ tool' = "creating" /\ by' = r
          /\ by = NoRequest /\ left' = left
      BY <2>1, <2>3 DEF SeedCreate, CreateBegin, Tool, tables
    <3>2. \A q \in Request \ {by'} : pc'[q] = "idle"
      BY <2>1, <2>2, <2>3, <3>1, NoRequestAssumption DEF SeedCreate, CreateBegin
    <3> QED
      BY <1>4, <2>1, <3>1, <3>2 DEF Seeded
  <2>4. ASSUME NEW r \in Request, NEW fs \in Uploads, SeedUpload(r, fs) PROVE Seeded'
    <3>1. PICK j \in Stored(toolJob) : UploadBegin(r, j, fs)
      BY <2>4 DEF SeedUpload
    <3>2. /\ store' = store /\ tool = "created" /\ tool' = "uploading" /\ by' = r
          /\ by = NoRequest /\ left' = left /\ toolJob' = toolJob
      BY <2>1, <2>4, <3>1 DEF SeedUpload, UploadBegin, Tool, tables
    <3>3. \A q \in Request \ {by'} : pc'[q] = "idle"
      BY <2>1, <2>2, <3>1, <3>2, NoRequestAssumption DEF UploadBegin
    <3>4. Len(store) = Fixtures - left + 1 /\ store[1].id = toolJob /\ Len(store) > 0
      BY <1>4, <2>1, <3>2, FixturesAssumption, BoundAssumption DEF Seeded, Seeding
    <3>5. j = store[1]
      BY <2>1, <3>1, <3>4, FirstStored DEF Stored
    <3>6. base'[by'] = store'[1] /\ files'[by'] # {}
      BY <2>2, <3>1, <3>2, <3>5 DEF UploadBegin, Uploads
    <3> QED
      BY <1>4, <2>1, <3>2, <3>3, <3>4, <3>6 DEF Seeded
  <2>5. ASSUME NEW r \in Request, SeedRank(r) PROVE Seeded'
    <3>1. PICK j \in Stored(toolJob) : RankBegin(r, j)
      BY <2>5 DEF SeedRank
    <3>2. /\ store' = store /\ tool = "uploaded" /\ tool' = "ranking" /\ by' = r
          /\ by = NoRequest /\ left' = left /\ toolJob' = toolJob
      BY <2>1, <2>5, <3>1 DEF SeedRank, RankBegin, Tool, tables
    <3>3. \A q \in Request \ {by'} : pc'[q] = "idle"
      BY <2>1, <2>2, <3>1, <3>2, NoRequestAssumption DEF RankBegin
    <3>4. /\ Len(store) = Fixtures - left + 1 /\ store[1].id = toolJob /\ Len(store) > 0
          /\ store[1].cvs # {}
      BY <1>4, <2>1, <3>2, FixturesAssumption, BoundAssumption DEF Seeded, Seeding
    <3>5. j = store[1]
      BY <2>1, <3>1, <3>4, FirstStored DEF Stored
    <3>6. base'[by'] = store'[1]
      BY <2>2, <3>1, <3>2, <3>5 DEF RankBegin
    <3> QED
      BY <1>4, <2>1, <3>2, <3>3, <3>4, <3>6 DEF Seeded
  <2>6. ASSUME NEW r \in Request, ResetWorkspace(r) \/ Elsewhere(r) PROVE FALSE
    BY <1>4, <2>6 DEF ResetWorkspace, Elsewhere
  <2>7. ASSUME NEW r \in Request, NEW fs \in Uploads, NEW n \in Job, Import(r, n, fs) PROVE FALSE
    BY <1>4, <2>7 DEF Import
  <2>8. ASSUME NEW n \in Job, SeedCreated(n) PROVE Seeded'
    BY <2>1, <2>8, SeedCreatedStep
  <2>9. ASSUME NEW ok \in SUBSET files[by], NEW number \in Numberings(base[by], files[by]),
               SeedUploaded(ok, number) \/ Imported(ok, number)
        PROVE  Seeded'
    BY <2>1, <2>9, SeedUploadedStep DEF Imported
  <2>10. ASSUME SeedRanked PROVE Seeded'
    BY <2>1, <2>10, SeedRankedStep
  <2>11. ASSUME ToolFails PROVE Seeded'
    <3>1. /\ store' = store /\ by \in Request /\ tool' = "idle" /\ by' = NoRequest
          /\ left' = left /\ left # 0
      BY <2>1, <2>11 DEF ToolFails, Fail, ToolStops, Tool, tables, Seeding
    <3>2. \A q \in Request : pc'[q] = "idle"
      BY <2>1, <2>11, <3>1 DEF ToolFails, Fail, End, Continue, TypeOK
    <3> QED
      BY <2>1, <3>1, <3>2 DEF Seeded, Seeding
  <2>12. ASSUME SeedStops PROVE Seeded'
    <3>1. /\ store' = store /\ pc' = pc /\ by = NoRequest /\ tool' = "idle" /\ by' = NoRequest
          /\ left' = left /\ left # 0
      BY <2>1, <2>12 DEF SeedStops, ToolStops, Tool, vars, tables, locals, Seeding
    <3> QED
      BY <2>1, <3>1 DEF Seeded, Seeding
  <2>13. ASSUME ServerRestarts PROVE FALSE
    BY <1>4, <2>13 DEF ServerRestarts
  <2>14. ASSUME UNCHANGED tvars PROVE Seeded'
    BY <2>14 DEF tvars, vars, tools, tables, locals, Seeded
  <2> QED
    BY <1>1, <2>3, <2>4, <2>5, <2>6, <2>7, <2>8, <2>9, <2>10, <2>11, <2>12, <2>13, <2>14 DEF TNext
<1>5. alone \in BOOLEAN /\ alone' \in BOOLEAN
  BY ToolStep DEF Tooled, TTypeOK
<1>6. ASSUME alone' # alone, alone', TNext
      PROVE  \E r \in Request : SeedBegin(r)
  BY <1>6, <1>5 DEF TNext, SeedCreate, SeedRank, ResetWorkspace, SeedUpload, Import, Elsewhere,
     SeedCreated, SeedUploaded, Imported, SeedRanked, ToolFails, SeedStops, ToolStops, ServerRestarts
<1>7. ASSUME UNCHANGED tvars PROVE alone' = alone
  BY <1>7 DEF tvars, tools
<1> QED
  BY <1>1, <1>2, <1>3, <1>4, <1>5, <1>6, <1>7

-----------------------------------------------------------------------------
(* An empty store satisfies all of it. *)
LEMMA InitStore == Init => DInv
<1> SUFFICES ASSUME Init PROVE DInv
  OBVIOUS
<1>1. /\ store = << >> /\ disk = << >> /\ drawn = {} /\ safe = {}
      /\ pc = [r \in Request |-> "idle"] /\ base = [r \in Request |-> NoJob]
      /\ files = [r \in Request |-> {}]
  BY DEF Init
<1>2. TypeOK
  <2>1. /\ << >> \in Seq(StoredJob) /\ Len(<< >>) <= Limit
        /\ \A k, l \in DOMAIN << >> : << >>[k].id = << >>[l].id => k = l
    BY BoundAssumption
  <2> QED
    BY <1>1, <2>1 DEF TypeOK
<1>3. InPlay = {}
  BY <1>1 DEF InPlay, Jobs
<1>4. Goods /\ Own /\ Held
  BY <1>1, <1>3, FS_EmptySet DEF Goods, Own, Held, HasJob
<1> QED
  BY <1>2, <1>4 DEF DInv

(* So does a tool that was not used yet. *)
LEMMA InitInv == TInit => IInv
<1> SUFFICES ASSUME TInit PROVE IInv
  OBVIOUS
<1>1. tool = "idle" /\ by = NoRequest /\ toolJob = NoJob /\ left = Fixtures /\ alone = FALSE
  BY DEF TInit
<1>2. DInv
  BY InitStore DEF TInit
<1>3. left \in 0..Fixtures /\ tool \notin Seeding
  BY <1>1, FixturesAssumption, BoundAssumption DEF Seeding
<1>4. Tooled
  BY <1>1, <1>2, <1>3 DEF Tooled, TTypeOK, DInv
<1> QED
  BY <1>1, <1>2, <1>4 DEF IInv, Seeded

(* What the theorems below rest on, in every reachable state. *)
THEOREM Inductive == TSpec => []IInv
<1>1. IInv /\ [TNext]_tvars => IInv'
  BY StoreStep, ToolStep, SeedStep DEF IInv
<1> QED
  BY <1>1, InitInv, PTL DEF TSpec

-----------------------------------------------------------------------------
(* What analyzeFilesForJob, rankJob and saveJob store agrees with itself,  *)
(* however requests, failed writes and restarts overlap.                   *)
THEOREM Consistent == TSpec => []StoreConsistent
<1>1. IInv => StoreConsistent
  BY DEF IInv, DInv, Goods, Good, InPlay, Tooled, StoreConsistent, CountAgrees, NumbersDistinct
<1> QED
  BY <1>1, Inductive, PTL

(* The latest run is of CVs that its job has, under their numbers.         *)
THEOREM Faithful == TSpec => []RunFaithful
<1>1. IInv => RunFaithful
  BY DEF IInv, DInv, Goods, Good, InPlay, RunFaithful
<1> QED
  BY <1>1, Inductive, PTL

(* saveJob of the whole job loses uploads of overlapping requests only.    *)
THEOREM LostToOverlap == TSpec => []LostOnlyToOverlap
<1>1. IInv => LostOnlyToOverlap
  BY DEF IInv, DInv, Held, Ids, LostOnlyToOverlap, CvsOf
<1> QED
  BY <1>1, Inductive, PTL

(* Wherever an undisturbed seedWorkspace stops, the jobs before are whole. *)
THEOREM WholeSeed == TSpec => []SeedIsWhole
<1>1. IInv => SeedIsWhole
  BY DEF IInv, Tooled, TTypeOK, Seeded, SeedIsWhole
<1> QED
  BY <1>1, Inductive, PTL

-----------------------------------------------------------------------------
(* The page of a job: what it shows is good, its request is under way, and *)
(* without an overlap no document but that of the CV previewed.            *)
Shown ==
    /\ PTypeOK
    /\ mine \in Request \cup {NoRequest}
    /\ shown # NoJob => Good(shown)
    /\ preview # NoCv /\ ~overlapped =>
         asked \subseteq {preview.id} /\ document \in {NoCv, preview.id}

PInv == DInv /\ Shown

(* The page does nothing to the store but what its handlers do. *)
LEMMA PageIsHandler ==
    ASSUME PNext
    PROVE  (\E r \in Request : Handler(r)) \/ Restart \/ RestartTorn \/ UNCHANGED vars
<1>1. \A n : Stored(n) \subseteq Jobs(store)
  BY DEF Stored
<1>2. ASSUME NEW r \in Request, NEW n \in Job, Created(r, n) PROVE Handler(r)
  BY <1>2 DEF Created, Handler
<1>3. ASSUME NEW r \in Request, RunRanking(r) \/ Ranked(r) \/ RequestFails(r) \/ OtherRequest(r)
      PROVE  Handler(r)
  BY <1>1, <1>3 DEF RunRanking, Ranked, RequestFails, OtherRequest, Handler
<1>4. ASSUME NEW r \in Request, CreateJD(r) PROVE Handler(r)
  BY <1>4 DEF CreateJD, Handler
<1>5. ASSUME RequestsLost PROVE Restart \/ RestartTorn
  BY <1>5 DEF RequestsLost
<1>6. ASSUME \/ \E n \in Job : Open(n)
             \/ shown # NoJob /\ \E c \in shown.cvs, pdf \in BOOLEAN : OpenPreview(c, pdf)
             \/ \E c \in Cv : DocumentArrives(c)
             \/ ClosePreview
      PROVE  UNCHANGED vars
  BY <1>6 DEF Open, OpenPreview, DocumentArrives, ClosePreview
<1> QED
  BY <1>2, <1>3, <1>4, <1>5, <1>6 DEF PNext

(* So the store stays right under the page too. *)
LEMMA PageStoreStep ==
    ASSUME DInv, [PNext]_pvars
    PROVE  DInv'
<1>1. CASE UNCHANGED vars
  BY <1>1 DEF vars, tables, locals, DInv, TypeOK, Goods, Own, Held, InPlay, HasJob
<1>2. CASE PNext
  BY <1>1, <1>2, PageIsHandler, HandlerStep, RestartStep
<1> QED
  BY <1>1, <1>2 DEF pvars

(* What run_ranking answers is the job saved first, and a good one. *)
LEMMA RankedJob ==
    ASSUME DInv, DInv', NEW r \in Request, RankSave(r)
    PROVE  Head(store') \in StoredJob /\ Head(store') # NoJob /\ Good(Head(store'))
<1>1. TypeOK /\ TypeOK' /\ HasJob(r)
  BY DEF DInv, RankSave, HasJob
<1> DEFINE job == [base[r] EXCEPT !.run = Candidates(base[r])]
<1>2. SaveJob(r, job)
  BY DEF RankSave
<1>3. base[r] \in StoredJob
  BY <1>1, InHand
<1>4. job \in StoredJob
  BY <1>3 DEF StoredJob, Candidates, Ready, StoredCv
<1>5. Len(Saved(job)) \in 1..Limit
  BY <1>1, <1>4, SavedStore
<1>6. store' = Saved(job)
  BY <1>2 DEF SaveJob, Write
<1> HIDE DEF job
<1>7. Len(store') > 0 /\ store' \in Seq(StoredJob)
  BY <1>1, <1>5, <1>6, BoundAssumption DEF TypeOK
<1>8. Head(store') = store'[1] /\ 1 \in DOMAIN store'
  BY <1>7
<1>9. Head(store') \in Jobs(store)' /\ Head(store') \in StoredJob
  BY <1>7, <1>8 DEF Jobs
<1> QED
  BY <1>9, NoJobAssumption DEF DInv, Goods, InPlay

(* A step of the page, or of others under it, preserves what it shows. *)
LEMMA PageStep ==
    ASSUME DInv, Shown, [PNext]_pvars
    PROVE  Shown'
<1> DEFINE Known ==
           /\ shown' \in {NoJob} \cup StoredJob
           /\ preview' \in StoredCv \cup {NoCv} /\ document' \in Cv \cup {NoCv}
           /\ asked' \subseteq Cv /\ {loading', overlapped'} \subseteq BOOLEAN
           /\ mine' \in Request \cup {NoRequest}
           /\ mine' # NoRequest => pc'[mine'] = IF shown' = NoJob THEN "parse" ELSE "rank"
           /\ shown' # NoJob => Good(shown')
           /\ preview' # NoCv /\ ~overlapped' =>
                asked' \subseteq {preview'.id} /\ document' \in {NoCv, preview'.id}
<1>1. DInv' /\ TypeOK'
  BY PageStoreStep DEF DInv
<1>2. /\ TypeOK
      /\ shown \in {NoJob} \cup StoredJob
      /\ preview \in StoredCv \cup {NoCv} /\ document \in Cv \cup {NoCv}
      /\ asked \subseteq Cv /\ {loading, overlapped} \subseteq BOOLEAN
      /\ mine \in Request \cup {NoRequest}
      /\ mine # NoRequest => pc[mine] = IF shown = NoJob THEN "parse" ELSE "rank"
      /\ shown # NoJob => Good(shown)
      /\ preview # NoCv /\ ~overlapped =>
           asked \subseteq {preview.id} /\ document \in {NoCv, preview.id}
  BY DEF Shown, PTypeOK
<1>3. \A r \in Request : \A p, job, fs : Continue(r, p, job, fs) => pc'[r] = p
  BY <1>2 DEF Continue, TypeOK
<1>4. ASSUME NEW n \in Job, Open(n) PROVE Known
  <2>1. \A j \in Stored(n) : j \in StoredJob /\ Good(j)
    BY <1>2, NoJobAssumption DEF Stored, Jobs, TypeOK, DInv, Goods, InPlay
  <2> QED
    BY <1>4, <2>1 DEF Open
<1>5. ASSUME NEW r \in Request, CreateJD(r) PROVE Known
  BY <1>2, <1>3, <1>5 DEF CreateJD, CreateBegin
<1>6. ASSUME NEW r \in Request, NEW n \in Job, Created(r, n) PROVE Known
  BY <1>2, <1>6 DEF Created
<1>7. ASSUME NEW r \in Request, RunRanking(r) PROVE Known
  BY <1>2, <1>3, <1>7 DEF RunRanking, RankBegin
<1>8. ASSUME NEW r \in Request, Ranked(r) PROVE Known
  <2>1. shown' \in StoredJob /\ shown' # NoJob /\ Good(shown')
    BY <1>1, <1>8, RankedJob DEF Ranked
  <2> QED
    BY <1>2, <1>8, <2>1 DEF Ranked
<1>9. ASSUME NEW r \in Request, RequestFails(r) PROVE Known
  BY <1>2, <1>9 DEF RequestFails
<1>10. ASSUME NEW r \in Request, OtherRequest(r) PROVE Known
  <2>1. mine # NoRequest => pc'[mine] = pc[mine]
    BY <1>2, <1>10, OthersStay DEF OtherRequest
  <2> QED
    BY <1>2, <1>10, <2>1 DEF OtherRequest, page
<1>11. ASSUME shown # NoJob, NEW c \in shown.cvs, NEW pdf \in BOOLEAN, OpenPreview(c, pdf)
       PROVE  Known
  <2>1. c \in StoredCv /\ c.id \in Cv
    BY <1>2, <1>11 DEF StoredJob, StoredCv
  <2>2. pc' = pc
    BY <1>11 DEF OpenPreview, vars, locals
  <2>3. asked' \in {asked, asked \cup {c.id}} /\ loading' \in {loading, TRUE}
    BY <1>11 DEF OpenPreview
  <2>4. overlapped' \in BOOLEAN /\ (~overlapped' => asked = {})
    BY <1>11 DEF OpenPreview
  <2> QED
    BY <1>2, <1>11, <2>1, <2>2, <2>3, <2>4 DEF OpenPreview
<1>12. ASSUME NEW c \in Cv, DocumentArrives(c) PROVE Known
  <2>1. pc' = pc
    BY <1>12 DEF DocumentArrives, vars, locals
  <2> QED
    BY <1>2, <1>12, <2>1 DEF DocumentArrives
<1>13. ASSUME ClosePreview PROVE Known
  <2>1. pc' = pc
    BY <1>13 DEF ClosePreview, vars, locals
  <2> QED
    BY <1>2, <1>13, <2>1 DEF ClosePreview
<1>14. ASSUME RequestsLost PROVE Known
  BY <1>2, <1>14 DEF RequestsLost
<1>15. ASSUME UNCHANGED pvars PROVE Known
  BY <1>2, <1>15 DEF pvars, page, vars, locals
<1>16. Known
  BY <1>4, <1>5, <1>6, <1>7, <1>8, <1>9, <1>10, <1>11, <1>12, <1>13, <1>14, <1>15 DEF PNext
<1> QED
  BY <1>1, <1>16 DEF Shown, PTypeOK

(* What the theorems about the page rest on, in every reachable state. *)
THEOREM PageInductive == PSpec => []PInv
<1>1. PInit => PInv
  <2> SUFFICES ASSUME PInit PROVE PInv
    OBVIOUS
  <2>1. DInv
    BY InitStore DEF PInit
  <2> QED
    BY <2>1 DEF PInit, PInv, Shown, PTypeOK, DInv
<1>2. PInv /\ [PNext]_pvars => PInv'
  BY PageStoreStep, PageStep DEF PInv
<1> QED
  BY <1>1, <1>2, PTL DEF PSpec

(* previewDocument is of previewCV, unless another one was under way when  *)
(* the preview was opened: openPreviewCV forgets the document before.      *)
THEOREM DocumentOfCv == PSpec => []DocumentIsOfCv
<1>1. PInv => DocumentIsOfCv
  BY DEF PInv, Shown, DocumentIsOfCv, DocumentShown
<1> QED
  BY <1>1, PageInductive, PTL

(* The results that the page lists are of its CVs, and previewResult finds *)
(* by a candidate number the evaluation of the CV previewed.               *)
THEOREM ResultOfCv == PSpec => []ResultIsOfCv
<1>1. ASSUME Shown, shown # NoJob
      PROVE  RankingResults \subseteq Candidates(shown)
  BY <1>1 DEF Shown, Good, RankingResults
<1>2. ASSUME Shown, preview # NoCv, preview \in shown.cvs, NEW x \in EvaluationShown
      PROVE  x = preview.id
  <2>1. PICK y \in RankingResults : y[2] = preview.number /\ x = y[1]
    BY <1>2 DEF EvaluationShown
  <2>2. shown # NoJob
    BY <2>1 DEF RankingResults
  <2>3. PICK c \in Ready(shown) : y = <<c.id, c.number>>
    BY <1>1, <1>2, <2>1, <2>2 DEF Candidates
  <2>4. c \in shown.cvs /\ c.number = preview.number
    BY <2>1, <2>3 DEF Ready
  <2>5. c = preview
    BY <1>2, <2>2, <2>4 DEF Shown, Good
  <2> QED
    BY <2>1, <2>3, <2>5
<1>3. PInv => ResultIsOfCv
  BY <1>1, <1>2 DEF PInv, ResultIsOfCv, ResultsListed
<1> QED
  BY <1>3, PageInductive, PTL

=============================================================================
