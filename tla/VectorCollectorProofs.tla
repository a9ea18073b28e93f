------------------------ MODULE VectorCollectorProofs ------------------------
(***************************************************************************)
(* For any places, statuses, jobs, page length and number of scrapers:     *)
(* which series an answer has is one atomic read, the values that were     *)
(* read one by one fit together but for the record in progress, no answer  *)
(* takes back what an earlier one said, and every step of a cycle leaves   *)
(* less of it to do.                                                       *)
(***************************************************************************)
EXTENDS VectorCollector, FiniteSetTheorems, SequenceTheorems, TLAPS

\* A record that keeps the vectors fitting together.
Fitting(w) ==
    /\ w.timed <= w.runs /\ w.runs <= 1
    /\ w.runs > 0 <=> w.status # {}
    /\ w.detail > 0 => w.value > 0

\* Run has an entry while it has records of it to file; its stage is one of
\* the collector's; its records fit and are begun under the lock only; an entry
\* other than an environment is an item that GitLab created.
Sound(r) ==
    /\ r.stage \in DOMAIN Stages(kind)
    /\ \A i \in DOMAIN r.writes : Fitting(r.writes[i])
    /\ r.pc \in {"lock", "locked", "unlocked"} => r.writes # <<>> /\ r.queue # <<>>
    /\ r.pc # "locked" => r.step = 1
    /\ kind # "environments" => \A i \in DOMAIN r.queue : r.queue[i].id \in DOMAIN items

RunIsSound == Sound(run)

\* The families that the record at hand has still to go into.
Pending(n) == {Order(kind)[i] : i \in n..5}

Rest == IF run.pc = "locked" THEN Pending(run.step) ELSE {}

\* The vectors fit together once the families in P have their part of w.
WillFit(v, w, P) ==
    \A l \in Labels :
        LET Soon(f) == f \in P /\ l = w.label
            timed  == IF Soon("timed") THEN v.timed[l] + w.timed ELSE v.timed[l]
            runs   == IF Soon("runs") THEN v.runs[l] + w.runs ELSE v.runs[l]
            shown  == \/ \E st \in Statuses : <<l, st>> \in v.status
                      \/ Soon("status") /\ w.status # {}
            value  == v.value[l] > 0 \/ (Soon("value") /\ w.value > 0)
            detail == v.detail[l] > 0 \/ (Soon("detail") /\ w.detail > 0)
        IN  /\ timed <= runs
            /\ runs > 0 <=> shown
            /\ detail => value

VectorsWillFit == WillFit(vec, Head(run.writes), Rest)

\* A deployment is counted before its duration is observed.
CountedFirst ==
    kind = "environments" => \A l \in Labels : vec.timed[l] <= vec.runs[l]

\* Run records nothing while a Collect holds the read lock.
LockedApart == run.pc = "locked" => Reading = {}

-----------------------------------------------------------------------------

\* A series that a scrape was sent, read by now or not.
Has(x, n, l) == <<n, l>> \in x.unread \/ x.seen[Families[n]][l] > 0

Shows(x, l) == \E st \in Statuses : <<l, st>> \in x.seen.status

\* What was sent is there and was not more when it was read.
Reads(x, v) ==
    /\ \A u \in x.unread : u[1] <= x.sent /\ v[Families[u[1]]][u[2]] > 0
    /\ \A l \in Labels : x.seen.timed[l] <= v.timed[l] /\ x.seen.runs[l] <= v.runs[l]

\* What was read is no less than what the former answer said.
Keeps(x) ==
    \A l \in Labels :
        /\ x.sent >= 1 => <<1, l>> \in x.unread \/ x.answer.timed[l] <= x.seen.timed[l]
        /\ x.sent >= 3 => <<3, l>> \in x.unread \/ x.answer.runs[l] <= x.seen.runs[l]

\* A counter is read after the histogram of the same label.
InOrder(x) ==
    \A l \in Labels : x.sent >= 3 /\ <<3, l>> \notin x.unread =>
        <<1, l>> \notin x.unread /\ x.seen.timed[l] <= x.seen.runs[l] + Slack

\* Under the read lock: what was sent is what is there.
Current(x, v) ==
    /\ x.sent >= 2 => x.seen.status = v.status
    /\ \A l \in Labels :
        /\ IF x.sent >= 1 THEN Has(x, 1, l) <=> v.timed[l] > 0 ELSE x.seen.timed[l] = 0
        /\ IF x.sent >= 3 THEN Has(x, 3, l) <=> v.runs[l] > 0 ELSE x.seen.runs[l] = 0
        /\ IF x.sent >= 4 THEN Has(x, 4, l) <=> v.value[l] > 0 ELSE x.seen.value[l] = 0
        /\ IF x.sent >= 5 THEN Has(x, 5, l) <=> v.detail[l] > 0 ELSE x.seen.detail[l] = 0

\* After it: what was sent belongs together.
Whole(x) ==
    \A l \in Labels :
        /\ Has(x, 1, l) => Has(x, 3, l)
        /\ Has(x, 3, l) <=> Shows(x, l)
        /\ Has(x, 5, l) => Has(x, 4, l)

\* The former answer fits together and is not more than there is.
Answered(x, v) ==
    /\ FitsTogether(x.answer)
    /\ \A l \in Labels : x.answer.timed[l] <= v.timed[l] /\ x.answer.runs[l] <= v.runs[l]

Scraped(x, v) ==
    /\ Answered(x, v)
    /\ x.pc = "idle" => x.unread = {}
    /\ x.pc # "idle" => Reads(x, v) /\ Keeps(x) /\ InOrder(x)
    /\ x.pc = "reading" => Current(x, v)
    /\ x.pc = "gathering" => x.sent = 5 /\ Whole(x)

ScrapesAreSound == \A s \in Scrapers : Scraped(scrape[s], vec)

VectorInv ==
    /\ TypeOK
    /\ RunIsSound
    /\ VectorsWillFit
    /\ CountedFirst
    /\ LockedApart
    /\ ScrapesAreSound
-----------------------------------------------------------------------------
(* The vectors                                                             *)

FamilyNames == {"timed", "status", "runs", "value", "detail"}

\* v says everything that u says.
Grown(v, u) ==
    /\ u.status \subseteq v.status
    /\ \A l \in Labels :
          /\ u.timed[l] <= v.timed[l] /\ u.runs[l] <= v.runs[l]
          /\ u.value[l] > 0 => v.value[l] > 0
          /\ u.detail[l] > 0 => v.detail[l] > 0

LEMMA VectorShape ==
  ASSUME NEW v \in Vectors
  PROVE  /\ v.timed \in [Labels -> Nat] /\ v.runs \in [Labels -> Nat]
         /\ v.value \in [Labels -> Nat] /\ v.detail \in [Labels -> Nat]
         /\ v.status \subseteq Labels \X Statuses
BY DEF Vectors

LEMMA EmptyVectorsShape ==
  /\ EmptyVectors \in Vectors
  /\ FitsTogether(EmptyVectors)
  /\ \A w : WillFit(EmptyVectors, w, {})
  /\ \A l \in Labels : /\ EmptyVectors.timed[l] = 0 /\ EmptyVectors.runs[l] = 0
                       /\ EmptyVectors.value[l] = 0 /\ EmptyVectors.detail[l] = 0
BY DEF EmptyVectors, Vectors, FitsTogether, WillFit, Slack

\* Every family is pending at first, and the last one alone at last.
LEMMA PendingShape ==
  ASSUME kind \in AllKinds
  PROVE  /\ Len(Order(kind)) = 5
         /\ Pending(1) = FamilyNames
         /\ \A n \in 1..5 : Order(kind)[n] \in Pending(n)
         /\ \A n \in 1..4 : Pending(n + 1) = Pending(n) \ {Order(kind)[n]}
         /\ Pending(5) = {Order(kind)[5]}
         /\ \A n \in 1..5 : kind = "environments" /\ Order(kind)[n] = "timed" =>
                "runs" \notin Pending(n)
<1>1. ASSUME NEW n \in 1..5
      PROVE  n..5 = {m \in {1, 2, 3, 4, 5} : m >= n}
  OBVIOUS
<1>2. 1..5 = {1, 2, 3, 4, 5} /\ 1..4 = {1, 2, 3, 4}
  OBVIOUS
<1>3. CASE kind = "environments"
  <2>1. Order(kind) = <<"status", "runs", "timed", "value", "detail">>
    BY <1>3 DEF Order
  <2>2. /\ Pending(1) = FamilyNames /\ Pending(2) = {"runs", "timed", "value", "detail"}
        /\ Pending(3) = {"timed", "value", "detail"} /\ Pending(4) = {"value", "detail"}
        /\ Pending(5) = {"detail"}
    BY <1>1, <2>1 DEF Pending, FamilyNames
  <2>. QED  BY <1>2, <2>1, <2>2 DEF FamilyNames
<1>4. CASE kind # "environments"
  <2>1. Order(kind) = <<"timed", "status", "runs", "value", "detail">>
    BY <1>4 DEF Order, Families
  <2>2. /\ Pending(1) = FamilyNames /\ Pending(2) = {"status", "runs", "value", "detail"}
        /\ Pending(3) = {"runs", "value", "detail"} /\ Pending(4) = {"value", "detail"}
        /\ Pending(5) = {"detail"}
    BY <1>1, <2>1 DEF Pending, FamilyNames
  <2>. QED  BY <1>2, <1>4, <2>1, <2>2 DEF FamilyNames
<1>. QED  BY <1>3, <1>4

\* An update of one family.
LEMMA UpdatedShape ==
  ASSUME vec \in Vectors, NEW w \in Writes, NEW f \in FamilyNames
  PROVE  /\ Updated(f, w) \in Vectors
         /\ Updated(f, w).timed =
               IF f = "timed" THEN [vec.timed EXCEPT ![w.label] = vec.timed[w.label] + w.timed]
                              ELSE vec.timed
         /\ Updated(f, w).status =
               IF f = "status" THEN vec.status \cup {<<w.label, st>> : st \in w.status}
                               ELSE vec.status
         /\ Updated(f, w).runs =
               IF f = "runs" THEN [vec.runs EXCEPT ![w.label] = vec.runs[w.label] + w.runs]
                             ELSE vec.runs
         /\ Updated(f, w).value =
               IF f = "value"
               THEN [vec.value EXCEPT ![w.label] = IF w.value = 0 THEN vec.value[w.label] ELSE w.value]
               ELSE vec.value
         /\ Updated(f, w).detail =
               IF f = "detail"
               THEN [vec.detail EXCEPT ![w.label] = IF w.detail = 0 THEN vec.detail[w.label] ELSE w.detail]
               ELSE vec.detail
<1>1. /\ w.label \in Labels /\ w.status \subseteq Statuses
      /\ w.runs \in Nat /\ w.timed \in Nat /\ w.value \in Nat /\ w.detail \in Nat
  BY DEF Writes
<1>2. CASE f = "timed"
  <2>1. Updated(f, w) =
          [vec EXCEPT !.timed = [vec.timed EXCEPT ![w.label] = vec.timed[w.label] + w.timed]]
    BY <1>2 DEF Updated, Vectors
  <2>. QED  BY <1>1, <1>2, <2>1 DEF Vectors
<1>3. CASE f = "status"
  <2>1. Updated(f, w) = [vec EXCEPT !.status = vec.status \cup {<<w.label, st>> : st \in w.status}]
    BY <1>3 DEF Updated, Vectors
  <2>. QED  BY <1>1, <1>3, <2>1 DEF Vectors
<1>4. CASE f = "runs"
  <2>1. Updated(f, w) =
          [vec EXCEPT !.runs = [vec.runs EXCEPT ![w.label] = vec.runs[w.label] + w.runs]]
    BY <1>4 DEF Updated, Vectors
  <2>. QED  BY <1>1, <1>4, <2>1 DEF Vectors
<1>5. CASE f = "value"
  <2>1. Updated(f, w) =
          [vec EXCEPT !.value = [vec.value EXCEPT ![w.label] = IF w.value = 0 THEN vec.value[w.label] ELSE w.value]]
    BY <1>5 DEF Updated, Vectors
  <2>. QED  BY <1>1, <1>5, <2>1 DEF Vectors
<1>6. CASE f = "detail"
  <2>1. Updated(f, w) = [vec EXCEPT !.detail =
                [vec.detail EXCEPT ![w.label] = IF w.detail = 0 THEN vec.detail[w.label] ELSE w.detail]]
    BY <1>6 DEF Updated, Vectors
  <2>. QED  BY <1>1, <1>6, <2>1 DEF Vectors
<1>. QED  BY <1>2, <1>3, <1>4, <1>5, <1>6 DEF FamilyNames

\* The same at one label.
LEMMA UpdatedAt ==
  ASSUME vec \in Vectors, NEW w \in Writes, NEW f \in FamilyNames, NEW l \in Labels
  PROVE  /\ Updated(f, w).timed[l] = IF f = "timed" /\ l = w.label THEN vec.timed[l] + w.timed ELSE vec.timed[l]
         /\ Updated(f, w).runs[l] = IF f = "runs" /\ l = w.label THEN vec.runs[l] + w.runs ELSE vec.runs[l]
         /\ Updated(f, w).value[l] = IF f = "value" /\ l = w.label /\ w.value # 0 THEN w.value ELSE vec.value[l]
         /\ Updated(f, w).detail[l] = IF f = "detail" /\ l = w.label /\ w.detail # 0 THEN w.detail ELSE vec.detail[l]
         /\ (\E st \in Statuses : <<l, st>> \in Updated(f, w).status) <=>
               \/ \E st \in Statuses : <<l, st>> \in vec.status
               \/ f = "status" /\ l = w.label /\ w.status # {}
<1>1. w.label \in Labels /\ w.status \subseteq Statuses
  BY DEF Writes
<1>2. /\ Updated(f, w).timed[l] = IF f = "timed" /\ l = w.label THEN vec.timed[l] + w.timed ELSE vec.timed[l]
      /\ Updated(f, w).runs[l] = IF f = "runs" /\ l = w.label THEN vec.runs[l] + w.runs ELSE vec.runs[l]
  <2>1. /\ Updated(f, w).timed = IF f = "timed" THEN [vec.timed EXCEPT ![w.label] = vec.timed[w.label] + w.timed]
                                   ELSE vec.timed
        /\ Updated(f, w).runs = IF f = "runs" THEN [vec.runs EXCEPT ![w.label] = vec.runs[w.label] + w.runs]
                                 ELSE vec.runs
    BY UpdatedShape
  <2>2. vec.timed \in [Labels -> Nat] /\ vec.runs \in [Labels -> Nat]
    BY VectorShape
  <2>. QED  BY <1>1, <2>1, <2>2
<1>3. /\ Updated(f, w).value[l] = IF f = "value" /\ l = w.label /\ w.value # 0 THEN w.value ELSE vec.value[l]
      /\ Updated(f, w).detail[l] = IF f = "detail" /\ l = w.label /\ w.detail # 0 THEN w.detail ELSE vec.detail[l]
  <2>1. /\ Updated(f, w).value = IF f = "value"
                    THEN [vec.value EXCEPT ![w.label] =
                             IF w.value = 0 THEN vec.value[w.label] ELSE w.value]
                    ELSE vec.value
        /\ Updated(f, w).detail = IF f = "detail"
                     THEN [vec.detail EXCEPT ![w.label] =
                              IF w.detail = 0 THEN vec.detail[w.label] ELSE w.detail]
                     ELSE vec.detail
    BY UpdatedShape
  <2>2. vec.value \in [Labels -> Nat] /\ vec.detail \in [Labels -> Nat]
    BY VectorShape
  <2>. QED  BY <1>1, <2>1, <2>2
<1>4. Updated(f, w).status = IF f = "status" THEN vec.status \cup {<<w.label, st>> : st \in w.status}
                               ELSE vec.status
  BY UpdatedShape
<1>. QED  BY <1>1, <1>2, <1>3, <1>4

\* One family fewer is pending, and what will be stays the same.
LEMMA UpdateSettles ==
  ASSUME vec \in Vectors, NEW w \in Writes, NEW P, NEW f \in P, f \in FamilyNames,
         NEW v, v = Updated(f, w), WillFit(vec, w, P)
  PROVE  WillFit(v, w, P \ {f})
<1>1. /\ w.runs \in Nat /\ w.timed \in Nat /\ w.value \in Nat /\ w.detail \in Nat
  BY DEF Writes
<1>. SUFFICES ASSUME NEW l \in Labels
     PROVE  LET Soon(g) == g \in P \ {f} /\ l = w.label
                timed  == IF Soon("timed") THEN v.timed[l] + w.timed ELSE v.timed[l]
                runs   == IF Soon("runs") THEN v.runs[l] + w.runs ELSE v.runs[l]
                shown  == \/ \E st \in Statuses : <<l, st>> \in v.status
                          \/ Soon("status") /\ w.status # {}
                value  == v.value[l] > 0 \/ (Soon("value") /\ w.value > 0)
                detail == v.detail[l] > 0 \/ (Soon("detail") /\ w.detail > 0)
            IN  /\ timed <= runs
                /\ runs > 0 <=> shown
                /\ detail => value
  BY Zenon DEF WillFit
<1>2. /\ vec.timed[l] \in Nat /\ vec.runs[l] \in Nat /\ vec.value[l] \in Nat /\ vec.detail[l] \in Nat
  BY VectorShape
<1>. DEFINE shownNow == \E st \in Statuses : <<l, st>> \in vec.status
            shownThen == \E st \in Statuses : <<l, st>> \in v.status
<1>3. /\ v.timed[l] = IF f = "timed" /\ l = w.label THEN vec.timed[l] + w.timed ELSE vec.timed[l]
      /\ v.runs[l] = IF f = "runs" /\ l = w.label THEN vec.runs[l] + w.runs ELSE vec.runs[l]
      /\ v.value[l] = IF f = "value" /\ l = w.label /\ w.value # 0 THEN w.value ELSE vec.value[l]
      /\ v.detail[l] = IF f = "detail" /\ l = w.label /\ w.detail # 0 THEN w.detail ELSE vec.detail[l]
      /\ shownThen <=> shownNow \/ (f = "status" /\ l = w.label /\ w.status # {})
  BY UpdatedAt, Zenon
<1>4. LET Soon(g) == g \in P /\ l = w.label
          timed  == IF Soon("timed") THEN vec.timed[l] + w.timed ELSE vec.timed[l]
          runs   == IF Soon("runs") THEN vec.runs[l] + w.runs ELSE vec.runs[l]
      IN  /\ timed <= runs
          /\ runs > 0 <=> shownNow \/ (Soon("status") /\ w.status # {})
          /\ vec.detail[l] > 0 \/ (Soon("detail") /\ w.detail > 0) =>
                vec.value[l] > 0 \/ (Soon("value") /\ w.value > 0)
  BY DEF WillFit
<1>. HIDE DEF shownNow, shownThen
<1>5. CASE l # w.label
  BY <1>3, <1>4, <1>5 DEF shownThen
<1>6. CASE l = w.label
  <2>1. CASE f = "timed"
    BY <1>1, <1>2, <1>3, <1>4, <1>6, <2>1 DEF shownThen
  <2>2. CASE f = "status"
    BY <1>1, <1>2, <1>3, <1>4, <1>6, <2>2 DEF shownThen
  <2>3. CASE f = "runs"
    BY <1>1, <1>2, <1>3, <1>4, <1>6, <2>3 DEF shownThen
  <2>4. CASE f = "value"
    BY <1>1, <1>2, <1>3, <1>4, <1>6, <2>4 DEF shownThen
  <2>5. CASE f = "detail"
    BY <1>1, <1>2, <1>3, <1>4, <1>6, <2>5 DEF shownThen
  <2>. QED  BY <2>1, <2>2, <2>3, <2>4, <2>5 DEF FamilyNames
<1>. QED  BY <1>5, <1>6

\* Vectors that fit together will still do so after a fitting record.
LEMMA RecordBegins ==
  ASSUME NEW v \in Vectors, NEW u, WillFit(v, u, {}), NEW w \in Writes, Fitting(w)
  PROVE  WillFit(v, w, FamilyNames) /\ WillFit(v, w, {})
<1>1. /\ w.runs \in Nat /\ w.timed \in Nat /\ w.value \in Nat /\ w.detail \in Nat
  BY DEF Writes
<1>2. ASSUME NEW l \in Labels
      PROVE  /\ v.timed[l] \in Nat /\ v.runs[l] \in Nat /\ v.value[l] \in Nat /\ v.detail[l] \in Nat
             /\ v.timed[l] <= v.runs[l]
             /\ v.runs[l] > 0 <=> \E st \in Statuses : <<l, st>> \in v.status
             /\ v.detail[l] > 0 => v.value[l] > 0
  BY VectorShape DEF WillFit
<1>3. WillFit(v, w, {})
  BY <1>2 DEF WillFit
<1>4. WillFit(v, w, FamilyNames)
  BY <1>1, <1>2 DEF WillFit, FamilyNames, Fitting
<1>. QED  BY <1>3, <1>4

\* An update takes nothing away.
LEMMA UpdateGrows ==
  ASSUME vec \in Vectors, NEW w \in Writes, NEW f \in FamilyNames
  PROVE  Grown(Updated(f, w), vec)
<1>. DEFINE v == Updated(f, w)
<1>1. vec.status \subseteq v.status
  BY UpdatedShape
<1>2. /\ w.runs \in Nat /\ w.timed \in Nat /\ w.value \in Nat /\ w.detail \in Nat
  BY DEF Writes
<1>3. ASSUME NEW l \in Labels
      PROVE  /\ vec.timed[l] <= v.timed[l] /\ vec.runs[l] <= v.runs[l]
             /\ vec.value[l] > 0 => v.value[l] > 0
             /\ vec.detail[l] > 0 => v.detail[l] > 0
  <2>1. /\ v.timed[l] = IF f = "timed" /\ l = w.label THEN vec.timed[l] + w.timed ELSE vec.timed[l]
        /\ v.runs[l] = IF f = "runs" /\ l = w.label THEN vec.runs[l] + w.runs ELSE vec.runs[l]
        /\ v.value[l] = IF f = "value" /\ l = w.label /\ w.value # 0 THEN w.value ELSE vec.value[l]
        /\ v.detail[l] = IF f = "detail" /\ l = w.label /\ w.detail # 0 THEN w.detail ELSE vec.detail[l]
    BY UpdatedAt
  <2>2. vec.timed[l] \in Nat /\ vec.runs[l] \in Nat
    BY VectorShape
  <2>. HIDE DEF v
  <2>. QED  BY <1>2, <2>1, <2>2
<1>. QED  BY <1>1, <1>3 DEF Grown

-----------------------------------------------------------------------------
(* What GitLab answers                                                     *)

\* An order of a finite set is a sequence of its elements.
LEMMA OrdersShape ==
  ASSUME NEW S, IsFiniteSet(S), NEW q \in Orders(S)
  PROVE  /\ Cardinality(S) \in Nat
         /\ q \in [1..Cardinality(S) -> S]
         /\ q \in Seq(S)
<1>1. Cardinality(S) \in Nat
  BY FS_CardinalityType
<1>2. q \in [1..Cardinality(S) -> S]
  BY DEF Orders
<1>. QED  BY <1>1, <1>2

\* The items at some places, and the page of them, are finitely many.
LEMMA ItemsFinite ==
  ASSUME items \in Seq(Places), NEW ps
  PROVE  /\ Newest(IdsAt(ps)) \subseteq DOMAIN items
         /\ IsFiniteSet(Newest(IdsAt(ps)))
         /\ Cardinality(Newest(IdsAt(ps))) \in Nat
<1>1. Newest(IdsAt(ps)) \subseteq DOMAIN items
  BY DEF Newest, Page, IdsAt
<1>2. DOMAIN items = 1..Len(items) /\ Len(items) \in Nat
  BY LenProperties
<1>3. IsFiniteSet(DOMAIN items)
  BY <1>2, FS_Interval
<1>4. IsFiniteSet(Newest(IdsAt(ps)))
  BY <1>1, <1>3, FS_Subset, Newest(IdsAt(ps)) \in SUBSET DOMAIN items
<1>. QED  BY <1>1, <1>4, FS_CardinalityType

LEMMA ItemShape ==
  ASSUME items \in Seq(Places), NEW j \in DOMAIN items
  PROVE  j \in Nat /\ items[j] \in Places
<1>1. DOMAIN items = 1..Len(items) /\ Len(items) \in Nat
  BY LenProperties
<1>. QED  BY <1>1, ElementOfSeq

Entries == [place : Places, id : Nat]

\* A listing is a sequence of environments or of items that exist.
LEMMA ListingsShape ==
  ASSUME TypeOK, NEW p, NEW l \in Listings(p)
  PROVE  /\ l \in Seq(Entries)
         /\ kind # "environments" => \A i \in DOMAIN l : l[i].id \in DOMAIN items
<1>. USE DEF TypeOK
<1>1. CASE kind = "environments"
  <2>0. PICK q \in UNION {Orders(open) : open \in SUBSET PlacesOf(p)} :
            l = [i \in DOMAIN q |-> [place |-> q[i], id |-> 0]]
    BY <1>1 DEF Listings
  <2>1. PICK open \in SUBSET PlacesOf(p) : q \in Orders(open)
    BY <2>0
  <2>2. open \in SUBSET Places
    BY <2>1 DEF PlacesOf
  <2>3. IsFiniteSet(open)
    BY <2>2, VectorAssumption, FS_Subset
  <2>4. Cardinality(open) \in Nat /\ q \in [1..Cardinality(open) -> open]
    BY <2>1, <2>3, OrdersShape
  <2>5. l \in [1..Cardinality(open) -> Entries]
    BY <2>0, <2>2, <2>4 DEF Entries
  <2>6. l \in Seq(Entries)
    <3>. DEFINE c == Cardinality(open)
    <3>1. c \in Nat /\ l \in [1..c -> Entries]
      BY <2>4, <2>5
    <3>. HIDE DEF c
    <3>. QED  BY <3>1
  <2>. QED  BY <1>1, <2>6
<1>2. CASE kind # "environments"
  <2>. DEFINE ids == Newest(IdsAt(PlacesOf(p)))
  <2>1. PICK q \in NewestFirst(ids) :
            l = [i \in DOMAIN q |-> [place |-> items[q[i]], id |-> q[i]]]
    BY <1>2 DEF Listings
  <2>2. ids \subseteq DOMAIN items /\ IsFiniteSet(ids)
    BY ItemsFinite
  <2>. HIDE DEF ids
  <2>3. q \in Orders(ids)
    BY <2>1 DEF NewestFirst
  <2>4. Cardinality(ids) \in Nat /\ q \in [1..Cardinality(ids) -> ids]
    BY <2>2, <2>3, OrdersShape
  <2>5. \A j \in DOMAIN items : j \in Nat /\ items[j] \in Places
    BY ItemShape
  <2>6. l \in [1..Cardinality(ids) -> Entries]
    BY <2>1, <2>2, <2>4, <2>5 DEF Entries
  <2>7. \A i \in DOMAIN l : l[i].id \in DOMAIN items
    BY <2>1, <2>2, <2>4
  <2>8. l \in Seq(Entries)
    <3>. DEFINE c == Cardinality(ids)
    <3>1. c \in Nat /\ l \in [1..c -> Entries]
      BY <2>4, <2>6
    <3>. HIDE DEF c
    <3>. QED  BY <3>1
  <2>. QED  BY <2>7, <2>8
<1>. QED  BY <1>1, <1>2

\* The record of one run.
LEMMA RunRecordShape ==
  ASSUME NEW section \in Sections(kind), NEW e, e.place \in Places,
         NEW w \in RunRecords(section, e)
  PROVE  w \in Writes /\ Fitting(w) /\ w.value = 0 /\ w.detail = 0
<1>1. PICK st \in Statuses, t \in 0..1 : w = RunRecord(<<section, e.place>>, st, t)
  BY DEF RunRecords
<1>2. <<section, e.place>> \in Labels
  BY DEF Labels
<1>3. w = [label |-> <<section, e.place>>, status |-> {st}, runs |-> 1, timed |-> t,
           value |-> 0, detail |-> 0]
  BY <1>1 DEF RunRecord
<1>4. w \in Writes
  BY <1>2, <1>3 DEF Writes
<1>5. Fitting(w)
  BY <1>3 DEF Fitting
<1>. QED  BY <1>3, <1>4, <1>5

LEMMA DataRecordShape ==
  ASSUME NEW section \in Sections(kind), NEW place \in Places,
         NEW value \in Nat, NEW detail \in Nat, detail > 0 => value > 0
  PROVE  /\ DataRecord(<<section, place>>, value, detail) \in Writes
         /\ Fitting(DataRecord(<<section, place>>, value, detail))
<1>1. <<section, place>> \in Labels
  BY DEF Labels
<1>. QED  BY <1>1 DEF DataRecord, Writes, Fitting

\* One record as an answer.
LEMMA OneWrite ==
  ASSUME NEW w \in Writes, Fitting(w)
  PROVE  <<w>> \in Seq(Writes) /\ \A i \in DOMAIN <<w>> : Fitting(<<w>>[i])
OBVIOUS

\* The records that the answer to a stage's call leads to are of the
\* collector's own series and fit.
LEMMA AnswersShape ==
  ASSUME TypeOK, NEW n \in DOMAIN Stages(kind),
         NEW e \in Entries, kind # "environments" => e.id \in DOMAIN items,
         NEW ws \in Answers(Stages(kind)[n], e)
  PROVE  ws \in Seq(Writes) /\ \A i \in DOMAIN ws : Fitting(ws[i])
<1>0. items \in Seq(Places)
  BY DEF TypeOK
<1>1. kind \in AllKinds /\ e.place \in Places /\ e.id \in Nat
  BY VectorAssumption DEF TypeOK, Entries
<1>2. CASE kind = "pipelines" /\ Stages(kind)[n] = "pipeline"
  <2>1. PICK v \in PipelineRecords(e) : ws = <<v>>
    BY <1>2 DEF Answers
  <2>2. PICK w \in RunRecords("pipeline", e) :
            \/ v = [w EXCEPT !.value = e.id]
            \/ v = [w EXCEPT !.value = e.id, !.detail = e.id]
    BY DEF PipelineRecords
  <2>3. "pipeline" \in Sections(kind)
    BY <1>2 DEF Sections
  <2>4. w \in Writes /\ Fitting(w) /\ w.detail = 0
    BY <1>1, <2>3, RunRecordShape
  <2>5. v \in Writes /\ Fitting(v)
    <3>1. /\ v.label = w.label /\ v.status = w.status /\ v.runs = w.runs
          /\ v.timed = w.timed /\ v.value = e.id /\ v.detail \in {0, e.id} /\ v \in Writes
      BY <1>1, <2>2, <2>4 DEF Writes
    <3>. QED  BY <1>1, <2>4, <3>1 DEF Fitting
  <2>. QED  BY <2>1, <2>5, OneWrite
<1>3. CASE kind = "pipelines" /\ Stages(kind)[n] = "bridges"
  <2>1. CASE ws = <<>>
    BY <2>1, EmptySeq
  <2>2. CASE ws # <<>>
    <3>1. ws \in {<<>>} \cup {<<w>> : w \in RunRecords("child", e)}
      BY <1>3 DEF Answers
    <3>2. PICK w \in RunRecords("child", e) : ws = <<w>>
      BY <2>2, <3>1
    <3>3. "child" \in Sections(kind)
      BY <1>3 DEF Sections
    <3>4. w \in Writes /\ Fitting(w)
      BY <1>1, <3>3, RunRecordShape
    <3>. QED  BY <3>2, <3>4, OneWrite
  <2>. QED  BY <2>1, <2>2
<1>4. CASE kind = "jobs" /\ Stages(kind)[n] = "jobs"
  <2>1. ws \in JobWrites(e)
    BY <1>4 DEF Answers
  <2>2. PICK m \in 0..Len(JobNames) : ws \in [1..m -> JobRecords(e)]
    BY <2>1 DEF JobWrites
  <2>3. Len(JobNames) \in Nat
    BY VectorAssumption, LenProperties
  <2>4. m \in Nat
    BY <2>3
  <2>5. Sections("jobs") = Sections(kind)
    BY <1>4
  <2>6. ASSUME NEW w \in JobRecords(e)  PROVE w \in Writes /\ Fitting(w)
    <3>1. PICK name \in Sections("jobs") : w \in RunRecords(name, e)
      BY DEF JobRecords
    <3>. QED  BY <1>1, <2>5, <3>1, RunRecordShape
  <2>7. ws \in [1..m -> Writes]
    BY <2>2, <2>6
  <2>. QED  BY <2>2, <2>4, <2>6, <2>7
<1>5. CASE kind = "environments" /\ Stages(kind)[n] = "info"
  <2>1. ws = <<DataRecord(<<"environment", e.place>>, 1, 0)>>
    BY <1>5 DEF Answers
  <2>2. "environment" \in Sections(kind)
    BY <1>5 DEF Sections
  <2>. QED  BY <1>1, <2>1, <2>2, DataRecordShape, OneWrite
<1>6. CASE kind = "environments" /\ Stages(kind)[n] = "deployments"
  <2>1. ws \in [1..Cardinality(Deployments(e)) -> RunRecords("environment", e)]
    BY <1>6 DEF Answers, DeploymentWrites
  <2>2. "environment" \in Sections(kind)
    BY <1>6 DEF Sections
  <2>3. PICK c : c \in Nat /\ c = Cardinality(Deployments(e))
    BY <1>0, ItemsFinite DEF Deployments
  <2>4. \A w \in RunRecords("environment", e) : w \in Writes /\ Fitting(w)
    BY <1>1, <2>2, RunRecordShape
  <2>5. ws \in [1..c -> Writes] /\ \A i \in 1..c : Fitting(ws[i])
    BY <2>1, <2>3, <2>4
  <2>. QED  BY <2>3, <2>5
<1>7. CASE kind = "test_reports" /\ Stages(kind)[n] = "report"
  <2>1. ws = <<DataRecord(<<"report", e.place>>, e.id, e.id)>>
    BY <1>7 DEF Answers
  <2>2. "report" \in Sections(kind)
    BY <1>7 DEF Sections
  <2>. QED  BY <1>1, <2>1, <2>2, DataRecordShape, OneWrite
<1>8. \/ kind = "pipelines" /\ Stages(kind)[n] \in {"pipeline", "bridges"}
      \/ kind = "jobs" /\ Stages(kind)[n] = "jobs"
      \/ kind = "environments" /\ Stages(kind)[n] \in {"info", "deployments"}
      \/ kind = "test_reports" /\ Stages(kind)[n] = "report"
  BY <1>1 DEF AllKinds, Stages
<1>. QED  BY <1>2, <1>3, <1>4, <1>5, <1>6, <1>7, <1>8

-----------------------------------------------------------------------------
(* The invariant                                                           *)

Runs ==
    [pc : {"idle", "project", "entry", "lock", "locked", "unlocked"}, cycle : Nat,
     todo : SUBSET Projects, queue : Seq(Entries),
     stage : 1..2, writes : Seq(Writes), step : 1..5]

Scrapes ==
    [pc : {"idle", "reading", "gathering"}, sent : 0..5,
     unread : SUBSET ({1, 3, 4, 5} \X Labels), seen : Vectors, answer : Vectors]

LEMMA TypeParts ==
  TypeOK <=>
    /\ kind \in Kinds
    /\ items \in Seq(Places)
    /\ projects \subseteq Projects
    /\ vec \in Vectors
    /\ run \in Runs
    /\ scrape \in [Scrapers -> Scrapes]
BY DEF TypeOK, Runs, Scrapes, Entries

\* The collector stays the same, and so do its series and its stages.
LEMMA SameKind ==
  ASSUME UNCHANGED kind
  PROVE  /\ Labels' = Labels
         /\ Vectors' = Vectors
         /\ Writes' = Writes
         /\ Runs' = Runs
         /\ Scrapes' = Scrapes
         /\ Stages(kind)' = Stages(kind)
         /\ Order(kind)' = Order(kind)
         /\ Slack' = Slack
<1>1. Labels' = Labels
  BY DEF Labels
<1>2. Vectors' = Vectors /\ Writes' = Writes
  BY <1>1 DEF Vectors, Writes
<1>. QED  BY <1>1, <1>2 DEF Runs, Scrapes, Slack

LEMMA StagesShape ==
  ASSUME NEW k \in AllKinds
  PROVE  /\ Len(Stages(k)) \in 1..2
         /\ DOMAIN Stages(k) = 1..Len(Stages(k))
<1>1. CASE k = "pipelines"
  BY <1>1 DEF Stages
<1>2. CASE k = "jobs"
  BY <1>2 DEF Stages
<1>3. CASE k = "environments"
  BY <1>3 DEF Stages
<1>4. CASE k = "test_reports"
  BY <1>4 DEF Stages
<1>. QED  BY <1>1, <1>2, <1>3, <1>4 DEF AllKinds

\* The invariant in the next state, part by part.
LEMMA TypeNext ==
  ASSUME UNCHANGED kind, kind \in Kinds, items' \in Seq(Places), projects' \subseteq Projects,
         vec' \in Vectors, run' \in Runs, scrape' \in [Scrapers -> Scrapes]
  PROVE  TypeOK'
<1>1. Vectors' = Vectors /\ Writes' = Writes /\ Labels' = Labels
  BY SameKind
<1>. QED  BY <1>1 DEF TypeOK, Runs, Scrapes, Entries

LEMMA RunNext ==
  ASSUME UNCHANGED <<kind, items>>, Sound(run')
  PROVE  RunIsSound'
<1>1. Stages(kind)' = Stages(kind)
  BY SameKind
<1>. QED  BY <1>1 DEF RunIsSound, Sound

LEMMA RestNext ==
  ASSUME UNCHANGED kind
  PROVE  Rest' = IF run'.pc = "locked" THEN Pending(run'.step) ELSE {}
<1>1. Order(kind)' = Order(kind)
  BY SameKind
<1>. QED  BY <1>1 DEF Rest, Pending

LEMMA FitNext ==
  ASSUME UNCHANGED kind, NEW P, P = Rest', WillFit(vec', Head(run'.writes), P)
  PROVE  VectorsWillFit'
<1>1. Labels' = Labels
  BY SameKind
<1>. QED  BY <1>1 DEF VectorsWillFit, WillFit

LEMMA ScrapedNext ==
  ASSUME UNCHANGED kind, \A s \in Scrapers : Scraped(scrape'[s], vec')
  PROVE  ScrapesAreSound'
<1>1. Labels' = Labels /\ Slack' = Slack
  BY SameKind
<1>. SUFFICES ASSUME NEW s \in Scrapers  PROVE Scraped(scrape[s], vec)'
  BY DEF ScrapesAreSound
<1>2. Scraped(scrape'[s], vec')
  OBVIOUS
<1>3. Answered(scrape'[s], vec') => Answered(scrape[s], vec)'
  BY <1>1 DEF Answered, FitsTogether
<1>4. Reads(scrape'[s], vec') => Reads(scrape[s], vec)'
  BY <1>1 DEF Reads
<1>5. Keeps(scrape'[s]) => Keeps(scrape[s])'
  BY <1>1 DEF Keeps
<1>6. InOrder(scrape'[s]) => InOrder(scrape[s])'
  BY <1>1 DEF InOrder
<1>7. Current(scrape'[s], vec') => Current(scrape[s], vec)'
  BY <1>1 DEF Current, Has
<1>8. Whole(scrape'[s]) => Whole(scrape[s])'
  BY <1>1 DEF Whole, Has, Shows
<1>. QED  BY <1>2, <1>3, <1>4, <1>5, <1>6, <1>7, <1>8 DEF Scraped

\* Between records the vectors fit together whatever the next record is.
LEMMA FitsBetween ==
  ASSUME NEW v, NEW u, WillFit(v, u, {}), NEW w
  PROVE  WillFit(v, w, {})
BY DEF WillFit

\* At any time, but for a duration that is observed before it is counted.
LEMMA SlackHolds ==
  ASSUME VectorInv, NEW l \in Labels
  PROVE  vec.timed[l] <= vec.runs[l] + Slack
<1>1. vec.timed[l] \in Nat /\ vec.runs[l] \in Nat
  BY VectorShape DEF VectorInv, TypeOK
<1>2. CASE kind = "environments"
  BY <1>1, <1>2 DEF VectorInv, CountedFirst, Slack
<1>3. CASE kind # "environments"
  <2>. DEFINE w == Head(run.writes)
              Soon(f) == f \in Rest /\ l = w.label
  <2>1. (IF Soon("timed") THEN vec.timed[l] + w.timed ELSE vec.timed[l])
           <= (IF Soon("runs") THEN vec.runs[l] + w.runs ELSE vec.runs[l])
    BY DEF VectorInv, VectorsWillFit, WillFit
  <2>2. CASE run.pc # "locked"
    BY <1>1, <1>3, <2>1, <2>2 DEF Rest, Slack
  <2>3. CASE run.pc = "locked"
    <3>1. run.writes \in Seq(Writes) /\ run.writes # <<>>
      BY <2>3 DEF VectorInv, TypeOK, RunIsSound, Sound
    <3>2. 1 \in DOMAIN run.writes /\ w = run.writes[1] /\ w \in Writes
      BY <3>1, LenProperties, EmptySeq, HeadTailProperties
    <3>3. w.timed \in Nat /\ w.runs \in Nat /\ w.runs <= 1
      BY <3>2 DEF VectorInv, RunIsSound, Sound, Fitting, Writes
    <3>4. Slack = 1
      BY <1>3 DEF Slack
    <3>. HIDE DEF w
    <3>. QED  BY <1>1, <2>1, <3>3, <3>4
  <2>. QED  BY <2>2, <2>3
<1>. QED  BY <1>2, <1>3

LEMMA VectorInitInv == Init => VectorInv
<1>. SUFFICES ASSUME Init  PROVE VectorInv
  OBVIOUS
<1>1. kind \in AllKinds
  BY VectorAssumption DEF Init
<1>2. 0 \in 0..5 /\ 1 \in 1..5 /\ EmptyVectors \in Vectors
  BY EmptyVectorsShape
<1>3. run \in Runs
  BY EmptySeq DEF Init, Idle, Runs
<1>4. scrape \in [Scrapers -> Scrapes]
  BY <1>2 DEF Init, Scrapes
<1>5. items \in Seq(Places)
  BY EmptySeq DEF Init
<1>6. TypeOK
  BY <1>2, <1>3, <1>4, <1>5, TypeParts DEF Init
<1>7. RunIsSound /\ LockedApart
  BY <1>1, StagesShape DEF Init, Idle, RunIsSound, Sound, LockedApart
<1>8. VectorsWillFit
  BY EmptyVectorsShape DEF Init, Idle, VectorsWillFit, Rest
<1>9. CountedFirst
  BY EmptyVectorsShape DEF Init, CountedFirst
<1>10. ASSUME NEW s \in Scrapers  PROVE Scraped(scrape[s], vec)
  <2>1. /\ scrape[s].pc = "idle" /\ scrape[s].unread = {} /\ scrape[s].answer = EmptyVectors
        /\ vec = EmptyVectors
    BY DEF Init
  <2>. QED  BY <2>1, EmptyVectorsShape DEF Scraped, Answered
<1>. QED  BY <1>6, <1>7, <1>8, <1>9, <1>10 DEF VectorInv, ScrapesAreSound

-----------------------------------------------------------------------------
(* The steps of Run                                                        *)

\* A step that leaves the vectors and the scrapes alone, outside of a record.
LEMMA RunMoves ==
  ASSUME VectorInv, UNCHANGED <<kind, vec, scrape>>, run' \in Runs, RunIsSound',
         items' \in Seq(Places), projects' \subseteq Projects,
         run.pc # "locked", run'.pc # "locked"
  PROVE  VectorInv'
<1>. USE DEF VectorInv
<1>1. TypeOK'
  BY TypeParts, TypeNext
<1>2. VectorsWillFit'
  <2>1. WillFit(vec, Head(run'.writes), {})
    BY FitsBetween DEF VectorsWillFit, Rest
  <2>. QED  BY <2>1, RestNext, FitNext
<1>3. CountedFirst'
  BY SameKind DEF CountedFirst
<1>4. LockedApart'
  BY DEF LockedApart
<1>5. ScrapesAreSound'
  BY ScrapedNext DEF ScrapesAreSound
<1>. QED  BY <1>1, <1>2, <1>3, <1>4, <1>5

\* A step of Run that records nothing.
LEMMA RunMovesTo ==
  ASSUME VectorInv, UNCHANGED <<kind, items, projects, vec, scrape>>,
         NEW r \in Runs, Sound(r), run' = r, run.pc # "locked", r.pc # "locked"
  PROVE  VectorInv'
<1>1. RunIsSound'
  BY RunNext
<1>2. items' \in Seq(Places) /\ projects' \subseteq Projects
  BY DEF VectorInv, TypeOK
<1>. QED  BY <1>1, <1>2, RunMoves

LEMMA RunFacts ==
  ASSUME VectorInv
  PROVE  /\ kind \in AllKinds /\ run \in Runs /\ Sound(run)
         /\ run.pc \in {"idle", "project", "entry", "lock", "locked", "unlocked"}
         /\ run.cycle \in Nat /\ run.todo \subseteq Projects
         /\ run.queue \in Seq(Entries) /\ run.stage \in 1..2 /\ run.writes \in Seq(Writes)
         /\ run.step \in 1..5
<1>1. run \in Runs /\ kind \in AllKinds
  BY TypeParts, VectorAssumption DEF VectorInv
<1>2. Sound(run)
  BY DEF VectorInv, RunIsSound
<1>. QED  BY <1>1, <1>2 DEF Runs

\* What EXCEPT makes of a run.
LEMMA RunWithTodo ==
  ASSUME NEW r \in Runs, NEW list,
         NEW u, u = [r EXCEPT !.pc = "project", !.cycle = @ + 1, !.todo = list]
  PROVE  u = [pc |-> "project", cycle |-> r.cycle + 1, todo |-> list,
              queue |-> r.queue, stage |-> r.stage, writes |-> r.writes, step |-> r.step]
<1>1. /\ u.pc = "project" /\ u.cycle = r.cycle + 1 /\ u.todo = list
      /\ u.queue = r.queue /\ u.stage = r.stage /\ u.writes = r.writes /\ u.step = r.step
  BY DEF Runs
<1>2. DOMAIN u = {"pc", "cycle", "todo", "queue", "stage", "writes", "step"}
  BY DEF Runs
<1>3. u = [f \in {"pc", "cycle", "todo", "queue", "stage", "writes", "step"} |-> u[f]]
  BY <1>2 DEF Runs
<1>. QED  BY <1>1, <1>3

LEMMA RunWithListing ==
  ASSUME NEW r \in Runs, NEW p, NEW q,
         NEW u, u = [r EXCEPT !.pc = "entry", !.todo = @ \ {p}, !.queue = q, !.stage = 1]
  PROVE  u = [pc |-> "entry", cycle |-> r.cycle, todo |-> r.todo \ {p},
              queue |-> q, stage |-> 1, writes |-> r.writes, step |-> r.step]
<1>1. /\ u.pc = "entry" /\ u.cycle = r.cycle /\ u.todo = r.todo \ {p}
      /\ u.queue = q /\ u.stage = 1 /\ u.writes = r.writes /\ u.step = r.step
  BY DEF Runs
<1>2. DOMAIN u = {"pc", "cycle", "todo", "queue", "stage", "writes", "step"}
  BY DEF Runs
<1>3. u = [f \in {"pc", "cycle", "todo", "queue", "stage", "writes", "step"} |-> u[f]]
  BY <1>2 DEF Runs
<1>. QED  BY <1>1, <1>3

LEMMA RunWithQueue ==
  ASSUME NEW r \in Runs,
         NEW u, u = [r EXCEPT !.pc = "entry", !.queue = Tail(@), !.stage = 1, !.writes = <<>>, !.step = 1]
  PROVE  u = [pc |-> "entry", cycle |-> r.cycle, todo |-> r.todo,
              queue |-> Tail(r.queue), stage |-> 1, writes |-> <<>>, step |-> 1]
<1>1. /\ u.pc = "entry" /\ u.cycle = r.cycle /\ u.todo = r.todo
      /\ u.queue = Tail(r.queue) /\ u.stage = 1 /\ u.writes = <<>> /\ u.step = 1
  BY DEF Runs
<1>2. DOMAIN u = {"pc", "cycle", "todo", "queue", "stage", "writes", "step"}
  BY DEF Runs
<1>3. u = [f \in {"pc", "cycle", "todo", "queue", "stage", "writes", "step"} |-> u[f]]
  BY <1>2 DEF Runs
<1>. QED  BY <1>1, <1>3

LEMMA RunWithStage ==
  ASSUME NEW r \in Runs,
         NEW u, u = [r EXCEPT !.pc = "entry", !.stage = @ + 1, !.writes = <<>>, !.step = 1]
  PROVE  u = [pc |-> "entry", cycle |-> r.cycle, todo |-> r.todo,
              queue |-> r.queue, stage |-> r.stage + 1, writes |-> <<>>, step |-> 1]
<1>1. /\ u.pc = "entry" /\ u.cycle = r.cycle /\ u.todo = r.todo
      /\ u.queue = r.queue /\ u.stage = r.stage + 1 /\ u.writes = <<>> /\ u.step = 1
  BY DEF Runs
<1>2. DOMAIN u = {"pc", "cycle", "todo", "queue", "stage", "writes", "step"}
  BY DEF Runs
<1>3. u = [f \in {"pc", "cycle", "todo", "queue", "stage", "writes", "step"} |-> u[f]]
  BY <1>2 DEF Runs
<1>. QED  BY <1>1, <1>3

LEMMA RunWithWrites ==
  ASSUME NEW r \in Runs, NEW pc, NEW writes,
         NEW u, u = [r EXCEPT !.pc = pc, !.writes = writes]
  PROVE  u = [pc |-> pc, cycle |-> r.cycle, todo |-> r.todo,
              queue |-> r.queue, stage |-> r.stage, writes |-> writes, step |-> r.step]
<1>1. /\ u.pc = pc /\ u.cycle = r.cycle /\ u.todo = r.todo
      /\ u.queue = r.queue /\ u.stage = r.stage /\ u.writes = writes /\ u.step = r.step
  BY DEF Runs
<1>2. DOMAIN u = {"pc", "cycle", "todo", "queue", "stage", "writes", "step"}
  BY DEF Runs
<1>3. u = [f \in {"pc", "cycle", "todo", "queue", "stage", "writes", "step"} |-> u[f]]
  BY <1>2 DEF Runs
<1>. QED  BY <1>1, <1>3

\* On with the next entry, the next stage or the next record.
LEMMA NextEntrySound ==
  ASSUME VectorInv, run.queue # <<>>
  PROVE  NextEntry \in Runs /\ Sound(NextEntry) /\ NextEntry.pc = "entry"
<1>. DEFINE r == NextEntry
<1>1. /\ Tail(run.queue) \in Seq(Entries)
      /\ \A i \in DOMAIN Tail(run.queue) :
            i + 1 \in DOMAIN run.queue /\ Tail(run.queue)[i] = run.queue[i + 1]
  <2>1. run.queue \in Seq(Entries)
    BY RunFacts
  <2>2. /\ Tail(run.queue) \in Seq(Entries)
        /\ Len(Tail(run.queue)) = Len(run.queue) - 1
        /\ \A i \in 1..Len(Tail(run.queue)) : Tail(run.queue)[i] = run.queue[i + 1]
    BY <2>1, HeadTailProperties
  <2>3. /\ DOMAIN run.queue = 1..Len(run.queue) /\ Len(run.queue) \in Nat
        /\ DOMAIN Tail(run.queue) = 1..Len(Tail(run.queue))
    BY <2>1, <2>2, LenProperties
  <2>. QED  BY <2>2, <2>3
<1>2. r = [pc |-> "entry", cycle |-> run.cycle, todo |-> run.todo,
           queue |-> Tail(run.queue), stage |-> 1, writes |-> <<>>, step |-> 1]
  BY RunFacts, RunWithQueue, Zenon DEF NextEntry
<1>. HIDE DEF r
<1>3. r \in Runs
  BY <1>1, <1>2, RunFacts, EmptySeq DEF Runs
<1>4. 1 \in DOMAIN Stages(kind)
  BY RunFacts, StagesShape
<1>5. kind # "environments" => \A i \in DOMAIN r.queue : r.queue[i].id \in DOMAIN items
  BY <1>1, <1>2, RunFacts DEF Sound
<1>6. Sound(r)
  BY <1>2, <1>4, <1>5 DEF Sound
<1>. QED  BY <1>2, <1>3, <1>6 DEF r

LEMMA NextStageSound ==
  ASSUME VectorInv, run.queue # <<>>
  PROVE  NextStage \in Runs /\ Sound(NextStage) /\ NextStage.pc = "entry"
<1>1. CASE run.stage = Len(Stages(kind))
  BY <1>1, NextEntrySound DEF NextStage
<1>2. CASE run.stage # Len(Stages(kind))
  <2>. DEFINE r == [run EXCEPT !.pc = "entry", !.stage = @ + 1, !.writes = <<>>, !.step = 1]
  <2>1. r = [pc |-> "entry", cycle |-> run.cycle, todo |-> run.todo,
             queue |-> run.queue, stage |-> run.stage + 1, writes |-> <<>>, step |-> 1]
    BY RunFacts, RunWithStage, Zenon
  <2>. HIDE DEF r
  <2>2. run.stage + 1 \in DOMAIN Stages(kind) /\ run.stage + 1 \in 1..2
    <3>. DEFINE m == Len(Stages(kind))
    <3>1. m \in 1..2 /\ DOMAIN Stages(kind) = 1..m
      BY RunFacts, StagesShape
    <3>2. run.stage \in 1..m /\ run.stage # m
      BY <1>2, <3>1, RunFacts DEF Sound
    <3>. HIDE DEF m
    <3>. QED  BY <3>1, <3>2
  <2>3. r \in Runs
    BY <2>1, <2>2, RunFacts, EmptySeq DEF Runs
  <2>4. Sound(r)
    BY <2>1, <2>2, RunFacts DEF Sound
  <2>. QED  BY <1>2, <2>1, <2>3, <2>4 DEF NextStage, r
<1>. QED  BY <1>1, <1>2

\* The record at hand, and what follows it.
LEMMA HeadRecord ==
  ASSUME VectorInv, run.pc \in {"lock", "locked", "unlocked"}
  PROVE  /\ Head(run.writes) \in Writes /\ Fitting(Head(run.writes))
         /\ Tail(run.writes) \in Seq(Writes) /\ Len(run.writes) \in Nat \ {0}
         /\ Len(Tail(run.writes)) = Len(run.writes) - 1
         /\ \A i \in DOMAIN Tail(run.writes) : Fitting(Tail(run.writes)[i])
<1>1. run.writes \in Seq(Writes) /\ run.writes # <<>>
  BY RunFacts DEF Sound
<1>2. /\ Head(run.writes) \in Writes
      /\ Tail(run.writes) \in Seq(Writes)
      /\ Len(Tail(run.writes)) = Len(run.writes) - 1
      /\ \A i \in 1..Len(Tail(run.writes)) : Tail(run.writes)[i] = run.writes[i + 1]
  BY <1>1, HeadTailProperties
<1>3. /\ DOMAIN run.writes = 1..Len(run.writes) /\ Len(run.writes) \in Nat
      /\ DOMAIN Tail(run.writes) = 1..Len(Tail(run.writes))
  BY <1>1, <1>2, LenProperties
<1>4. Len(run.writes) # 0 /\ Head(run.writes) = run.writes[1]
  BY <1>1, EmptySeq
<1>5. 1 \in DOMAIN run.writes /\ \A i \in DOMAIN Tail(run.writes) : i + 1 \in DOMAIN run.writes
  BY <1>2, <1>3, <1>4
<1>6. Fitting(Head(run.writes)) /\ \A i \in DOMAIN Tail(run.writes) : Fitting(Tail(run.writes)[i])
  BY <1>2, <1>3, <1>4, <1>5, RunFacts DEF Sound
<1>. QED  BY <1>2, <1>3, <1>4, <1>6

LEMMA AfterRecordSound ==
  ASSUME VectorInv, run.pc = "locked"
  PROVE  /\ AfterRecord \in Runs /\ Sound(AfterRecord)
         /\ AfterRecord.pc = "locked" => AfterRecord.step = 1
<1>1. CASE Len(run.writes) = 1
  <2>1. AfterRecord = NextStage
    BY <1>1 DEF AfterRecord
  <2>2. run.queue # <<>>
    BY RunFacts DEF Sound
  <2>. QED  BY <2>1, <2>2, NextStageSound
<1>2. CASE Len(run.writes) > 1
  <2>. DEFINE pc == IF kind = "environments" THEN "locked" ELSE "unlocked"
              r == [run EXCEPT !.pc = pc, !.writes = Tail(run.writes), !.step = 1]
  <2>1. AfterRecord = r
    BY <1>2 DEF AfterRecord
  <2>2. /\ r.pc = pc /\ r.queue = run.queue /\ r.stage = run.stage
        /\ r.writes = Tail(run.writes) /\ r.step = 1
        /\ r \in Runs
    <3>1. pc \in {"locked", "unlocked"} /\ 1 \in 1..5 /\ Tail(run.writes) \in Seq(Writes)
      BY HeadRecord
    <3>. HIDE DEF pc
    <3>. QED  BY <3>1, RunFacts DEF Runs
  <2>3. Tail(run.writes) # <<>>
    BY <1>2, HeadRecord, EmptySeq
  <2>. HIDE DEF r
  <2>4. Sound(r)
    BY <2>2, <2>3, HeadRecord, RunFacts DEF Sound
  <2>. QED  BY <2>1, <2>2, <2>4
<1>3. Len(run.writes) = 1 \/ Len(run.writes) > 1
  <2>. DEFINE n == Len(run.writes)
  <2>1. n \in Nat \ {0}
    BY HeadRecord
  <2>. HIDE DEF n
  <2>2. n = 1 \/ n > 1
    BY <2>1
  <2>. QED  BY <2>2 DEF n
<1>. QED  BY <1>1, <1>2, <1>3

\* Run's steps without a record: r is the next run.
LEMMA RunStartInv == ASSUME VectorInv, RunStart  PROVE VectorInv'
<1>1. run.pc = "idle" /\ UNCHANGED <<kind, items, projects, vec, scrape>>
  BY DEF RunStart
<1>2. run' = [pc |-> "project", cycle |-> run.cycle + 1, todo |-> projects,
              queue |-> run.queue, stage |-> run.stage, writes |-> run.writes, step |-> run.step]
  BY RunFacts, RunWithTodo, Zenon DEF RunStart
<1>. DEFINE r == [pc |-> "project", cycle |-> run.cycle + 1, todo |-> projects,
                  queue |-> run.queue, stage |-> run.stage, writes |-> run.writes, step |-> run.step]
<1>3. projects \subseteq Projects
  BY DEF VectorInv, TypeOK
<1>4. r \in Runs
  BY <1>3, RunFacts DEF Runs
<1>5. Sound(r)
  BY <1>1, RunFacts DEF Sound
<1>6. run' = r /\ r.pc # "locked"
  BY <1>2
<1>. HIDE DEF r
<1>. QED  BY <1>1, <1>4, <1>5, <1>6, RunMovesTo

LEMMA ListItemsInv == ASSUME VectorInv, NEW p, ListItems(p)  PROVE VectorInv'
<1>1. PICK q \in Listings(p) :
         run' = [run EXCEPT !.pc = "entry", !.todo = @ \ {p}, !.queue = q, !.stage = 1]
  BY DEF ListItems
<1>2. /\ q \in Seq(Entries)
      /\ kind # "environments" => \A i \in DOMAIN q : q[i].id \in DOMAIN items
  BY ListingsShape DEF VectorInv
<1>3. 1 \in DOMAIN Stages(kind)
  BY RunFacts, StagesShape
<1>. DEFINE r == [pc |-> "entry", cycle |-> run.cycle, todo |-> run.todo \ {p},
                  queue |-> q, stage |-> 1, writes |-> run.writes, step |-> run.step]
<1>4. run.pc = "project" /\ UNCHANGED <<kind, items, projects, vec, scrape>>
  BY DEF ListItems
<1>5. run' = r
  BY <1>1, RunFacts, RunWithListing, Zenon
<1>6. r \in Runs /\ r.pc = "entry"
  BY <1>2, RunFacts DEF Runs
<1>7. Sound(r)
  BY <1>2, <1>3, <1>4, RunFacts DEF Sound
<1>. HIDE DEF r
<1>. QED  BY <1>4, <1>5, <1>6, <1>7, RunMovesTo

LEMMA ListFailsInv == ASSUME VectorInv, NEW p, ListFails(p)  PROVE VectorInv'
<1>. DEFINE r == [run EXCEPT !.todo = @ \ {p}]
<1>1. /\ run' = r /\ run.pc = "project"
      /\ UNCHANGED <<kind, items, projects, vec, scrape>>
  BY DEF ListFails
<1>2. /\ r.pc = run.pc /\ r.queue = run.queue /\ r.stage = run.stage /\ r.writes = run.writes
      /\ r.step = run.step /\ r \in Runs
  BY RunFacts DEF Runs
<1>. HIDE DEF r
<1>3. Sound(r)
  BY <1>2, RunFacts DEF Sound
<1>. QED  BY <1>1, <1>2, <1>3, RunMovesTo

\* RunReturn, ProjectDone and LockAgain change only where Run is.
LEMMA RunGoesTo ==
  ASSUME VectorInv, UNCHANGED <<kind, items, projects, vec, scrape>>,
         NEW pc \in {"idle", "project", "lock"}, run' = [run EXCEPT !.pc = pc],
         run.pc # "locked", pc = "lock" => run.pc = "unlocked"
  PROVE  VectorInv'
<1>. DEFINE r == [run EXCEPT !.pc = pc]
<1>1. /\ r.pc = pc /\ r.queue = run.queue /\ r.stage = run.stage /\ r.writes = run.writes
      /\ r.step = run.step /\ r \in Runs
  BY RunFacts DEF Runs
<1>2. run' = r
  OBVIOUS
<1>. HIDE DEF r
<1>3. Sound(r)
  BY <1>1, RunFacts DEF Sound
<1>. QED  BY <1>1, <1>2, <1>3, RunMovesTo

LEMMA RunReturnInv == ASSUME VectorInv, RunReturn  PROVE VectorInv'
BY RunGoesTo DEF RunReturn

LEMMA ProjectDoneInv == ASSUME VectorInv, ProjectDone  PROVE VectorInv'
BY RunGoesTo DEF ProjectDone

LEMMA LockAgainInv == ASSUME VectorInv, LockAgain  PROVE VectorInv'
BY RunGoesTo DEF LockAgain

LEMMA FetchInv == ASSUME VectorInv, Fetch  PROVE VectorInv'
<1>1. /\ run.pc = "entry" /\ run.queue # <<>>
      /\ UNCHANGED <<kind, items, projects, vec, scrape>>
  BY DEF Fetch
<1>2. PICK ws \in Answers(CurrentStage, Head(run.queue)) :
         run' = IF ws = <<>> THEN NextStage ELSE [run EXCEPT !.pc = "lock", !.writes = ws]
  BY DEF Fetch
<1>3. CASE ws = <<>>
  BY <1>1, <1>2, <1>3, NextStageSound, RunMovesTo
<1>4. CASE ws # <<>>
  <2>1. /\ Head(run.queue) \in Entries
        /\ kind # "environments" => Head(run.queue).id \in DOMAIN items
    <3>1. run.queue \in Seq(Entries)
      BY RunFacts
    <3>2. Head(run.queue) \in Entries
      BY <1>1, <3>1, HeadTailProperties
    <3>3. 1 \in DOMAIN run.queue /\ Head(run.queue) = run.queue[1]
      BY <1>1, <3>1, LenProperties, EmptySeq
    <3>. QED  BY <3>2, <3>3, RunFacts DEF Sound
  <2>2. ws \in Seq(Writes) /\ \A i \in DOMAIN ws : Fitting(ws[i])
    BY <2>1, RunFacts, AnswersShape DEF VectorInv, Sound, CurrentStage
  <2>. DEFINE r == [run EXCEPT !.pc = "lock", !.writes = ws]
  <2>3. /\ r.pc = "lock" /\ r.queue = run.queue /\ r.stage = run.stage /\ r.writes = ws
        /\ r.step = run.step /\ r \in Runs
    BY <2>2, RunFacts DEF Runs
  <2>4. run' = r
    BY <1>2, <1>4
  <2>. HIDE DEF r
  <2>5. Sound(r)
    BY <1>1, <1>4, <2>2, <2>3, RunFacts DEF Sound
  <2>. QED  BY <1>1, <2>3, <2>4, <2>5, RunMovesTo
<1>. QED  BY <1>3, <1>4

LEMMA FetchFailsInv == ASSUME VectorInv, FetchFails  PROVE VectorInv'
BY NextEntrySound, RunMovesTo DEF FetchFails

\* A record begins when no scrape holds the read lock.
LEMMA LockInv == ASSUME VectorInv, Lock  PROVE VectorInv'
<1>. DEFINE r == [run EXCEPT !.pc = "locked"]
            w == Head(run.writes)
<1>1. /\ run.pc = "lock" /\ Reading = {} /\ run' = r
      /\ UNCHANGED <<kind, items, projects, vec, scrape>>
  BY DEF Lock
<1>2. /\ r.pc = "locked" /\ r.queue = run.queue /\ r.stage = run.stage /\ r.writes = run.writes
      /\ r.step = run.step /\ r \in Runs
  BY RunFacts DEF Runs
<1>. HIDE DEF r
<1>3. Sound(r) /\ r.step = 1
  BY <1>1, <1>2, RunFacts DEF Sound
<1>4. TypeOK'
  BY <1>1, <1>2, TypeParts, TypeNext DEF VectorInv
<1>5. VectorsWillFit'
  <2>1. WillFit(vec, w, {})
    BY <1>1 DEF VectorInv, VectorsWillFit, Rest
  <2>2. WillFit(vec, w, FamilyNames)
    BY <1>1, <2>1, HeadRecord, RecordBegins DEF VectorInv, TypeOK
  <2>3. Rest' = FamilyNames
    BY <1>1, <1>2, <1>3, RestNext, RunFacts, PendingShape
  <2>. QED  BY <1>1, <1>2, <2>2, <2>3, FitNext
<1>6. CountedFirst'
  BY <1>1, SameKind DEF VectorInv, CountedFirst
<1>7. LockedApart'
  BY <1>1 DEF LockedApart, Reading
<1>8. ScrapesAreSound'
  BY <1>1, ScrapedNext DEF VectorInv, ScrapesAreSound
<1>. QED  BY <1>1, <1>3, <1>4, <1>5, <1>6, <1>7, <1>8, RunNext DEF VectorInv

\* What was answered, and what a registry still reads, stays true of vectors
\* that have grown.
LEMMA ScrapedGrows ==
  ASSUME NEW v \in Vectors, NEW u \in Vectors, Grown(v, u),
         NEW x \in Scrapes, x.pc # "reading", Scraped(x, u)
  PROVE  Scraped(x, v)
<1>0. ASSUME NEW l \in Labels
      PROVE  /\ u.timed[l] \in Nat /\ u.runs[l] \in Nat /\ v.timed[l] \in Nat /\ v.runs[l] \in Nat
             /\ x.seen.timed[l] \in Nat /\ x.seen.runs[l] \in Nat
             /\ x.answer.timed[l] \in Nat /\ x.answer.runs[l] \in Nat
             /\ u.timed[l] <= v.timed[l] /\ u.runs[l] <= v.runs[l]
  BY VectorShape DEF Grown, Scrapes
<1>1. Answered(x, v)
  BY <1>0 DEF Scraped, Answered
<1>2. ASSUME Reads(x, u)  PROVE Reads(x, v)
  <2>1. ASSUME NEW e \in x.unread  PROVE e[1] <= x.sent /\ v[Families[e[1]]][e[2]] > 0
    <3>1. e[1] \in {1, 3, 4, 5} /\ e[2] \in Labels
      BY DEF Scrapes
    <3>2. e[1] <= x.sent /\ u[Families[e[1]]][e[2]] > 0
      BY <1>2 DEF Reads
    <3>3. /\ u.timed[e[2]] > 0 => v.timed[e[2]] > 0
          /\ u.runs[e[2]] > 0 => v.runs[e[2]] > 0
          /\ u.value[e[2]] > 0 => v.value[e[2]] > 0
          /\ u.detail[e[2]] > 0 => v.detail[e[2]] > 0
      BY <1>0, <3>1 DEF Grown
    <3>. QED  BY <3>1, <3>2, <3>3 DEF Families
  <2>2. ASSUME NEW l \in Labels
        PROVE  x.seen.timed[l] <= v.timed[l] /\ x.seen.runs[l] <= v.runs[l]
    BY <1>0, <1>2 DEF Reads
  <2>. QED  BY <2>1, <2>2 DEF Reads
<1>. QED  BY <1>1, <1>2 DEF Scraped

\* One family of a record, under the lock.
LEMMA UpdateInv == ASSUME VectorInv, Update  PROVE VectorInv'
<1>. DEFINE w == Head(run.writes)
            n == run.step
            f == Order(kind)[n]
<1>1. /\ run.pc = "locked" /\ vec' = Updated(f, w)
      /\ run' = IF n < Len(Order(kind)) THEN [run EXCEPT !.step = @ + 1] ELSE AfterRecord
      /\ UNCHANGED <<kind, items, projects, scrape>>
  BY DEF Update
<1>2. /\ kind \in AllKinds /\ n \in 1..5 /\ Len(Order(kind)) = 5 /\ f \in Pending(n)
      /\ Pending(n) \subseteq FamilyNames /\ f \in FamilyNames
  <2>1. n \in 1..5 /\ kind \in AllKinds
    BY RunFacts
  <2>2. n..5 \subseteq 1..5
    BY <2>1
  <2>3. Pending(n) \subseteq Pending(1)
    BY <2>2 DEF Pending
  <2>4. n \in n..5
    BY <2>1
  <2>5. f \in Pending(n)
    BY <2>4 DEF Pending
  <2>6. Len(Order(kind)) = 5 /\ Pending(1) = FamilyNames
    BY <2>1, PendingShape
  <2>. QED  BY <2>1, <2>3, <2>5, <2>6
<1>3. w \in Writes /\ Fitting(w) /\ vec \in Vectors
  BY <1>1, HeadRecord, TypeParts DEF VectorInv
<1>4. WillFit(vec, w, Pending(n))
  BY <1>1 DEF VectorInv, VectorsWillFit, Rest
<1>. HIDE DEF w, f, n
<1>5. vec' \in Vectors /\ Grown(vec', vec) /\ WillFit(vec', w, Pending(n) \ {f})
  BY <1>1, <1>2, <1>3, <1>4, UpdatedShape, UpdateGrows, UpdateSettles
<1>6. /\ run' \in Runs /\ Sound(run')
      /\ WillFit(vec', Head(run'.writes), Rest')
  <2>1. CASE n < 5
    <3>. DEFINE r == [run EXCEPT !.step = n + 1]
    <3>1. /\ r.pc = "locked" /\ r.queue = run.queue /\ r.stage = run.stage
          /\ r.writes = run.writes /\ r.step = n + 1 /\ r \in Runs
      <4>1. n + 1 \in 1..5 /\ run \in Runs
        BY <1>2, <2>1, RunFacts
      <4>2. r \in Runs
        BY <4>1 DEF Runs
      <4>. QED  BY <1>1, <4>1, <4>2 DEF Runs
    <3>2. run' = r
      BY <1>1, <1>2, <2>1 DEF n
    <3>. HIDE DEF r
    <3>3. Sound(r)
      BY <1>1, <3>1, RunFacts DEF Sound
    <3>4. Rest' = Pending(n) \ {f}
      <4>1. n \in 1..4
        BY <1>2, <2>1
      <4>2. run'.pc = "locked" /\ run'.step = n + 1
        BY <3>1, <3>2
      <4>3. Rest' = Pending(n + 1)
        BY <1>1, <4>2, RestNext
      <4>. QED  BY <1>2, <4>1, <4>3, PendingShape DEF f
    <3>. QED  BY <1>5, <3>1, <3>2, <3>3, <3>4 DEF w
  <2>2. CASE n = 5
    <3>1. run' = AfterRecord /\ AfterRecord \in Runs /\ Sound(AfterRecord)
      BY <1>1, <1>2, <2>2, AfterRecordSound
    <3>2. WillFit(vec', w, {})
      BY <1>2, <1>5, <2>2, PendingShape DEF f
    <3>3. CASE run'.pc # "locked"
      BY <1>1, <3>1, <3>2, <3>3, FitsBetween, RestNext
    <3>4. CASE run'.pc = "locked"
      <4>. DEFINE u == Head(run'.writes)
      <4>1. run'.writes \in Seq(Writes) /\ run'.writes # <<>>
        BY <3>1, <3>4 DEF Runs, Sound
      <4>2. u \in Writes /\ 1 \in DOMAIN run'.writes /\ u = run'.writes[1]
        BY <4>1, HeadTailProperties, LenProperties, EmptySeq
      <4>3. Fitting(u)
        BY <3>1, <4>2 DEF Sound
      <4>. HIDE DEF u
      <4>4. WillFit(vec', u, FamilyNames)
        BY <1>5, <3>2, <4>2, <4>3, RecordBegins
      <4>5. Rest' = FamilyNames
        BY <1>1, <1>2, <1>1, <3>1, <3>4, AfterRecordSound, RestNext, PendingShape
      <4>. QED  BY <3>1, <4>4, <4>5 DEF u
    <3>. QED  BY <3>1, <3>3, <3>4
  <2>. QED  BY <1>2, <2>1, <2>2
<1>7. TypeOK'
  BY <1>1, <1>5, <1>6, TypeParts, TypeNext DEF VectorInv
<1>8. VectorsWillFit'
  BY <1>1, <1>6, FitNext
<1>9. CountedFirst'
  <2>. SUFFICES ASSUME kind = "environments", NEW l \in Labels
                PROVE  vec'.timed[l] <= vec'.runs[l]
    BY <1>1, SameKind DEF CountedFirst
  <2>1. /\ vec.timed[l] \in Nat /\ vec.runs[l] \in Nat /\ w.timed \in Nat /\ w.runs \in Nat
        /\ vec.timed[l] <= vec.runs[l]
    BY <1>3, VectorShape DEF VectorInv, CountedFirst, Writes
  <2>2. /\ vec'.timed[l] = IF f = "timed" /\ l = w.label THEN vec.timed[l] + w.timed ELSE vec.timed[l]
        /\ vec'.runs[l] = IF f = "runs" /\ l = w.label THEN vec.runs[l] + w.runs ELSE vec.runs[l]
    BY <1>1, <1>2, <1>3, UpdatedAt
  <2>3. ASSUME f = "timed", l = w.label  PROVE vec.timed[l] + w.timed <= vec.runs[l]
    <3>1. "runs" \notin Pending(n)
      BY <1>2, <2>3, PendingShape DEF f
    <3>. QED  BY <1>2, <1>4, <2>3, <3>1 DEF WillFit
  <2>. QED  BY <2>1, <2>2, <2>3
<1>10. LockedApart'
  BY <1>1 DEF VectorInv, LockedApart, Reading
<1>11. ScrapesAreSound'
  <2>1. ASSUME NEW s \in Scrapers  PROVE Scraped(scrape[s], vec')
    <3>1. scrape[s] \in Scrapes /\ scrape[s].pc # "reading" /\ Scraped(scrape[s], vec)
      BY <1>1, TypeParts DEF VectorInv, LockedApart, Reading, ScrapesAreSound
    <3>. QED  BY <1>3, <1>5, <3>1, ScrapedGrows
  <2>. QED  BY <1>1, <2>1, ScrapedNext
<1>. QED  BY <1>1, <1>6, <1>7, <1>8, <1>9, <1>10, <1>11, RunNext DEF VectorInv

-----------------------------------------------------------------------------
(* The steps of a scrape                                                   *)

LEMMA ScrapeFacts ==
  ASSUME VectorInv, NEW s \in Scrapers
  PROVE  /\ scrape \in [Scrapers -> Scrapes] /\ scrape[s] \in Scrapes
         /\ scrape[s].pc \in {"idle", "reading", "gathering"} /\ scrape[s].sent \in 0..5
         /\ scrape[s].unread \subseteq {1, 3, 4, 5} \X Labels
         /\ scrape[s].seen \in Vectors /\ scrape[s].answer \in Vectors
         /\ Scraped(scrape[s], vec) /\ vec \in Vectors
<1>1. scrape \in [Scrapers -> Scrapes] /\ scrape[s] \in Scrapes /\ vec \in Vectors
  BY TypeParts DEF VectorInv
<1>2. Scraped(scrape[s], vec)
  BY DEF VectorInv, ScrapesAreSound
<1>. QED  BY <1>1, <1>2 DEF Scrapes

\* A step of a scrape changes that scrape alone.
LEMMA ScrapeMoves ==
  ASSUME VectorInv, UNCHANGED <<kind, items, projects, vec, run>>,
         NEW s \in Scrapers, NEW x \in Scrapes, scrape' = [scrape EXCEPT ![s] = x],
         Scraped(x, vec),
         x.pc = "reading" => scrape[s].pc = "reading" \/ run.pc # "locked"
  PROVE  VectorInv'
<1>. USE DEF VectorInv
<1>1. scrape \in [Scrapers -> Scrapes]
  BY TypeParts
<1>2. /\ scrape' \in [Scrapers -> Scrapes]
      /\ \A u \in Scrapers : scrape'[u] = IF u = s THEN x ELSE scrape[u]
  BY <1>1
<1>3. TypeOK'
  BY <1>2, TypeParts, TypeNext
<1>4. RunIsSound'
  BY RunNext DEF RunIsSound
<1>5. VectorsWillFit'
  <2>1. Rest' = Rest
    BY RestNext DEF Rest
  <2>. QED  BY <2>1, FitNext DEF VectorsWillFit
<1>6. CountedFirst'
  BY SameKind DEF CountedFirst
<1>7. LockedApart'
  BY <1>2 DEF LockedApart, Reading
<1>8. ScrapesAreSound'
  <2>1. \A u \in Scrapers : Scraped(scrape'[u], vec')
    BY <1>2 DEF ScrapesAreSound
  <2>. QED  BY <2>1, ScrapedNext
<1>. QED  BY <1>3, <1>4, <1>5, <1>6, <1>7, <1>8

\* While a Collect holds the read lock no record is in progress.
LEMMA ReadersSeeWholeRecords ==
  ASSUME VectorInv, run.pc # "locked", NEW l \in Labels
  PROVE  /\ vec.timed[l] \in Nat /\ vec.runs[l] \in Nat /\ vec.value[l] \in Nat
         /\ vec.detail[l] \in Nat /\ vec.timed[l] <= vec.runs[l]
         /\ vec.runs[l] > 0 <=> \E st \in Statuses : <<l, st>> \in vec.status
         /\ vec.detail[l] > 0 => vec.value[l] > 0
<1>1. vec \in Vectors
  BY TypeParts DEF VectorInv
<1>2. WillFit(vec, Head(run.writes), {})
  BY DEF VectorInv, VectorsWillFit, Rest
<1>. QED  BY <1>1, <1>2, VectorShape DEF WillFit

LEMMA ScrapeWith ==
  ASSUME NEW y \in Scrapes, NEW pc \in {"idle", "reading", "gathering"}, NEW sent \in 0..5,
         NEW unread \in SUBSET ({1, 3, 4, 5} \X Labels), NEW seen \in Vectors,
         NEW answer \in Vectors,
         NEW x, DOMAIN x = DOMAIN y, x = [f \in DOMAIN x |-> x[f]],
         x.pc = pc, x.sent = sent, x.unread = unread, x.seen = seen, x.answer = answer
  PROVE  x \in Scrapes
<1>1. DOMAIN x = {"pc", "sent", "unread", "seen", "answer"}
  BY DEF Scrapes
<1>2. x = [pc |-> pc, sent |-> sent, unread |-> unread, seen |-> seen, answer |-> answer]
  BY <1>1
<1>. QED  BY <1>2 DEF Scrapes

LEMMA CollectLockInv ==
  ASSUME VectorInv, NEW s \in Scrapers, CollectLock(s)  PROVE VectorInv'
<1>. DEFINE x == [scrape[s] EXCEPT !.pc = "reading", !.sent = 0, !.seen = EmptyVectors]
<1>1. scrape' = [scrape EXCEPT ![s] = x]
  BY ScrapeFacts DEF CollectLock, Scrapes
<1>2. /\ x.pc = "reading" /\ x.sent = 0 /\ x.seen = EmptyVectors
      /\ x.answer = scrape[s].answer /\ x.unread = scrape[s].unread /\ x \in Scrapes
  <2>1. /\ x.pc = "reading" /\ x.sent = 0 /\ x.seen = EmptyVectors
        /\ x.answer = scrape[s].answer /\ x.unread = scrape[s].unread
    BY ScrapeFacts DEF Scrapes
  <2>2. DOMAIN x = DOMAIN scrape[s] /\ x = [f \in DOMAIN x |-> x[f]]
    OBVIOUS
  <2>3. 0 \in 0..5 /\ EmptyVectors \in Vectors
    BY EmptyVectorsShape
  <2>. HIDE DEF x
  <2>. QED  BY <2>1, <2>2, <2>3, ScrapeFacts, ScrapeWith
<1>3. /\ scrape[s].pc = "idle" /\ run.pc # "locked"
      /\ UNCHANGED <<kind, items, projects, vec, run>>
  BY DEF CollectLock
<1>. HIDE DEF x
<1>4. x.unread = {} /\ Answered(x, vec)
  BY <1>2, <1>3, ScrapeFacts DEF Scraped, Answered
<1>5. \A l \in Labels : /\ x.seen.timed[l] = 0 /\ x.seen.runs[l] = 0
                        /\ x.seen.value[l] = 0 /\ x.seen.detail[l] = 0
  BY <1>2, EmptyVectorsShape
<1>6. ASSUME NEW l \in Labels  PROVE vec.timed[l] \in Nat /\ vec.runs[l] \in Nat
  BY ScrapeFacts, VectorShape
<1>7. Reads(x, vec) /\ Keeps(x) /\ InOrder(x) /\ Current(x, vec)
  BY <1>2, <1>4, <1>5, <1>6 DEF Reads, Keeps, InOrder, Current
<1>8. Scraped(x, vec)
  BY <1>2, <1>4, <1>7 DEF Scraped
<1>. QED  BY <1>1, <1>2, <1>3, <1>8, ScrapeMoves

\* What CollectFamily leaves alone, and what it does to a family that is read.
LEMMA FamilySent ==
  ASSUME VectorInv, NEW s \in Scrapers, CollectFamily(s),
         NEW n, n = scrape[s].sent + 1
  PROVE  /\ n \in 1..5 /\ scrape[s].pc = "reading" /\ run.pc # "locked"
         /\ UNCHANGED <<kind, items, projects, vec, run>>
         /\ \E x \in Scrapes :
               /\ scrape' = [scrape EXCEPT ![s] = x]
               /\ x.pc = "reading" /\ x.sent = n /\ x.answer = scrape[s].answer
               /\ n # 2 => /\ x.seen = scrape[s].seen
                           /\ x.unread = scrape[s].unread \cup
                                 {<<n, l>> : l \in {m \in Labels : vec[Families[n]][m] > 0}}
               /\ n = 2 => /\ x.unread = scrape[s].unread
                           /\ x.seen = [scrape[s].seen EXCEPT !.status = vec.status]
<1>1. /\ scrape[s].pc = "reading" /\ scrape[s].sent < Len(Families)
      /\ UNCHANGED <<kind, items, projects, vec, run>>
  BY DEF CollectFamily
<1>2. n \in 1..5
  <2>1. Len(Families) = 5
    BY DEF Families
  <2>. QED  BY <1>1, <2>1, ScrapeFacts
<1>3. run.pc # "locked"
  BY <1>1 DEF VectorInv, LockedApart, Reading
<1>. DEFINE new == {<<n, l>> : l \in {m \in Labels : vec[Families[n]][m] > 0}}
<1>4. CASE n # 2
  <2>. DEFINE x == [scrape[s] EXCEPT !.sent = n, !.unread = @ \cup new]
  <2>1. Families[n] # "status"
    BY <1>2, <1>4 DEF Families
  <2>2. scrape' = [scrape EXCEPT ![s] = x]
    BY <2>1, ScrapeFacts DEF CollectFamily, Scrapes
  <2>3. new \subseteq {1, 3, 4, 5} \X Labels
    BY <1>2, <1>4
  <2>. HIDE DEF new
  <2>4. /\ x.pc = "reading" /\ x.sent = n /\ x.answer = scrape[s].answer
        /\ x.seen = scrape[s].seen /\ x.unread = scrape[s].unread \cup new
        /\ DOMAIN x = DOMAIN scrape[s] /\ x = [f \in DOMAIN x |-> x[f]]
    BY <1>1, ScrapeFacts DEF Scrapes
  <2>5. n \in 0..5 /\ scrape[s].unread \cup new \in SUBSET ({1, 3, 4, 5} \X Labels)
    BY <1>2, <2>3, ScrapeFacts
  <2>. HIDE DEF x
  <2>6. x \in Scrapes
    BY <2>4, <2>5, ScrapeFacts, ScrapeWith
  <2>. QED  BY <1>1, <1>2, <1>3, <1>4, <2>2, <2>4, <2>6 DEF new
<1>5. CASE n = 2
  <2>. DEFINE seen == [scrape[s].seen EXCEPT !.status = vec.status]
              x == [scrape[s] EXCEPT !.sent = n, !.seen = seen]
  <2>1. Families[n] = "status"
    BY <1>5 DEF Families
  <2>2. scrape' = [scrape EXCEPT ![s] = x]
    BY <2>1, ScrapeFacts DEF CollectFamily, Scrapes
  <2>3. seen \in Vectors
    BY ScrapeFacts DEF Vectors
  <2>. HIDE DEF seen
  <2>4. /\ x.pc = "reading" /\ x.sent = n /\ x.answer = scrape[s].answer
        /\ x.seen = seen /\ x.unread = scrape[s].unread
        /\ DOMAIN x = DOMAIN scrape[s] /\ x = [f \in DOMAIN x |-> x[f]]
    BY <1>1, ScrapeFacts DEF Scrapes
  <2>. HIDE DEF x
  <2>5. n \in 0..5 /\ scrape[s].unread \in SUBSET ({1, 3, 4, 5} \X Labels)
    BY <1>2, ScrapeFacts
  <2>6. x \in Scrapes
    BY <2>3, <2>4, <2>5, ScrapeFacts, ScrapeWith
  <2>. QED  BY <1>1, <1>2, <1>3, <1>5, <2>2, <2>4, <2>6 DEF seen
<1>. QED  BY <1>4, <1>5

LEMMA CollectFamilyInv ==
  ASSUME VectorInv, NEW s \in Scrapers, CollectFamily(s)  PROVE VectorInv'
<1>. DEFINE n == scrape[s].sent + 1
            y == scrape[s]
<1>1. /\ n \in 1..5 /\ y.pc = "reading" /\ run.pc # "locked"
      /\ UNCHANGED <<kind, items, projects, vec, run>>
  BY FamilySent
<1>2. PICK x \in Scrapes :
         /\ scrape' = [scrape EXCEPT ![s] = x]
         /\ x.pc = "reading" /\ x.sent = n /\ x.answer = y.answer
         /\ n # 2 => /\ x.seen = y.seen
                     /\ x.unread = y.unread \cup
                           {<<n, l>> : l \in {m \in Labels : vec[Families[n]][m] > 0}}
         /\ n = 2 => /\ x.unread = y.unread
                     /\ x.seen = [y.seen EXCEPT !.status = vec.status]
  BY FamilySent
<1>3. /\ y \in Scrapes /\ y.sent = n - 1 /\ Answered(y, vec) /\ Reads(y, vec)
      /\ Keeps(y) /\ InOrder(y) /\ Current(y, vec) /\ y.seen \in Vectors
  BY <1>1, ScrapeFacts DEF Scraped
<1>4. \A u \in y.unread : u[1] < n
  BY <1>1, <1>3, ScrapeFacts DEF Reads
<1>5. ASSUME NEW l \in Labels
      PROVE  /\ x.seen.timed[l] = y.seen.timed[l] /\ x.seen.runs[l] = y.seen.runs[l]
             /\ x.seen.value[l] = y.seen.value[l] /\ x.seen.detail[l] = y.seen.detail[l]
             /\ y.seen.timed[l] \in Nat /\ y.seen.runs[l] \in Nat
             /\ y.answer.timed[l] \in Nat /\ y.answer.runs[l] \in Nat
  <2>1. y.seen \in Vectors /\ y.answer \in Vectors
    BY ScrapeFacts
  <2>. QED  BY <1>2, <2>1 DEF Vectors
<1>14. x.seen.status = IF n = 2 THEN vec.status ELSE y.seen.status
  BY <1>2, ScrapeFacts DEF Vectors
<1>6. ASSUME NEW l \in Labels, NEW i \in {1, 3, 4, 5}
      PROVE  <<i, l>> \in x.unread <=>
                IF i = n THEN vec[Families[n]][l] > 0 ELSE <<i, l>> \in y.unread
  BY <1>1, <1>2, <1>4
<1>7. ASSUME NEW l \in Labels
      PROVE  /\ vec.timed[l] \in Nat /\ vec.runs[l] \in Nat /\ vec.value[l] \in Nat
             /\ vec.detail[l] \in Nat /\ vec.timed[l] <= vec.runs[l]
  BY <1>1, ReadersSeeWholeRecords
<1>. HIDE DEF n, y
<1>8. Answered(x, vec)
  BY <1>2, <1>3 DEF Answered
<1>9. Reads(x, vec)
  <2>1. ASSUME NEW u \in x.unread  PROVE u[1] <= x.sent /\ vec[Families[u[1]]][u[2]] > 0
    <3>1. CASE u \in y.unread
      <4>1. u[1] <= y.sent /\ y.sent \in 0..5 /\ u[1] \in {1, 3, 4, 5}
        BY <1>3, <3>1 DEF Reads, Scrapes
      <4>. QED  BY <1>1, <1>2, <1>3, <3>1, <4>1 DEF Reads
    <3>2. CASE u \notin y.unread
      <4>1. n # 2 /\ u \in {<<n, l>> : l \in {m \in Labels : vec[Families[n]][m] > 0}}
        BY <1>2, <3>2
      <4>. QED  BY <1>1, <1>2, <4>1
    <3>. QED  BY <3>1, <3>2
  <2>. QED  BY <1>3, <1>5, <2>1 DEF Reads
<1>10. Current(x, vec)
  <2>6. x.sent >= 2 => x.seen.status = vec.status
    BY <1>1, <1>2, <1>3, <1>14 DEF Current
  <2>. SUFFICES ASSUME NEW l \in Labels
       PROVE  /\ IF x.sent >= 1 THEN Has(x, 1, l) <=> vec.timed[l] > 0 ELSE x.seen.timed[l] = 0
              /\ IF x.sent >= 3 THEN Has(x, 3, l) <=> vec.runs[l] > 0 ELSE x.seen.runs[l] = 0
              /\ IF x.sent >= 4 THEN Has(x, 4, l) <=> vec.value[l] > 0 ELSE x.seen.value[l] = 0
              /\ IF x.sent >= 5 THEN Has(x, 5, l) <=> vec.detail[l] > 0 ELSE x.seen.detail[l] = 0
    BY <2>6 DEF Current
  <2>0. /\ IF y.sent >= 1 THEN Has(y, 1, l) <=> vec.timed[l] > 0 ELSE y.seen.timed[l] = 0
        /\ IF y.sent >= 3 THEN Has(y, 3, l) <=> vec.runs[l] > 0 ELSE y.seen.runs[l] = 0
        /\ IF y.sent >= 4 THEN Has(y, 4, l) <=> vec.value[l] > 0 ELSE y.seen.value[l] = 0
        /\ IF y.sent >= 5 THEN Has(y, 5, l) <=> vec.detail[l] > 0 ELSE y.seen.detail[l] = 0
    BY <1>3 DEF Current
  <2>. USE <1>1, <1>2, <1>3, <1>5, <1>6, <2>0 DEF Has, Families
  <2>1. IF x.sent >= 1 THEN Has(x, 1, l) <=> vec.timed[l] > 0 ELSE x.seen.timed[l] = 0
    OBVIOUS
  <2>3. IF x.sent >= 3 THEN Has(x, 3, l) <=> vec.runs[l] > 0 ELSE x.seen.runs[l] = 0
    OBVIOUS
  <2>4. IF x.sent >= 4 THEN Has(x, 4, l) <=> vec.value[l] > 0 ELSE x.seen.value[l] = 0
    OBVIOUS
  <2>5. IF x.sent >= 5 THEN Has(x, 5, l) <=> vec.detail[l] > 0 ELSE x.seen.detail[l] = 0
    OBVIOUS
  <2>. QED  BY ONLY <2>1, <2>3, <2>4, <2>5
<1>11. Keeps(x)
  <2>. SUFFICES ASSUME NEW l \in Labels
       PROVE  /\ x.sent >= 1 => <<1, l>> \in x.unread \/ x.answer.timed[l] <= x.seen.timed[l]
              /\ x.sent >= 3 => <<3, l>> \in x.unread \/ x.answer.runs[l] <= x.seen.runs[l]
    BY DEF Keeps
  <2>1. y.answer.timed[l] <= vec.timed[l] /\ y.answer.runs[l] <= vec.runs[l]
    BY <1>3 DEF Answered
  <2>2. CASE n = 1
    BY <1>2, <1>5, <1>6, <1>7, <2>1, <2>2 DEF Families
  <2>3. CASE n = 3
    BY <1>2, <1>3, <1>5, <1>6, <1>7, <2>1, <2>3 DEF Families, Keeps
  <2>4. CASE n \in {2, 4, 5}
    BY <1>2, <1>3, <1>5, <1>6, <2>4 DEF Keeps
  <2>. QED  BY <1>1, <2>2, <2>3, <2>4
<1>12. InOrder(x)
  <2>. SUFFICES ASSUME NEW l \in Labels, x.sent >= 3, <<3, l>> \notin x.unread
       PROVE  <<1, l>> \notin x.unread /\ x.seen.timed[l] <= x.seen.runs[l] + Slack
    BY DEF InOrder
  <2>1. CASE n = 3
    <3>1. ~ vec.runs[l] > 0
      BY <1>6, <2>1 DEF Families
    <3>2. vec.runs[l] = 0 /\ vec.timed[l] = 0
      BY <1>7, <3>1
    <3>3. ~ Has(y, 1, l)
      BY <1>3, <2>1, <3>2 DEF Current
    <3>4. <<1, l>> \notin y.unread /\ ~ y.seen.timed[l] > 0
      BY <3>3 DEF Has, Families
    <3>5. <<1, l>> \notin x.unread
      BY <1>6, <2>1, <3>4
    <3>6. y.seen.timed[l] = 0 /\ Slack \in 0..1
      BY <1>5, <3>4 DEF Slack
    <3>. QED  BY <1>5, <3>5, <3>6
  <2>2. CASE n \in {4, 5}
    <3>1. \A i \in {1, 3} : <<i, l>> \in x.unread <=> <<i, l>> \in y.unread
      <4>1. \A i \in {1, 3} : i \in {1, 3, 4, 5} /\ i # n
        BY <2>2
      <4>. QED  BY <1>6, <4>1
    <3>2. y.sent >= 3
      BY <1>3, <2>2
    <3>3. <<1, l>> \notin y.unread /\ y.seen.timed[l] <= y.seen.runs[l] + Slack
      BY <1>3, <3>1, <3>2 DEF InOrder
    <3>. QED  BY <1>5, <3>1, <3>3
  <2>3. n \in {3, 4, 5}
    BY <1>1, <1>2
  <2>. QED  BY <2>1, <2>2, <2>3
<1>13. Scraped(x, vec)
  BY <1>2, <1>8, <1>9, <1>10, <1>11, <1>12 DEF Scraped
<1>. QED  BY <1>1, <1>2, <1>13, ScrapeMoves DEF y

LEMMA CollectReturnInv ==
  ASSUME VectorInv, NEW s \in Scrapers, CollectReturn(s)  PROVE VectorInv'
<1>. DEFINE y == scrape[s]
            x == [y EXCEPT !.pc = "gathering"]
<1>1. /\ y.pc = "reading" /\ y.sent = 5 /\ scrape' = [scrape EXCEPT ![s] = x]
      /\ UNCHANGED <<kind, items, projects, vec, run>>
  BY ScrapeFacts DEF CollectReturn, Scrapes, Families
<1>2. /\ x.pc = "gathering" /\ x.sent = 5 /\ x.unread = y.unread /\ x.seen = y.seen
      /\ x.answer = y.answer /\ x \in Scrapes
  BY <1>1, ScrapeFacts DEF Scrapes
<1>3. /\ Answered(y, vec) /\ Reads(y, vec) /\ Keeps(y) /\ InOrder(y) /\ Current(y, vec)
  BY <1>1, ScrapeFacts DEF Scraped
<1>4. run.pc # "locked"
  BY <1>1 DEF VectorInv, LockedApart, Reading
<1>. HIDE DEF x, y
<1>5. Answered(x, vec) /\ Reads(x, vec) /\ Keeps(x) /\ InOrder(x)
  BY <1>1, <1>2, <1>3 DEF Answered, Reads, Keeps, InOrder
<1>6. Whole(x)
  <2>. SUFFICES ASSUME NEW l \in Labels
       PROVE  /\ Has(x, 1, l) => Has(x, 3, l)
              /\ Has(x, 3, l) <=> Shows(x, l)
              /\ Has(x, 5, l) => Has(x, 4, l)
    BY DEF Whole
  <2>1. /\ Has(y, 1, l) <=> vec.timed[l] > 0
        /\ y.seen.status = vec.status
        /\ Has(y, 3, l) <=> vec.runs[l] > 0
        /\ Has(y, 4, l) <=> vec.value[l] > 0
        /\ Has(y, 5, l) <=> vec.detail[l] > 0
    BY <1>1, <1>3 DEF Current
  <2>2. \A i \in {1, 3, 4, 5} : Has(x, i, l) <=> Has(y, i, l)
    BY <1>2 DEF Has
  <2>. QED  BY <1>2, <1>4, <2>1, <2>2, ReadersSeeWholeRecords DEF Shows
<1>7. Scraped(x, vec)
  BY <1>2, <1>5, <1>6 DEF Scraped
<1>. QED  BY <1>1, <1>2, <1>7, ScrapeMoves

\* A series that was sent is read: with what it says now, which is not less than
\* it was when it was sent.
TakesOff(s, n, l, x) ==
    /\ scrape' = [scrape EXCEPT ![s] = x]
    /\ <<n, l>> \in scrape[s].unread /\ (n = 3 => <<1, l>> \notin scrape[s].unread)
    /\ vec[Families[n]][l] > 0
    /\ x.pc = scrape[s].pc /\ x.sent = scrape[s].sent /\ x.answer = scrape[s].answer
    /\ x.unread = scrape[s].unread \ {<<n, l>>}
    /\ x.seen = [scrape[s].seen EXCEPT ![Families[n]] =
                   [scrape[s].seen[Families[n]] EXCEPT ![l] = vec[Families[n]][l]]]

LEMMA SeriesRead ==
  ASSUME VectorInv, NEW s \in Scrapers, Gather(s)
  PROVE  \E n \in {1, 3, 4, 5}, l \in Labels, x \in Scrapes : TakesOff(s, n, l, x)
<1>. DEFINE y == scrape[s]
<1>1. PICK u \in y.unread :
         /\ \A m \in 1..(u[1] - 1) : <<m, u[2]>> \notin y.unread
         /\ scrape' = [scrape EXCEPT ![s].unread = @ \ {u},
                                     ![s].seen[Families[u[1]]][u[2]] = vec[Families[u[1]]][u[2]]]
  BY DEF Gather
<1>2. PICK n \in {1, 3, 4, 5}, l \in Labels : u = <<n, l>>
  BY <1>1, ScrapeFacts
<1>3. y.pc # "idle" /\ Reads(y, vec)
  BY <1>1, ScrapeFacts DEF Scraped
<1>4. vec[Families[n]][l] > 0
  BY <1>1, <1>2, <1>3 DEF Reads
<1>5. n = 3 => <<1, l>> \notin y.unread
  BY <1>1, <1>2
<1>. DEFINE seen == [y.seen EXCEPT ![Families[n]] =
                        [y.seen[Families[n]] EXCEPT ![l] = vec[Families[n]][l]]]
            x == [y EXCEPT !.unread = y.unread \ {u}, !.seen = seen]
<1>6. scrape' = [scrape EXCEPT ![s] = x]
  BY <1>1, <1>2, ScrapeFacts DEF Scrapes
<1>7. seen \in Vectors
  <2>1. y.seen \in Vectors /\ vec \in Vectors
    BY ScrapeFacts
  <2>2. CASE n = 1
    BY <2>1, <2>2 DEF Vectors, Families
  <2>3. CASE n = 3
    BY <2>1, <2>3 DEF Vectors, Families
  <2>4. CASE n = 4
    BY <2>1, <2>4 DEF Vectors, Families
  <2>5. CASE n = 5
    BY <2>1, <2>5 DEF Vectors, Families
  <2>. QED  BY <2>2, <2>3, <2>4, <2>5
<1>. HIDE DEF seen
<1>8. /\ x.pc = y.pc /\ x.sent = y.sent /\ x.answer = y.answer
      /\ x.unread = y.unread \ {u} /\ x.seen = seen
      /\ DOMAIN x = DOMAIN y /\ x = [f \in DOMAIN x |-> x[f]]
  BY ScrapeFacts DEF Scrapes
<1>9. y.unread \ {u} \in SUBSET ({1, 3, 4, 5} \X Labels)
  BY ScrapeFacts
<1>. HIDE DEF x
<1>10. x \in Scrapes
  BY <1>7, <1>8, <1>9, ScrapeFacts, ScrapeWith
<1>11. TakesOff(s, n, l, x)
  BY <1>1, <1>2, <1>4, <1>5, <1>6, <1>8 DEF seen, TakesOff
<1>. QED  BY <1>10, <1>11

\* Reading a series changes that series alone, and not what the scrape was sent.
LEMMA TakesOffKeeps ==
  ASSUME VectorInv, NEW s \in Scrapers, NEW n \in {1, 3, 4, 5}, NEW l \in Labels,
         NEW x \in Scrapes, TakesOff(s, n, l, x)
  PROVE  /\ x.seen.status = scrape[s].seen.status
         /\ \A k \in Labels :
               /\ x.seen.timed[k] = IF n = 1 /\ k = l THEN vec.timed[l] ELSE scrape[s].seen.timed[k]
               /\ x.seen.runs[k] = IF n = 3 /\ k = l THEN vec.runs[l] ELSE scrape[s].seen.runs[k]
               /\ x.seen.value[k] = IF n = 4 /\ k = l THEN vec.value[l] ELSE scrape[s].seen.value[k]
               /\ x.seen.detail[k] = IF n = 5 /\ k = l THEN vec.detail[l] ELSE scrape[s].seen.detail[k]
         /\ \A k \in Labels, m \in {1, 3, 4, 5} : Has(x, m, k) <=> Has(scrape[s], m, k)
<1>. DEFINE y == scrape[s]
<1>1. /\ <<n, l>> \in y.unread /\ vec[Families[n]][l] > 0
      /\ x.unread = y.unread \ {<<n, l>>}
      /\ x.seen = [y.seen EXCEPT ![Families[n]] =
                     [y.seen[Families[n]] EXCEPT ![l] = vec[Families[n]][l]]]
  BY DEF TakesOff
<1>2. y.seen \in Vectors
  BY ScrapeFacts
<1>. HIDE DEF y
<1>3. /\ x.seen.status = y.seen.status
      /\ \A k \in Labels :
            /\ x.seen.timed[k] = IF n = 1 /\ k = l THEN vec.timed[l] ELSE y.seen.timed[k]
            /\ x.seen.runs[k] = IF n = 3 /\ k = l THEN vec.runs[l] ELSE y.seen.runs[k]
            /\ x.seen.value[k] = IF n = 4 /\ k = l THEN vec.value[l] ELSE y.seen.value[k]
            /\ x.seen.detail[k] = IF n = 5 /\ k = l THEN vec.detail[l] ELSE y.seen.detail[k]
  <2>2. CASE n = 1
    BY <1>1, <1>2, <2>2 DEF Vectors, Families
  <2>3. CASE n = 3
    BY <1>1, <1>2, <2>3 DEF Vectors, Families
  <2>4. CASE n = 4
    BY <1>1, <1>2, <2>4 DEF Vectors, Families
  <2>5. CASE n = 5
    BY <1>1, <1>2, <2>5 DEF Vectors, Families
  <2>. QED  BY <2>2, <2>3, <2>4, <2>5
<1>4. ASSUME NEW k \in Labels, NEW m \in {1, 3, 4, 5}
      PROVE  Has(x, m, k) <=> Has(y, m, k)
  <2>1. CASE m = n /\ k = l
    <3>1. Has(y, m, k)
      BY <1>1, <2>1 DEF Has
    <3>2. x.seen[Families[m]][k] > 0
      BY <1>1, <1>3, <2>1 DEF Families
    <3>. QED  BY <3>1, <3>2 DEF Has
  <2>2. CASE ~ (m = n /\ k = l)
    <3>1. x.seen[Families[m]][k] = y.seen[Families[m]][k]
      BY <1>3, <2>2 DEF Families
    <3>. QED  BY <1>1, <2>2, <3>1 DEF Has
  <2>. QED  BY <2>1, <2>2
<1>. QED  BY <1>3, <1>4 DEF y

LEMMA GatherInv ==
  ASSUME VectorInv, NEW s \in Scrapers, Gather(s)  PROVE VectorInv'
<1>. DEFINE y == scrape[s]
<1>1. UNCHANGED <<kind, items, projects, vec, run>>
  BY DEF Gather
<1>0. PICK n \in {1, 3, 4, 5}, l \in Labels, x \in Scrapes : TakesOff(s, n, l, x)
  BY SeriesRead
<1>2. /\ scrape' = [scrape EXCEPT ![s] = x]
      /\ <<n, l>> \in y.unread /\ (n = 3 => <<1, l>> \notin y.unread)
      /\ vec[Families[n]][l] > 0
      /\ x.pc = y.pc /\ x.sent = y.sent /\ x.answer = y.answer
      /\ x.unread = y.unread \ {<<n, l>>}
      /\ x.seen = [y.seen EXCEPT ![Families[n]] =
                     [y.seen[Families[n]] EXCEPT ![l] = vec[Families[n]][l]]]
  BY <1>0 DEF TakesOff
<1>3. /\ y.pc # "idle" /\ Answered(y, vec) /\ Reads(y, vec) /\ Keeps(y) /\ InOrder(y)
      /\ y.pc = "reading" => Current(y, vec)
      /\ y.pc = "gathering" => y.sent = 5 /\ Whole(y)
  BY <1>2, ScrapeFacts DEF Scraped
<1>4. y.sent \in 0..5 /\ n <= y.sent
  BY <1>2, <1>3, ScrapeFacts DEF Reads
<1>5. ASSUME NEW k \in Labels
      PROVE  /\ x.seen.timed[k] = IF n = 1 /\ k = l THEN vec.timed[l] ELSE y.seen.timed[k]
             /\ x.seen.runs[k] = IF n = 3 /\ k = l THEN vec.runs[l] ELSE y.seen.runs[k]
             /\ x.seen.value[k] = IF n = 4 /\ k = l THEN vec.value[l] ELSE y.seen.value[k]
             /\ x.seen.detail[k] = IF n = 5 /\ k = l THEN vec.detail[l] ELSE y.seen.detail[k]
  BY <1>0, TakesOffKeeps
<1>16. x.seen.status = y.seen.status
  BY <1>0, TakesOffKeeps
<1>6. ASSUME NEW k \in Labels
      PROVE  /\ vec.timed[k] \in Nat /\ vec.runs[k] \in Nat
             /\ y.seen.timed[k] \in Nat /\ y.seen.runs[k] \in Nat
             /\ y.answer.timed[k] <= vec.timed[k] /\ y.answer.runs[k] <= vec.runs[k]
             /\ y.seen.timed[k] <= vec.timed[k] /\ y.seen.runs[k] <= vec.runs[k]
             /\ vec.timed[k] <= vec.runs[k] + Slack
  BY <1>3, ScrapeFacts, VectorShape, SlackHolds DEF Answered, Reads
<1>7. ASSUME NEW k \in Labels, NEW m \in {1, 3, 4, 5}
      PROVE  <<m, k>> \in x.unread <=> <<m, k>> \in y.unread /\ ~ (m = n /\ k = l)
  BY <1>2
<1>8. ASSUME NEW k \in Labels, NEW m \in {1, 3, 4, 5}
      PROVE  Has(x, m, k) <=> Has(y, m, k)
  BY <1>0, TakesOffKeeps
<1>. HIDE DEF y
<1>9. Answered(x, vec)
  BY <1>2, <1>3 DEF Answered
<1>10. Reads(x, vec)
  <2>1. ASSUME NEW k \in Labels
        PROVE  x.seen.timed[k] <= vec.timed[k] /\ x.seen.runs[k] <= vec.runs[k]
    BY <1>5, <1>6
  <2>. QED  BY <1>2, <1>3, <2>1 DEF Reads
<1>11. Keeps(x)
  <2>. SUFFICES ASSUME NEW k \in Labels
       PROVE  /\ x.sent >= 1 => <<1, k>> \in x.unread \/ x.answer.timed[k] <= x.seen.timed[k]
              /\ x.sent >= 3 => <<3, k>> \in x.unread \/ x.answer.runs[k] <= x.seen.runs[k]
    BY DEF Keeps
  <2>1. /\ y.sent >= 1 => <<1, k>> \in y.unread \/ y.answer.timed[k] <= y.seen.timed[k]
        /\ y.sent >= 3 => <<3, k>> \in y.unread \/ y.answer.runs[k] <= y.seen.runs[k]
    BY <1>3 DEF Keeps
  <2>. QED  BY <1>2, <1>5, <1>6, <1>7, <2>1
<1>12. InOrder(x)
  <2>. SUFFICES ASSUME NEW k \in Labels, x.sent >= 3, <<3, k>> \notin x.unread
       PROVE  <<1, k>> \notin x.unread /\ x.seen.timed[k] <= x.seen.runs[k] + Slack
    BY DEF InOrder
  <2>1. CASE n = 3 /\ k = l
    <3>1. <<1, k>> \notin x.unread
      BY <1>2, <1>7, <2>1
    <3>2. x.seen.timed[k] = y.seen.timed[k] /\ x.seen.runs[k] = vec.runs[k]
      BY <1>5, <2>1
    <3>3. Slack \in 0..1
      BY DEF Slack
    <3>. QED  BY <1>6, <3>1, <3>2, <3>3
  <2>2. CASE ~ (n = 3 /\ k = l)
    <3>1. <<3, k>> \notin y.unread /\ y.sent >= 3
      BY <1>2, <1>7, <2>2
    <3>2. <<1, k>> \notin y.unread /\ y.seen.timed[k] <= y.seen.runs[k] + Slack
      BY <1>3, <3>1 DEF InOrder
    <3>3. ~ (n = 1 /\ k = l)
      BY <1>2, <3>2
    <3>. QED  BY <1>5, <1>7, <2>2, <3>2, <3>3
  <2>. QED  BY <2>1, <2>2
<1>13. ASSUME x.pc = "reading"  PROVE Current(x, vec)
  <2>0. x.sent >= 2 => x.seen.status = vec.status
    BY <1>2, <1>3, <1>16, <1>13 DEF Current
  <2>. SUFFICES ASSUME NEW k \in Labels
       PROVE  /\ IF x.sent >= 1 THEN Has(x, 1, k) <=> vec.timed[k] > 0 ELSE x.seen.timed[k] = 0
              /\ IF x.sent >= 3 THEN Has(x, 3, k) <=> vec.runs[k] > 0 ELSE x.seen.runs[k] = 0
              /\ IF x.sent >= 4 THEN Has(x, 4, k) <=> vec.value[k] > 0 ELSE x.seen.value[k] = 0
              /\ IF x.sent >= 5 THEN Has(x, 5, k) <=> vec.detail[k] > 0 ELSE x.seen.detail[k] = 0
    BY <2>0 DEF Current
  <2>1. /\ IF y.sent >= 1 THEN Has(y, 1, k) <=> vec.timed[k] > 0 ELSE y.seen.timed[k] = 0
        /\ IF y.sent >= 3 THEN Has(y, 3, k) <=> vec.runs[k] > 0 ELSE y.seen.runs[k] = 0
        /\ IF y.sent >= 4 THEN Has(y, 4, k) <=> vec.value[k] > 0 ELSE y.seen.value[k] = 0
        /\ IF y.sent >= 5 THEN Has(y, 5, k) <=> vec.detail[k] > 0 ELSE y.seen.detail[k] = 0
    BY <1>2, <1>3, <1>13 DEF Current
  <2>. QED  BY <1>2, <1>4, <1>5, <1>8, <2>1
<1>14. ASSUME x.pc = "gathering"  PROVE x.sent = 5 /\ Whole(x)
  BY <1>2, <1>3, <1>16, <1>8, <1>14 DEF Whole, Shows
<1>15. Scraped(x, vec)
  BY <1>2, <1>3, <1>9, <1>10, <1>11, <1>12, <1>13, <1>14 DEF Scraped
<1>. QED  BY <1>1, <1>2, <1>15, ScrapeMoves DEF y

\* A registry that has read everything has read what fits together, and no
\* counter that is less than in its former answer.
LEMMA GatheredFits ==
  ASSUME VectorInv, NEW s \in Scrapers, scrape[s].pc = "gathering", scrape[s].unread = {}
  PROVE  /\ FitsTogether(scrape[s].seen)
         /\ \A l \in Labels :
               /\ scrape[s].seen.timed[l] <= vec.timed[l] /\ scrape[s].seen.runs[l] <= vec.runs[l]
               /\ scrape[s].answer.timed[l] <= scrape[s].seen.timed[l]
               /\ scrape[s].answer.runs[l] <= scrape[s].seen.runs[l]
<1>. DEFINE y == scrape[s]
<1>1. Reads(y, vec) /\ Keeps(y) /\ InOrder(y) /\ y.sent = 5 /\ Whole(y)
  BY ScrapeFacts DEF Scraped
<1>2. FitsTogether(y.seen)
  <2>. SUFFICES ASSUME NEW l \in Labels
       PROVE  /\ y.seen.timed[l] <= y.seen.runs[l] + Slack
              /\ y.seen.timed[l] > 0 => y.seen.runs[l] > 0
              /\ y.seen.runs[l] > 0 <=> \E st \in Statuses : <<l, st>> \in y.seen.status
              /\ y.seen.detail[l] > 0 => y.seen.value[l] > 0
    BY DEF FitsTogether
  <2>1. y.seen.timed[l] <= y.seen.runs[l] + Slack
    BY <1>1 DEF InOrder
  <2>2. /\ Has(y, 1, l) <=> y.seen.timed[l] > 0
        /\ Has(y, 3, l) <=> y.seen.runs[l] > 0
        /\ Has(y, 4, l) <=> y.seen.value[l] > 0
        /\ Has(y, 5, l) <=> y.seen.detail[l] > 0
    BY DEF Has, Families
  <2>. QED  BY <1>1, <2>1, <2>2 DEF Whole, Shows
<1>3. \A l \in Labels :
         /\ y.seen.timed[l] <= vec.timed[l] /\ y.seen.runs[l] <= vec.runs[l]
         /\ y.answer.timed[l] <= y.seen.timed[l] /\ y.answer.runs[l] <= y.seen.runs[l]
  BY <1>1 DEF Reads, Keeps
<1>. QED  BY <1>2, <1>3

LEMMA RespondInv ==
  ASSUME VectorInv, NEW s \in Scrapers, Respond(s)  PROVE VectorInv'
<1>. DEFINE y == scrape[s]
            x == [y EXCEPT !.pc = "idle", !.answer = y.seen]
<1>1. /\ y.pc = "gathering" /\ y.unread = {} /\ scrape' = [scrape EXCEPT ![s] = x]
      /\ UNCHANGED <<kind, items, projects, vec, run>>
  BY ScrapeFacts DEF Respond, Scrapes
<1>2. /\ x.pc = "idle" /\ x.sent = y.sent /\ x.unread = {} /\ x.seen = y.seen
      /\ x.answer = y.seen /\ x \in Scrapes
  BY <1>1, ScrapeFacts DEF Scrapes
<1>3. Scraped(x, vec)
  <2>1. /\ FitsTogether(y.seen)
        /\ \A l \in Labels : y.seen.timed[l] <= vec.timed[l] /\ y.seen.runs[l] <= vec.runs[l]
    BY <1>1, GatheredFits
  <2>. HIDE DEF x, y
  <2>. QED  BY <1>2, <2>1 DEF Scraped, Answered
<1>. HIDE DEF x
<1>. QED  BY <1>1, <1>2, <1>3, ScrapeMoves

-----------------------------------------------------------------------------
(* The steps of the environment and of SetProjects                         *)

\* A step that Run and the scrapes have no part in; what exists goes on existing.
LEMMA OthersMove ==
  ASSUME VectorInv, UNCHANGED <<kind, vec, run, scrape>>,
         items' \in Seq(Places), DOMAIN items \subseteq DOMAIN items', projects' \subseteq Projects
  PROVE  VectorInv'
<1>. USE DEF VectorInv
<1>1. TypeOK'
  BY TypeParts, TypeNext
<1>2. RunIsSound'
  <2>1. Stages(kind)' = Stages(kind)
    BY SameKind
  <2>. QED  BY <2>1 DEF RunIsSound, Sound
<1>3. VectorsWillFit'
  <2>1. Rest' = Rest
    BY RestNext DEF Rest
  <2>. QED  BY <2>1, FitNext DEF VectorsWillFit
<1>4. CountedFirst'
  BY SameKind DEF CountedFirst
<1>5. LockedApart'
  BY DEF LockedApart, Reading
<1>6. ScrapesAreSound'
  BY ScrapedNext DEF ScrapesAreSound
<1>. QED  BY <1>1, <1>2, <1>3, <1>4, <1>5, <1>6

LEMMA OtherStepsInv ==
  ASSUME VectorInv,
         \/ \E list \in SUBSET Projects : SetProjects(list)
         \/ \E l \in Places : Create(l)
         \/ UNCHANGED vars
  PROVE  VectorInv'
<1>1. items \in Seq(Places) /\ projects \subseteq Projects
  BY TypeParts DEF VectorInv
<1>2. ASSUME NEW list \in SUBSET Projects, SetProjects(list)  PROVE VectorInv'
  BY <1>1, <1>2, OthersMove DEF SetProjects
<1>3. ASSUME NEW l \in Places, Create(l)  PROVE VectorInv'
  <2>1. UNCHANGED <<kind, projects, vec, run, scrape>> /\ items' = Append(items, l)
    BY <1>3 DEF Create
  <2>2. items' \in Seq(Places) /\ Len(items') = Len(items) + 1
    BY <1>1, <2>1, AppendProperties
  <2>3. DOMAIN items = 1..Len(items) /\ DOMAIN items' = 1..Len(items') /\ Len(items) \in Nat
    BY <1>1, <2>2, LenProperties
  <2>4. DOMAIN items \subseteq DOMAIN items'
    BY <2>2, <2>3
  <2>. QED  BY <1>1, <2>1, <2>2, <2>4, OthersMove
<1>4. CASE UNCHANGED vars
  BY <1>1, <1>4, OthersMove DEF vars
<1>. QED  BY <1>2, <1>3, <1>4

LEMMA VectorStep == VectorInv /\ [Next]_vars => VectorInv'
<1>. SUFFICES ASSUME VectorInv, [Next]_vars  PROVE VectorInv'
  OBVIOUS
<1>1. CASE RunStart
  BY <1>1, RunStartInv
<1>2. CASE RunStep
  BY <1>2, ListItemsInv, ListFailsInv, RunReturnInv, ProjectDoneInv, FetchInv, FetchFailsInv,
     LockInv, UpdateInv, LockAgainInv DEF RunStep
<1>3. CASE \E s \in Scrapers : CollectLock(s) \/ ScrapeStep(s)
  BY <1>3, CollectLockInv, CollectFamilyInv, CollectReturnInv, GatherInv, RespondInv
     DEF ScrapeStep
<1>4. CASE \/ \E list \in SUBSET Projects : SetProjects(list)
           \/ \E l \in Places : Create(l)
           \/ UNCHANGED vars
  BY <1>4, OtherStepsInv
<1>. QED  BY <1>1, <1>2, <1>3, <1>4 DEF Next

-----------------------------------------------------------------------------
(* What holds for every collector that keeps vectors                       *)

\* The invariant: a record in progress is all that keeps the vectors from
\* fitting together, and what the registry has read or has still to read of a
\* scrape was sent by one Collect that met no record in progress.
THEOREM VectorSafe == Spec => []VectorInv
BY VectorInitInv, VectorStep, PTL DEF Spec

\* Variables keep their types: every record is of a series of the collector
\* and every entry is one that GitLab listed.
THEOREM VectorTypes == Spec => []TypeOK
BY VectorSafe, PTL DEF VectorInv

\* The families of one answer to a scrape fit together although the registry
\* reads them one by one beside Run, for any number of concurrent scrapes.
THEOREM ScrapesFit == Spec => []ScrapesFitTogether
<1>1. VectorInv => ScrapesFitTogether
  BY DEF VectorInv, ScrapesAreSound, Scraped, Answered, ScrapesFitTogether
<1>. QED  BY <1>1, VectorSafe, PTL

\* The steps that touch neither the vectors nor a scrape, and the others.
LEMMA StepShape ==
  ASSUME [Next]_vars
  PROVE  \/ UNCHANGED <<vec, scrape>>
         \/ Update
         \/ \E s \in Scrapers : CollectLock(s) \/ ScrapeStep(s)
BY DEF Next, vars, RunStart, RunStep, ListItems, ListFails, RunReturn, ProjectDone, Fetch,
       FetchFails, Lock, LockAgain, SetProjects, Create

\* Only the end of a scrape changes its answer.
LEMMA AnswerStep ==
  ASSUME VectorInv, [Next]_vars, NEW s \in Scrapers
  PROVE  \/ scrape'[s].answer = scrape[s].answer
         \/ /\ scrape[s].pc = "gathering" /\ scrape[s].unread = {}
            /\ scrape'[s].answer = scrape[s].seen
<1>1. scrape \in [Scrapers -> Scrapes]
  BY ScrapeFacts
<1>2. CASE scrape' = scrape
  BY <1>2
<1>3. ASSUME NEW r \in Scrapers, CollectLock(r) \/ CollectFamily(r) \/ CollectReturn(r)
      PROVE  scrape'[s].answer = scrape[s].answer
  BY <1>1, <1>3 DEF CollectLock, CollectFamily, CollectReturn, Scrapes
<1>4. ASSUME NEW r \in Scrapers, Gather(r)
      PROVE  scrape'[s].answer = scrape[s].answer
  <2>1. PICK n \in {1, 3, 4, 5}, l \in Labels, x \in Scrapes : TakesOff(r, n, l, x)
    BY <1>4, SeriesRead
  <2>. QED  BY <1>1, <2>1 DEF TakesOff
<1>5. ASSUME NEW r \in Scrapers, Respond(r)
      PROVE  \/ scrape'[s].answer = scrape[s].answer
             \/ /\ scrape[s].pc = "gathering" /\ scrape[s].unread = {}
                /\ scrape'[s].answer = scrape[s].seen
  BY <1>1, <1>5 DEF Respond, Scrapes
<1>. QED  BY <1>2, <1>3, <1>4, <1>5, StepShape DEF Update, ScrapeStep

\* No counter and no histogram of an answer is less than in the one before.
THEOREM AnswersGrow == Spec => AnswersOnlyGrow
<1>1. VectorInv /\ [Next]_vars =>
        [\A s \in Scrapers, l \in Labels :
            /\ scrape[s].answer.runs[l] <= scrape'[s].answer.runs[l]
            /\ scrape[s].answer.timed[l] <= scrape'[s].answer.timed[l]
        ]_vars
  <2>. SUFFICES ASSUME VectorInv, [Next]_vars, NEW s \in Scrapers, NEW l \in Labels
                PROVE  /\ scrape[s].answer.runs[l] <= scrape'[s].answer.runs[l]
                       /\ scrape[s].answer.timed[l] <= scrape'[s].answer.timed[l]
    OBVIOUS
  <2>1. scrape[s].answer.runs[l] \in Nat /\ scrape[s].answer.timed[l] \in Nat
    BY ScrapeFacts, VectorShape
  <2>2. CASE scrape'[s].answer = scrape[s].answer
    BY <2>1, <2>2
  <2>3. CASE /\ scrape[s].pc = "gathering" /\ scrape[s].unread = {}
             /\ scrape'[s].answer = scrape[s].seen
    BY <2>3, GatheredFits
  <2>. QED  BY <2>2, <2>3, AnswerStep
<1>. QED  BY <1>1, VectorSafe, PTL DEF Spec, AnswersOnlyGrow

-----------------------------------------------------------------------------
(* Which series a scrape has is one atomic read                            *)

\* The series that a scrape was sent.
HasSeries(x) ==
    [timed |-> {l \in Labels : Has(x, 1, l)}, status |-> x.seen.status,
     runs |-> {l \in Labels : Has(x, 3, l)}, value |-> {l \in Labels : Has(x, 4, l)},
     detail |-> {l \in Labels : Has(x, 5, l)}]

LEMMA SentShape == VectorInv => \A s \in Scrapers : SentSeries(s) = HasSeries(scrape[s])
<1>. SUFFICES ASSUME VectorInv, NEW s \in Scrapers  PROVE SentSeries(s) = HasSeries(scrape[s])
  OBVIOUS
<1>. DEFINE x == scrape[s]
            Unread(n) == {u[2] : u \in {v \in x.unread : v[1] = n}}
<1>1. ASSUME NEW n \in {1, 3, 4, 5}
      PROVE  Unread(n) = {l \in Labels : <<n, l>> \in x.unread}
  <2>1. x.unread \subseteq {1, 3, 4, 5} \X Labels
    BY ScrapeFacts
  <2>. QED  BY <2>1
<1>2. SentSeries(s) =
        [timed |-> Positive(x.seen.timed) \cup Unread(1), status |-> x.seen.status,
         runs |-> Positive(x.seen.runs) \cup Unread(3),
         value |-> Positive(x.seen.value) \cup Unread(4),
         detail |-> Positive(x.seen.detail) \cup Unread(5)]
  BY DEF SentSeries, Series
<1>. HIDE DEF Unread, x
<1>3. /\ Positive(x.seen.timed) \cup Unread(1) = {l \in Labels : Has(x, 1, l)}
      /\ Positive(x.seen.runs) \cup Unread(3) = {l \in Labels : Has(x, 3, l)}
      /\ Positive(x.seen.value) \cup Unread(4) = {l \in Labels : Has(x, 4, l)}
      /\ Positive(x.seen.detail) \cup Unread(5) = {l \in Labels : Has(x, 5, l)}
  BY <1>1 DEF Positive, Has, Families
<1>. QED  BY <1>2, <1>3 DEF HasSeries, x

\* Under the read lock what was sent at last is what there is.
LEMMA SentIsCurrent ==
  ASSUME NEW x, NEW v, Current(x, v), x.sent = 5
  PROVE  HasSeries(x) = Series(v)
<1>1. /\ {l \in Labels : Has(x, 1, l)} = Positive(v.timed)
      /\ {l \in Labels : Has(x, 3, l)} = Positive(v.runs)
      /\ {l \in Labels : Has(x, 4, l)} = Positive(v.value)
      /\ {l \in Labels : Has(x, 5, l)} = Positive(v.detail)
  BY DEF Current, Positive
<1>2. x.seen.status = v.status
  BY DEF Current
<1>. QED  BY <1>1, <1>2 DEF HasSeries, Series

\* When everything has been read, what was sent is what was read.
LEMMA SentIsSeen ==
  ASSUME NEW x, x.unread = {}
  PROVE  HasSeries(x) = Series(x.seen)
BY DEF HasSeries, Series, Positive, Has, Families

LEMMA AllSeriesShape == VectorInv => Series(vec) \in AllSeries
<1>. SUFFICES ASSUME VectorInv  PROVE Series(vec) \in AllSeries
  OBVIOUS
<1>. DEFINE labels == (UNION {Sections(k) : k \in AllKinds}) \X Places
<1>1. kind \in AllKinds /\ vec.status \subseteq Labels \X Statuses
  BY RunFacts, VectorShape DEF VectorInv, TypeOK
<1>2. Labels \subseteq labels
  BY <1>1 DEF Labels
<1>. HIDE DEF labels
<1>3. /\ Positive(vec.timed) \subseteq labels /\ Positive(vec.runs) \subseteq labels
      /\ Positive(vec.value) \subseteq labels /\ Positive(vec.detail) \subseteq labels
      /\ vec.status \subseteq labels \X Statuses
  BY <1>1, <1>2 DEF Positive
<1>. QED  BY <1>3 DEF AllSeries, Series, labels

\* What the scrape x returns if it ends in the series of v.
SeenBy(x, v) ==
    CASE x.pc = "idle"      -> Series(x.answer)
      [] x.pc = "reading"   -> Series(v)
      [] x.pc = "gathering" -> HasSeries(x)

SentAll == [s \in Scrapers |-> SeenBy(scrape[s], vec)]

Replies == [s \in Scrapers |-> Series(scrape[s].answer)]

LEMMA SeenIsSent == VectorInv => SeenSeries = SentAll
BY SentShape DEF SeenSeries, SentAll, SeenBy

\* The same in the next state.
LEMMA SeriesNext ==
  ASSUME VectorInv', UNCHANGED kind
  PROVE  /\ Series(vec)' = Series(vec')
         /\ Series(vec') \in AllSeries
         /\ Replies' = [s \in Scrapers |-> Series(scrape'[s].answer)]
         /\ SeenSeries' = [s \in Scrapers |-> SeenBy(scrape'[s], vec')]
<1>1. Labels' = Labels
  BY SameKind
<1>2. Series(vec)' = Series(vec')
  BY <1>1 DEF Series, Positive
<1>3. Series(vec') \in AllSeries
  <2>1. VectorInv' => (Series(vec) \in AllSeries)'
    BY AllSeriesShape, PTL
  <2>. QED  BY <1>2, <2>1 DEF AllSeries
<1>4. Replies' = [s \in Scrapers |-> Series(scrape'[s].answer)]
  BY <1>1 DEF Replies, Series, Positive
<1>5. SeenSeries' = SentAll'
  <2>1. VectorInv' => (SeenSeries = SentAll)'
    BY SeenIsSent, PTL
  <2>. QED  BY <2>1
<1>6. SentAll' = [s \in Scrapers |-> SeenBy(scrape'[s], vec')]
  BY <1>1 DEF SentAll, SeenBy, Series, Positive, HasSeries, Has
<1>. QED  BY <1>2, <1>3, <1>4, <1>5, <1>6

LEMMA AtomicStep ==
  VectorInv /\ VectorInv' /\ [Next]_vars => [Store!StoreNext]_(Store!storeVars)
<1>. SUFFICES ASSUME VectorInv, VectorInv', [Next]_vars
              PROVE  [Store!StoreNext]_(Store!storeVars)
  OBVIOUS
<1>1. UNCHANGED kind
  BY DEF Next, vars, RunStart, RunStep, ListItems, ListFails, RunReturn, ProjectDone, Fetch,
         FetchFails, Lock, Update, LockAgain, SetProjects, CollectLock, ScrapeStep,
         CollectFamily, CollectReturn, Gather, Respond, Create
<1>2. /\ SeenSeries = [s \in Scrapers |-> SeenBy(scrape[s], vec)]
      /\ SeenSeries' = [s \in Scrapers |-> SeenBy(scrape'[s], vec')]
      /\ Replies = [s \in Scrapers |-> Series(scrape[s].answer)]
      /\ Replies' = [s \in Scrapers |-> Series(scrape'[s].answer)]
      /\ Series(vec)' = Series(vec') /\ Series(vec') \in AllSeries
  <2>1. SeenSeries = [s \in Scrapers |-> SeenBy(scrape[s], vec)]
    BY SeenIsSent DEF SentAll
  <2>. QED  BY <1>1, <2>1, SeriesNext DEF Replies
<1>. SUFFICES \/ SeenSeries' = SeenSeries /\ Replies' = Replies
              \/ \E s \in Scrapers : /\ SeenSeries' = [SeenSeries EXCEPT ![s] = Series(vec)]
                                     /\ Series(vec') = Series(vec) /\ Replies' = Replies
              \/ \E s \in Scrapers : /\ Replies' = [Replies EXCEPT ![s] = SeenSeries[s]]
                                     /\ Series(vec') = Series(vec) /\ SeenSeries' = SeenSeries
  <2>1. Store!StoreNext <=>
           \/ Series(vec)' \in AllSeries /\ SeenSeries' = SeenSeries /\ Replies' = Replies
           \/ \E s \in Scrapers :
                 \/ /\ SeenSeries' = [SeenSeries EXCEPT ![s] = Series(vec)]
                    /\ Series(vec)' = Series(vec) /\ Replies' = Replies
                 \/ /\ Replies' = [Replies EXCEPT ![s] = SeenSeries[s]]
                    /\ Series(vec)' = Series(vec) /\ SeenSeries' = SeenSeries
    BY Zenon DEF Store!StoreNext, Store!Replace, Store!Observe, Store!Answer, Replies
  <2>. QED  BY <1>2, <2>1, Zenon
<1>3. scrape \in [Scrapers -> Scrapes]
  BY TypeParts DEF VectorInv
<1>4. CASE UNCHANGED <<vec, scrape>>
  BY <1>2, <1>4
<1>5. CASE Update
  <2>1. scrape' = scrape /\ \A s \in Scrapers : scrape[s].pc # "reading"
    BY <1>5 DEF Update, Reading, VectorInv, LockedApart
  <2>2. \A s \in Scrapers : SeenBy(scrape[s], vec') = SeenBy(scrape[s], vec)
    BY <2>1 DEF SeenBy
  <2>. QED  BY <1>2, <2>1, <2>2
<1>6. ASSUME NEW s \in Scrapers, NEW x, scrape' = [scrape EXCEPT ![s] = x], vec' = vec
      PROVE  /\ SeenBy(x, vec) = SeenBy(scrape[s], vec) => SeenSeries' = SeenSeries
             /\ x.answer = scrape[s].answer => Replies' = Replies
             /\ SeenSeries' = [SeenSeries EXCEPT ![s] = SeenBy(x, vec)]
             /\ Replies' = [Replies EXCEPT ![s] = Series(x.answer)]
             /\ SeenSeries[s] = SeenBy(scrape[s], vec)
  <2>1. \A r \in Scrapers : scrape'[r] = IF r = s THEN x ELSE scrape[r]
    BY <1>3, <1>6
  <2>2. \A r \in Scrapers :
           /\ SeenBy(scrape'[r], vec') = IF r = s THEN SeenBy(x, vec) ELSE SeenBy(scrape[r], vec)
           /\ Series(scrape'[r].answer) = IF r = s THEN Series(x.answer) ELSE Series(scrape[r].answer)
    BY <1>6, <2>1
  <2>3. SeenSeries[s] = SeenBy(scrape[s], vec) /\ Replies[s] = Series(scrape[s].answer)
    BY <1>2
  <2>4. SeenSeries' = [r \in Scrapers |-> IF r = s THEN SeenBy(x, vec) ELSE SeenBy(scrape[r], vec)]
    BY <1>2, <2>2
  <2>5. Replies' = [r \in Scrapers |-> IF r = s THEN Series(x.answer) ELSE Series(scrape[r].answer)]
    BY <1>2, <2>2
  <2>6. /\ SeenSeries' = [SeenSeries EXCEPT ![s] = SeenBy(x, vec)]
        /\ Replies' = [Replies EXCEPT ![s] = Series(x.answer)]
    BY <1>2, <2>4, <2>5
  <2>7. SeenBy(x, vec) = SeenBy(scrape[s], vec) => SeenSeries' = SeenSeries
    BY <1>2, <2>4
  <2>8. x.answer = scrape[s].answer => Replies' = Replies
    BY <1>2, <2>5
  <2>. QED  BY <2>3, <2>6, <2>7, <2>8
<1>7. ASSUME NEW s \in Scrapers, CollectLock(s)
      PROVE  /\ SeenSeries' = [SeenSeries EXCEPT ![s] = Series(vec)]
             /\ Series(vec') = Series(vec) /\ Replies' = Replies
  <2>. DEFINE x == [scrape[s] EXCEPT !.pc = "reading", !.sent = 0, !.seen = EmptyVectors]
  <2>1. /\ scrape' = [scrape EXCEPT ![s] = x] /\ vec' = vec
        /\ x.pc = "reading" /\ x.answer = scrape[s].answer
    BY <1>3, <1>7 DEF CollectLock, Scrapes
  <2>. HIDE DEF x
  <2>2. SeenBy(x, vec) = Series(vec)
    BY <2>1 DEF SeenBy
  <2>3. /\ SeenSeries' = [SeenSeries EXCEPT ![s] = SeenBy(x, vec)]
        /\ Replies' = Replies
    BY <1>6, <2>1
  <2>. QED  BY <2>1, <2>2, <2>3
<1>8. ASSUME NEW s \in Scrapers, CollectFamily(s)
      PROVE  SeenSeries' = SeenSeries /\ Replies' = Replies
  <2>. DEFINE n == scrape[s].sent + 1
  <2>1. scrape[s].pc = "reading" /\ vec' = vec
    BY <1>8, FamilySent
  <2>2. PICK x \in Scrapes : /\ scrape' = [scrape EXCEPT ![s] = x] /\ x.pc = "reading"
                             /\ x.answer = scrape[s].answer
    BY <1>8, FamilySent
  <2>3. SeenBy(x, vec) = SeenBy(scrape[s], vec)
    BY <2>1, <2>2 DEF SeenBy
  <2>. QED  BY <1>6, <2>1, <2>2, <2>3
<1>9. ASSUME NEW s \in Scrapers, CollectReturn(s)
      PROVE  SeenSeries' = SeenSeries /\ Replies' = Replies
  <2>. DEFINE y == scrape[s]
              x == [y EXCEPT !.pc = "gathering"]
  <2>1. /\ y.pc = "reading" /\ y.sent = 5 /\ scrape' = [scrape EXCEPT ![s] = x]
        /\ vec' = vec
    BY <1>9, ScrapeFacts DEF CollectReturn, Scrapes, Families
  <2>2. /\ x.pc = "gathering" /\ x.answer = y.answer /\ x.seen = y.seen
        /\ x.unread = y.unread
    BY ScrapeFacts DEF Scrapes
  <2>3. HasSeries(x) = HasSeries(y)
    BY <2>2 DEF HasSeries, Has
  <2>4. HasSeries(y) = Series(vec)
    BY <2>1, ScrapeFacts, SentIsCurrent DEF Scraped
  <2>. HIDE DEF x
  <2>5. SeenBy(x, vec) = SeenBy(y, vec)
    BY <2>1, <2>2, <2>3, <2>4 DEF SeenBy
  <2>. QED  BY <1>6, <2>1, <2>2, <2>5
<1>10. ASSUME NEW s \in Scrapers, Gather(s)
       PROVE  SeenSeries' = SeenSeries /\ Replies' = Replies
  <2>. DEFINE y == scrape[s]
  <2>1. PICK n \in {1, 3, 4, 5}, l \in Labels, x \in Scrapes : TakesOff(s, n, l, x)
    BY <1>10, SeriesRead
  <2>2. /\ scrape' = [scrape EXCEPT ![s] = x] /\ x.pc = y.pc /\ x.answer = y.answer
        /\ vec' = vec
    BY <1>10, <2>1 DEF TakesOff, Gather
  <2>3. x.seen.status = y.seen.status /\ \A k \in Labels, m \in {1, 3, 4, 5} : Has(x, m, k) <=> Has(y, m, k)
    BY <2>1, TakesOffKeeps
  <2>. HIDE DEF y
  <2>4. HasSeries(x) = HasSeries(y)
    BY <2>3 DEF HasSeries
  <2>5. SeenBy(x, vec) = SeenBy(y, vec)
    BY <2>2, <2>4 DEF SeenBy
  <2>. QED  BY <1>6, <2>2, <2>5 DEF y
<1>11. ASSUME NEW s \in Scrapers, Respond(s)
       PROVE  /\ Replies' = [Replies EXCEPT ![s] = SeenSeries[s]]
              /\ Series(vec') = Series(vec) /\ SeenSeries' = SeenSeries
  <2>. DEFINE y == scrape[s]
              x == [y EXCEPT !.pc = "idle", !.answer = y.seen]
  <2>1. /\ y.pc = "gathering" /\ y.unread = {} /\ scrape' = [scrape EXCEPT ![s] = x]
        /\ vec' = vec
    BY <1>11, ScrapeFacts DEF Respond, Scrapes
  <2>2. x.pc = "idle" /\ x.answer = y.seen
    BY ScrapeFacts DEF Scrapes
  <2>3. HasSeries(y) = Series(y.seen)
    BY <2>1, SentIsSeen
  <2>4. SeenBy(x, vec) = SeenBy(y, vec) /\ SeenBy(y, vec) = Series(x.answer)
    BY <2>1, <2>2, <2>3 DEF SeenBy
  <2>. HIDE DEF x, y
  <2>5. /\ SeenSeries' = SeenSeries
        /\ Replies' = [Replies EXCEPT ![s] = Series(x.answer)]
        /\ SeenSeries[s] = SeenBy(y, vec)
    BY <1>6, <2>1, <2>4 DEF y
  <2>. QED  BY <2>1, <2>4, <2>5
<1>. QED  BY <1>4, <1>5, <1>7, <1>8, <1>9, <1>10, <1>11, StepShape DEF ScrapeStep

LEMMA AtomicInit ==
  Init => /\ Series(vec) \in AllSeries
          /\ SeenSeries = [s \in Scrapers |-> Series(vec)]
          /\ Replies = [s \in Scrapers |-> Series(vec)]
<1>. SUFFICES ASSUME Init
              PROVE  /\ Series(vec) \in AllSeries
                     /\ SeenSeries = [s \in Scrapers |-> Series(vec)]
                     /\ Replies = [s \in Scrapers |-> Series(vec)]
  OBVIOUS
<1>1. Series(vec) \in AllSeries
  BY VectorInitInv, AllSeriesShape
<1>2. \A s \in Scrapers : scrape[s].pc = "idle" /\ scrape[s].answer = vec
  BY DEF Init
<1>. QED  BY <1>1, <1>2 DEF SeenSeries, Replies

\* Which series an answer has is decided at one moment, although Collect sends
\* them family by family and the registry reads them later.
THEOREM SeriesReadsAreAtomic == Spec => SeriesAreAtomic
BY AtomicInit, VectorSafe, AtomicStep, PTL
   DEF Spec, SeriesAreAtomic, Store!StoreSpec, Replies

-----------------------------------------------------------------------------
(* A cycle moves on                                                        *)

\* The way from one part of a cycle to the next: the last component of Left.
Way(r) ==
    CASE r.pc = "unlocked" -> 7
      [] r.pc = "lock"     -> 6
      [] r.pc = "locked"   -> 6 - r.step
      [] r.pc = "project"  -> 1
      [] OTHER             -> 0

LEMMA RunIsNatural == VectorInv => run.stage \in Nat /\ Way(run) \in Nat
BY RunFacts DEF Way

\* A step that leaves less: the first part that changes is smaller.
LEMMA LessLeft ==
  ASSUME VectorInv, VectorInv', UNCHANGED kind,
         \/ Cardinality(run'.todo) < Cardinality(run.todo)
         \/ /\ run'.todo = run.todo
            /\ \/ Len(run'.queue) < Len(run.queue)
               \/ /\ run'.queue = run.queue
                  /\ \/ run.stage < run'.stage
                     \/ /\ run'.stage = run.stage
                        /\ \/ run.pc = "entry" /\ run'.pc # "entry"
                           \/ /\ run.pc # "entry" /\ run'.pc # "entry"
                              /\ \/ Len(run'.writes) < Len(run.writes)
                                 \/ /\ run'.writes = run.writes
                                    /\ Way(run') < Way(run)
  PROVE  LexLess(Left', Left)
<1>. DEFINE m == Len(Stages(kind))
<1>1. m \in Nat /\ Stages(kind)' = Stages(kind)
  BY RunFacts, StagesShape, SameKind
<1>2. /\ run.stage \in Nat /\ Len(run.queue) \in Nat /\ Len(run.writes) \in Nat
      /\ Way(run) \in Nat
  BY RunFacts, RunIsNatural, LenProperties
<1>3. run'.stage \in Nat /\ Way(run') \in Nat
  <2>1. VectorInv' => (run.stage \in Nat /\ Way(run) \in Nat)'
    BY RunIsNatural, PTL
  <2>. QED  BY <2>1 DEF Way
<1>4. /\ Left[1] = Cardinality(run.todo) /\ Left[2] = Len(run.queue)
      /\ Left[3] = m - run.stage /\ Left[4] = (IF run.pc = "entry" THEN 1 ELSE 0)
      /\ Left[5] = Len(run.writes)
      /\ Left[6] = Way(run)
  BY DEF Left, Way
<1>5. /\ Left'[1] = Cardinality(run'.todo) /\ Left'[2] = Len(run'.queue)
      /\ Left'[3] = m - run'.stage /\ Left'[4] = (IF run'.pc = "entry" THEN 1 ELSE 0)
      /\ Left'[5] = Len(run'.writes)
      /\ Left'[6] = Way(run')
      /\ DOMAIN Left' = 1..6
  BY <1>1 DEF Left, Way
<1>. HIDE DEF m
<1>6. \E n \in 1..6 : Left'[n] < Left[n] /\ \A j \in 1..(n - 1) : Left'[j] = Left[j]
  <2>1. CASE Left'[1] < Left[1]
    BY <2>1
  <2>2. CASE Left'[2] < Left[2] /\ Left'[1] = Left[1]
    BY <2>2
  <2>3. CASE Left'[3] < Left[3] /\ Left'[1] = Left[1] /\ Left'[2] = Left[2]
    BY <2>3
  <2>4. CASE Left'[4] < Left[4] /\ Left'[1] = Left[1] /\ Left'[2] = Left[2] /\ Left'[3] = Left[3]
    BY <2>4
  <2>5. CASE /\ Left'[5] < Left[5] /\ Left'[1] = Left[1] /\ Left'[2] = Left[2]
             /\ Left'[3] = Left[3] /\ Left'[4] = Left[4]
    BY <2>5
  <2>6. CASE /\ Left'[6] < Left[6] /\ Left'[1] = Left[1] /\ Left'[2] = Left[2]
             /\ Left'[3] = Left[3] /\ Left'[4] = Left[4] /\ Left'[5] = Left[5]
    BY <2>6
  <2>7. \/ Left'[1] < Left[1]
        \/ /\ Left'[1] = Left[1]
           /\ \/ Left'[2] < Left[2]
              \/ /\ Left'[2] = Left[2]
                 /\ \/ run.stage < run'.stage
                    \/ /\ run'.stage = run.stage
                       /\ \/ Left'[4] < Left[4]
                          \/ /\ Left'[4] = Left[4]
                             /\ \/ Left'[5] < Left[5]
                                \/ Left'[5] = Left[5] /\ Left'[6] < Left[6]
    BY <1>4, <1>5
  <2>8. /\ run.stage < run'.stage => Left'[3] < Left[3]
        /\ run'.stage = run.stage => Left'[3] = Left[3]
    BY <1>1, <1>2, <1>3, <1>4, <1>5
  <2>. QED  BY <2>1, <2>2, <2>3, <2>4, <2>5, <2>6, <2>7, <2>8
<1>. QED  BY <1>5, <1>6 DEF LexLess

\* One project fewer to list.
LEMMA TodoFalls ==
  ASSUME VectorInv, NEW p \in run.todo
  PROVE  Cardinality(run.todo \ {p}) < Cardinality(run.todo)
<1>1. IsFiniteSet(Projects)
  <2>1. [l \in Places |-> l[1]] \in Surjection(Places, Projects)
    BY DEF Surjection, Projects
  <2>. QED  BY <2>1, FS_Surjection, VectorAssumption
<1>2. IsFiniteSet(run.todo)
  BY <1>1, FS_Subset, RunFacts DEF Runs
<1>3. Cardinality(run.todo) \in Nat /\ Cardinality(run.todo \ {p}) = Cardinality(run.todo) - 1
  BY <1>2, FS_CardinalityType, FS_RemoveElement
<1>. QED  BY <1>3

\* On with the next entry or the next stage of the same: one entry fewer, or one
\* stage fewer.
LEMMA NextEntryLess ==
  ASSUME VectorInv, VectorInv', UNCHANGED kind, run.queue # <<>>, run' = NextEntry
  PROVE  LexLess(Left', Left)
<1>1. run' = [pc |-> "entry", cycle |-> run.cycle, todo |-> run.todo,
              queue |-> Tail(run.queue), stage |-> 1, writes |-> <<>>, step |-> 1]
  BY RunFacts, RunWithQueue, Zenon DEF NextEntry
<1>2. Len(Tail(run.queue)) < Len(run.queue)
  <2>1. run.queue \in Seq(Entries)
    BY RunFacts
  <2>2. Len(Tail(run.queue)) = Len(run.queue) - 1 /\ Len(run.queue) \in Nat
    BY <2>1, HeadTailProperties, LenProperties
  <2>. QED  BY <2>2
<1>. QED  BY <1>1, <1>2, LessLeft

LEMMA NextStageLess ==
  ASSUME VectorInv, VectorInv', UNCHANGED kind, run.queue # <<>>, run' = NextStage
  PROVE  LexLess(Left', Left)
<1>1. CASE run.stage = Len(Stages(kind))
  BY <1>1, NextEntryLess DEF NextStage
<1>2. CASE run.stage # Len(Stages(kind))
  <2>1. run' = [run EXCEPT !.pc = "entry", !.stage = @ + 1, !.writes = <<>>, !.step = 1]
    BY <1>2 DEF NextStage
  <2>2. run' = [pc |-> "entry", cycle |-> run.cycle, todo |-> run.todo,
                queue |-> run.queue, stage |-> run.stage + 1, writes |-> <<>>, step |-> 1]
    BY <2>1, RunFacts, RunWithStage, Zenon
  <2>3. run.stage < run.stage + 1
    BY RunIsNatural
  <2>. QED  BY <2>2, <2>3, LessLeft
<1>. QED  BY <1>1, <1>2

\* Each step of a cycle.
LEMMA CycleStep ==
  ASSUME VectorInv, VectorInv', RunStep  PROVE LexLess(Left', Left)
<1>0. /\ run \in Runs
      /\ run.queue \in Seq(Entries) /\ run.writes \in Seq(Writes)
  BY RunFacts
<1>1. ASSUME NEW p, ListItems(p)  PROVE LexLess(Left', Left)
  <2>1. PICK q \in Listings(p) :
           run' = [run EXCEPT !.pc = "entry", !.todo = @ \ {p}, !.queue = q, !.stage = 1]
    BY <1>1 DEF ListItems
  <2>2. run'.todo = run.todo \ {p} /\ p \in run.todo /\ kind' = kind
    BY <1>0, <1>1, <2>1 DEF ListItems, Runs
  <2>3. Cardinality(run'.todo) < Cardinality(run.todo)
    BY <2>2, TodoFalls
  <2>. QED  BY <2>2, <2>3, LessLeft
<1>2. ASSUME NEW p, ListFails(p)  PROVE LexLess(Left', Left)
  <2>1. run'.todo = run.todo \ {p} /\ p \in run.todo /\ kind' = kind
    BY <1>0, <1>2 DEF ListFails, Runs
  <2>2. Cardinality(run'.todo) < Cardinality(run.todo)
    BY <2>1, TodoFalls
  <2>. QED  BY <2>1, <2>2, LessLeft
<1>3. CASE RunReturn
  <2>1. /\ run.pc = "project" /\ run'.pc = "idle" /\ kind' = kind
        /\ run'.todo = run.todo /\ run'.queue = run.queue /\ run'.stage = run.stage
        /\ run'.writes = run.writes
    BY <1>0, <1>3 DEF RunReturn, Runs
  <2>2. Way(run') < Way(run)
    BY <2>1 DEF Way
  <2>. QED  BY <2>1, <2>2, LessLeft
<1>4. CASE ProjectDone
  <2>1. /\ run.pc = "entry" /\ run'.pc = "project" /\ kind' = kind
        /\ run'.todo = run.todo /\ run'.queue = run.queue /\ run'.stage = run.stage
    BY <1>0, <1>4 DEF ProjectDone, Runs
  <2>. QED  BY <2>1, LessLeft
<1>5. CASE LockAgain
  <2>1. /\ run.pc = "unlocked" /\ run'.pc = "lock" /\ kind' = kind
        /\ run'.todo = run.todo /\ run'.queue = run.queue /\ run'.stage = run.stage
        /\ run'.writes = run.writes
    BY <1>0, <1>5 DEF LockAgain, Runs
  <2>2. Way(run') < Way(run)
    BY <2>1 DEF Way
  <2>. QED  BY <2>1, <2>2, LessLeft
<1>6. CASE FetchFails
  BY <1>6, NextEntryLess DEF FetchFails
<1>7. CASE Fetch
  <2>1. PICK ws \in Answers(CurrentStage, Head(run.queue)) :
           run' = IF ws = <<>> THEN NextStage ELSE [run EXCEPT !.pc = "lock", !.writes = ws]
    BY <1>7 DEF Fetch
  <2>2. run.pc = "entry" /\ run.queue # <<>> /\ kind' = kind
    BY <1>7 DEF Fetch
  <2>3. CASE ws = <<>>
    BY <2>1, <2>2, <2>3, NextStageLess
  <2>4. CASE ws # <<>>
    <3>1. /\ run'.pc = "lock" /\ run'.todo = run.todo /\ run'.queue = run.queue
          /\ run'.stage = run.stage
      BY <1>0, <2>1, <2>4 DEF Runs
    <3>. QED  BY <2>2, <3>1, LessLeft
  <2>. QED  BY <2>3, <2>4
<1>8. CASE Lock
  <2>1. /\ run.pc = "lock" /\ run'.pc = "locked" /\ kind' = kind /\ run'.step = 1
        /\ run'.todo = run.todo /\ run'.queue = run.queue /\ run'.stage = run.stage
        /\ run'.writes = run.writes
    BY <1>0, <1>8, RunFacts DEF Lock, Runs, Sound
  <2>2. Way(run') < Way(run)
    BY <2>1 DEF Way
  <2>. QED  BY <2>1, <2>2, LessLeft
<1>9. CASE Update
  <2>1. run.pc = "locked" /\ kind' = kind /\ run.writes # <<>> /\ run.queue # <<>>
    BY <1>9, RunFacts DEF Update, Sound
  <2>2. CASE run.step < Len(Order(kind))
    <3>1. /\ run'.pc = "locked" /\ run'.step = run.step + 1
          /\ run'.todo = run.todo /\ run'.queue = run.queue /\ run'.stage = run.stage
          /\ run'.writes = run.writes
      BY <1>0, <1>9, <2>1, <2>2 DEF Update, Runs
    <3>2. Way(run') < Way(run)
      BY <2>1, <3>1, RunFacts DEF Way
    <3>. QED  BY <2>1, <3>1, <3>2, LessLeft
  <2>3. CASE run' = AfterRecord /\ Len(run.writes) = 1
    BY <2>1, <2>3, NextStageLess DEF AfterRecord
  <2>4. CASE run' = AfterRecord /\ Len(run.writes) > 1
    <3>1. run' = [run EXCEPT !.pc = IF kind = "environments" THEN "locked" ELSE "unlocked",
                             !.writes = Tail(@), !.step = 1]
      BY <2>4 DEF AfterRecord
    <3>2. /\ run'.pc \in {"locked", "unlocked"} /\ run'.todo = run.todo
          /\ run'.queue = run.queue /\ run'.stage = run.stage
          /\ run'.writes = Tail(run.writes)
      BY <1>0, <3>1 DEF Runs
    <3>3. Len(Tail(run.writes)) < Len(run.writes)
      <4>1. Len(Tail(run.writes)) = Len(run.writes) - 1 /\ Len(run.writes) \in Nat
        BY <1>0, <2>1, HeadTailProperties, LenProperties
      <4>. QED  BY <4>1
    <3>. QED  BY <2>1, <3>2, <3>3, LessLeft
  <2>5. Len(run.writes) = 1 \/ Len(run.writes) > 1
    <3>. DEFINE n == Len(run.writes)
    <3>1. n \in Nat /\ n # 0
      BY <1>0, <2>1, EmptySeq, LenProperties
    <3>. HIDE DEF n
    <3>2. n = 1 \/ n > 1
      BY <3>1
    <3>. QED  BY <3>2 DEF n
  <2>6. run.step < Len(Order(kind)) \/ run' = AfterRecord
    BY <1>9, Zenon DEF Update
  <2>. QED  BY <2>2, <2>3, <2>4, <2>5, <2>6
<1>. QED  BY <1>1, <1>2, <1>3, <1>4, <1>5, <1>6, <1>7, <1>8, <1>9 DEF RunStep

\* While Run waits for the lock the scrapes only go on.
LEMMA ScrapesDrain ==
  ASSUME VectorInv, [Next]_vars, run.pc = "lock",
         NEW s \in Scrapers, scrape'[s].pc = "reading"
  PROVE  scrape[s].pc = "reading" /\ scrape[s].sent <= scrape'[s].sent
<1>1. scrape \in [Scrapers -> Scrapes] /\ scrape[s].sent \in 0..5
  BY ScrapeFacts
<1>2. CASE scrape' = scrape
  BY <1>1, <1>2
<1>3. ASSUME NEW u \in Scrapers, CollectFamily(u) \/ CollectReturn(u) \/ Respond(u)
      PROVE  scrape[s].pc = "reading" /\ scrape[s].sent <= scrape'[s].sent
  BY <1>1, <1>3 DEF CollectFamily, CollectReturn, Respond, Scrapes
<1>4. ASSUME NEW u \in Scrapers, Gather(u)
      PROVE  scrape[s].pc = "reading" /\ scrape[s].sent <= scrape'[s].sent
  <2>1. PICK n \in {1, 3, 4, 5}, l \in Labels, x \in Scrapes : TakesOff(u, n, l, x)
    BY <1>4, SeriesRead
  <2>. QED  BY <1>1, <2>1 DEF TakesOff
<1>5. ~ \E u \in Scrapers : CollectLock(u)
  BY DEF CollectLock
<1>6. scrape' = scrape \/ \E u \in Scrapers : ScrapeStep(u)
  BY <1>5, StepShape DEF Update
<1>. QED  BY <1>2, <1>3, <1>4, <1>6 DEF ScrapeStep

\* A cycle leaves less with every step, whatever fails, and while it waits for
\* the lock no scrape begins: it cannot run in circles or be kept out for ever.
THEOREM CyclesAlwaysMoveOn == Spec => CyclesMoveOn
<1>1. VectorInv /\ VectorInv' /\ [Next]_vars =>
        [/\ run.pc # "idle" /\ run' # run => LexLess(Left', Left)
         /\ run.pc = "lock" =>
               \A s \in Scrapers : scrape'[s].pc = "reading" =>
                   scrape[s].pc = "reading" /\ scrape[s].sent <= scrape'[s].sent
        ]_vars
  <2>. SUFFICES ASSUME VectorInv, VectorInv', [Next]_vars
                PROVE  /\ run.pc # "idle" /\ run' # run => LexLess(Left', Left)
                       /\ run.pc = "lock" =>
                             \A s \in Scrapers : scrape'[s].pc = "reading" =>
                                 scrape[s].pc = "reading" /\ scrape[s].sent <= scrape'[s].sent
    OBVIOUS
  <2>1. run' = run \/ RunStart \/ RunStep
    BY DEF Next, vars, SetProjects, CollectLock, ScrapeStep, CollectFamily, CollectReturn,
           Gather, Respond, Create
  <2>2. RunStart => run.pc = "idle"
    BY DEF RunStart
  <2>. QED  BY <2>1, <2>2, CycleStep, ScrapesDrain
<1>. QED  BY <1>1, VectorSafe, PTL DEF Spec, CyclesMoveOn

=============================================================================
