--------------------------- MODULE TransferProofs ---------------------------
(***************************************************************************)
(* Proofs about Transfer, for trees of any shape and size, any orders, any *)
(* failures and any number of invocations.  The walk is treated as the     *)
(* usual loop: what has been visited has arrived, what has not been        *)
(* visited is as it was, and what can be reached is visited or still to    *)
(* be visited by way of something in todo.                                 *)
(***************************************************************************)
EXTENDS Transfer, SequenceTheorems, TLAPS

\* The bookkeeping of the walk: todo and visited are apart, contain the root,
\* and with a listed directory what is in it; all but roots were found in one.
Walked ==
    /\ todo \subseteq Present(From) /\ todo \cap visited = {}
    /\ copying # None => copying \in todo
    /\ Roots(From) \subseteq todo \cup visited
    /\ \A d \in (visited \cap Dir) \ Unreadable[orders[at].from] :
          Below(From, d) \subseteq todo \cup visited
    /\ \A p \in todo \cup visited : IsRoot(From, p) \/ ParentOf[p] \in visited

\* Files the walk has not come to are as they were when the invocation began.
Untouched ==
    Sole(at) => \A p \in File : (p \notin visited /\ p # copying) =>
                                    To.file[p] = before[orders[at].to].file[p]

\* The orders before this one have done their work.
Earlier == \A i \in DOMAIN orders : i < at => Whole(i, Reachable(i))

\* The places no order has written to yet are as they were.
Later ==
    \A i \in DOMAIN orders :
        (\A j \in 1 .. at : orders[j].to # orders[i].to) =>
            tree[orders[i].to] = before[orders[i].to]

UnderWay ==
    result = "running" =>
        /\ failedAt = 0 /\ invocation > 0
        /\ Walked /\ Whole(at, visited \cap File) /\ Untouched /\ Earlier /\ Later

\* A failed step is of the order under way; only that of a fetch with no task
\* after it leaves the invocation without an error.
Failed ==
    failedAt # 0 =>
        /\ failedAt = at /\ result \in {"ok", "failed", "panic"} /\ Later
        /\ result = "ok" => orders[at].kind = "download" /\ ~follows

TrInv == TransferTypeOK /\ UnderWay /\ Failed /\ CopiedWhole

----------------------------------------------------------------------------

\* The places of an order, and the trees there.
LEMMA OrderPlaces ==
    ASSUME TransferTypeOK
    PROVE  /\ orders \in Seq(Order) /\ Len(orders) \in Nat /\ DOMAIN orders = 1 .. Len(orders)
           /\ \A i \in DOMAIN orders : /\ orders[i].from \in Place /\ orders[i].to \in Place
                                       /\ orders[i].from # orders[i].to
           /\ \A i, j \in DOMAIN orders :
                 (i < j /\ orders[i].kind = "download") => orders[j].kind = "download"
           /\ at \in 1 .. Len(orders) /\ 1 \in DOMAIN orders
           /\ tree \in [Place -> Tree] /\ before \in [Place -> Tree]
           /\ From \in Tree /\ To \in Tree
<1>1. /\ orders \in Seq(Order) /\ orders # <<>>
      /\ \A i \in DOMAIN orders : orders[i].from # orders[i].to
      /\ \A i, j \in DOMAIN orders :
            (i < j /\ orders[i].kind = "download") => orders[j].kind = "download"
  BY TransferAssumption DEF TransferTypeOK
<1>2. Len(orders) \in Nat /\ DOMAIN orders = 1 .. Len(orders) /\ Len(orders) # 0
  BY <1>1, EmptySeq, LenProperties
<1>3. \A i \in DOMAIN orders : orders[i] \in Order
  BY <1>1, <1>2, ElementOfSeq
<1>4. \A i \in DOMAIN orders : orders[i].from \in Place /\ orders[i].to \in Place
  BY <1>3 DEF Order
<1>5. at \in 1 .. Len(orders) /\ tree \in [Place -> Tree] /\ before \in [Place -> Tree]
  BY <1>2 DEF TransferTypeOK
<1>6. From \in Tree /\ To \in Tree
  BY <1>2, <1>4, <1>5 DEF From, To
<1> QED
  BY <1>1, <1>2, <1>4, <1>5, <1>6

\* A step of the order under way writes at its destination or nowhere.
Writes == \E t \in Tree : ToBecomes(t)

LEMMA WritesNothing == TransferTypeOK /\ UNCHANGED tree => Writes
<1> SUFFICES ASSUME TransferTypeOK, UNCHANGED tree PROVE Writes
    OBVIOUS
<1>1. To \in Tree /\ tree \in [Place -> Tree] /\ at \in DOMAIN orders
  BY OrderPlaces
<1>2. ToBecomes(To)
  BY <1>1, OrderPlaces DEF ToBecomes, To
<1> QED
  BY <1>1, <1>2 DEF Writes

\* What such a step leaves: the source, the places of other orders that are
\* alone in theirs, and those no order has come to.
LEMMA WritesKeep ==
    ASSUME TransferTypeOK, Writes, UNCHANGED <<orders, before, at>>
    PROVE  /\ tree' \in [Place -> Tree] /\ From' = From
           /\ \A q \in Place \ {orders[at].to} : tree'[q] = tree[q]
           /\ Later => Later'
           /\ Earlier => Earlier'
<1>1. PICK t \in Tree : tree' = [tree EXCEPT ![orders[at].to] = t]
  BY DEF Writes, ToBecomes
<1>2. tree' \in [Place -> Tree] /\ \A q \in Place \ {orders[at].to} : tree'[q] = tree[q]
  BY <1>1, OrderPlaces
<1>3. From' = From
  BY <1>2, OrderPlaces DEF From
<1>4. Later => Later'
  <2> SUFFICES ASSUME Later, NEW i \in DOMAIN orders,
                      \A j \in 1 .. at : orders[j].to # orders[i].to
               PROVE  tree'[orders[i].to] = before[orders[i].to]
      BY DEF Later
  <2>1. orders[i].to # orders[at].to
    BY OrderPlaces
  <2> QED
    BY <2>1, <1>2, OrderPlaces DEF Later
<1>5. Earlier => Earlier'
  <2> SUFFICES ASSUME Earlier, NEW i \in DOMAIN orders, i < at
               PROVE  Whole(i, Reachable(i))'
      BY DEF Earlier
  <2>1. CASE ~Sole(i)
    BY <2>1 DEF Whole, Sole
  <2>2. CASE Sole(i)
    <3>1. orders[at].to \notin {orders[i].from, orders[i].to}
      BY <2>2, OrderPlaces DEF Sole
    <3>2. tree'[orders[i].from] = tree[orders[i].from] /\ tree'[orders[i].to] = tree[orders[i].to]
      BY <3>1, <1>2, OrderPlaces
    <3>3. Reachable(i)' = Reachable(i)
      BY <3>2 DEF Reachable, Closed
    <3>4. Whole(i, Reachable(i))
      BY DEF Earlier
    <3> QED
      BY <3>2, <3>3, <3>4 DEF Whole, Told, Sole
  <2> QED
    BY <2>1, <2>2
<1> QED
  BY <1>2, <1>3, <1>4, <1>5

----------------------------------------------------------------------------

\* How a step can fail: unseen only as a step of a fetch no task follows.
FailsWith(r) ==
    /\ Fail(r) /\ r \in {"ok", "failed", "panic"}
    /\ r = "ok" => orders[at].kind = "download" /\ ~follows

LEMMA StepFailsWith == StepFails => \E r : FailsWith(r)
BY DEF StepFails, FailsWith

\* A step that fails ends the invocation with the invariant.
LEMMA EndsBadly ==
    ASSUME TrInv, result = "running", Writes, NEW r, FailsWith(r),
           UNCHANGED <<orders, follows, before, invocation, at>>
    PROVE  TrInv'
<1>1. TransferTypeOK /\ Later /\ Earlier
  BY DEF TrInv, UnderWay
<1>2. at \in Nat \ {0} /\ at \in DOMAIN orders
  BY <1>1, OrderPlaces
<1>3. TransferTypeOK'
  BY <1>1, <1>2, WritesKeep DEF TransferTypeOK, Fail, FailsWith
<1>4. Later' /\ Earlier'
  BY <1>1, WritesKeep
<1>5. failedAt' = at /\ at # 0 /\ result' = r
  BY <1>2 DEF Fail, FailsWith
<1>6. Failed'
  BY <1>4, <1>5 DEF Failed, FailsWith
<1>7. CopiedWhole'
  <2> SUFFICES ASSUME r = "ok", NEW i \in DOMAIN orders, orders[i].kind = "upload" \/ i < at
               PROVE  Whole(i, Reachable(i))'
      BY <1>5 DEF CopiedWhole
  <2>1. orders[at].kind = "download"
    BY DEF FailsWith
  <2>2. i < at
    BY <1>1, <1>2, <2>1, OrderPlaces
  <2> QED
    BY <2>2, <1>4 DEF Earlier
<1>8. result' # "running"
  BY <1>5 DEF FailsWith
<1> QED
  BY <1>3, <1>6, <1>7, <1>8 DEF TrInv, UnderWay

\* The trees VisitDir, CreateFile, CopyDone and CopyFails write.
LEMMA WrittenTrees ==
    ASSUME NEW t \in Tree
    PROVE  /\ \A d \in Dir : [t EXCEPT !.dirs = @ \cup {d}, !.base = TRUE] \in Tree
           /\ \A p \in File, x \in Data : [t EXCEPT !.file[p] = x] \in Tree
           /\ \A p \in File, x \in Data : [t EXCEPT !.file[p] = x, !.base = TRUE] \in Tree
BY DEF Tree

LEMMA DataKinds == Created \in Data /\ Absent \in Data /\ \A c \in Content : Part(c) \in Data
BY DEF Data

LEMMA SourceMissingStep == TrInv /\ SourceMissing => TrInv'
BY StepFailsWith, EndsBadly, WritesNothing DEF SourceMissing, Walking, TrInv

LEMMA FailureSteps ==
    ASSUME TrInv, NEW p, DirFails(p) \/ FileFails(p) \/ FileVanishes(p)
    PROVE  TrInv'
<1>1. /\ result = "running" /\ Writes /\ UNCHANGED <<orders, follows, before, invocation, at>>
  BY WritesNothing DEF DirFails, FileFails, FileVanishes, Visits, Walking, TrInv
<1>2. Fail("panic") => FailsWith("panic")
  BY DEF FailsWith
<1>3. PICK r : FailsWith(r)
  BY <1>2, StepFailsWith DEF DirFails, FileFails, FileVanishes
<1> QED
  BY <1>1, <1>3, EndsBadly

LEMMA CopyFailsStep == TrInv /\ CopyFails => TrInv'
<1> SUFFICES ASSUME TrInv, CopyFails PROVE TrInv'
    OBVIOUS
<1>1. TransferTypeOK /\ To \in Tree /\ copying \in File
  BY OrderPlaces DEF TrInv, CopyFails, TransferTypeOK
<1>2. Writes
  <2>1. CASE UNCHANGED tree
    BY <1>1, <2>1, WritesNothing
  <2>2. CASE \E c \in Content : ToBecomes([To EXCEPT !.file[copying] = Part(c)])
    BY <1>1, <2>2, WrittenTrees, DataKinds DEF Writes
  <2> QED
    BY <2>1, <2>2 DEF CopyFails
<1> QED
  BY <1>2, StepFailsWith, EndsBadly DEF CopyFails

\* A directory: what is in it has not been found before.
LEMMA VisitDirStep == ASSUME TrInv, NEW d, VisitDir(d) PROVE TrInv'
<1>1. TransferTypeOK /\ result = "running" /\ copying = None /\ d \in todo /\ d \in Dir
  BY DEF TrInv, VisitDir, Visits, Walking
<1>2. To \in Tree
  BY <1>1, OrderPlaces
<1>3. Writes /\ tree' = [tree EXCEPT ![orders[at].to] = [To EXCEPT !.dirs = @ \cup {d}, !.base = TRUE]]
  BY <1>1, <1>2, WrittenTrees DEF VisitDir, Writes, ToBecomes
<1>4. CASE StepFails
  BY <1>1, <1>3, <1>4, StepFailsWith, EndsBadly DEF VisitDir
<1>5. CASE /\ todo' = (todo \ {d}) \cup Listed(d) /\ visited' = visited \cup {d}
           /\ UNCHANGED <<result, copying, failedAt>>
  <2>1. UnderWay /\ Walked /\ Whole(at, visited \cap File) /\ Untouched /\ Earlier /\ Later
    BY <1>1 DEF TrInv, UnderWay
  <2>2. UNCHANGED <<orders, follows, before, invocation, at>>
    BY DEF VisitDir
  <2>3. /\ tree' \in [Place -> Tree] /\ From' = From /\ Later' /\ Earlier'
        /\ tree'[orders[at].from] = tree[orders[at].from]
    BY <1>1, <1>3, <2>1, <2>2, WritesKeep, OrderPlaces
  <2>4. To'.file = To.file
    BY <1>1, <1>2, <1>3, <2>2, OrderPlaces DEF To, Tree
  <2>5. Listed(d) \subseteq Below(From, d) /\ Below(From, d) \subseteq Present(From)
    BY DEF Listed, Below
  <2>6. d \in From.dirs /\ d \notin File
    BY <1>1, <2>1, TransferAssumption DEF Walked, Present, Exists
  <2>7. Below(From, d) \cap visited = {} /\ d \notin Below(From, d)
    <3>1. \A p \in Below(From, d) : ParentOf[p] = d /\ p \in Present(From) /\ ~IsRoot(From, p)
      BY <2>6 DEF Below, IsRoot
    <3>2. d \notin visited
      BY <1>1, <2>1 DEF Walked
    <3> QED
      BY <1>1, <3>1, <3>2, <2>1 DEF Walked
  <2>8. Walked'
    <3>1. todo' \subseteq Present(From)' /\ todo' \cap visited' = {}
      BY <1>1, <1>5, <2>1, <2>3, <2>5, <2>7 DEF Walked
    <3>2. Roots(From)' \subseteq todo' \cup visited'
      BY <1>5, <2>1, <2>3 DEF Walked
    <3>3. ASSUME NEW e \in (visited' \cap Dir) \ Unreadable[orders[at].from]
          PROVE  Below(From, e)' \subseteq todo' \cup visited'
      BY <1>5, <2>1, <2>2, <2>3 DEF Walked, Listed
    <3>4. ASSUME NEW p \in todo' \cup visited'
          PROVE  IsRoot(From, p)' \/ ParentOf[p] \in visited'
      <4>1. CASE p \in Listed(d)
        BY <1>5, <2>5, <4>1 DEF Below
      <4>2. CASE p \in todo \cup visited
        BY <1>5, <2>1, <2>3, <4>2 DEF Walked
      <4> QED
        BY <1>1, <1>5, <4>1, <4>2
    <3> QED
      BY <1>1, <1>5, <2>2, <2>3, <3>1, <3>2, <3>3, <3>4 DEF Walked
  <2>9. visited' \cap File = visited \cap File
    BY <1>5, <2>6
  <2>10. Whole(at, visited \cap File)'
    BY <2>1, <2>2, <2>3, <2>4, <2>9 DEF Whole, Told, Sole, To
  <2>11. Untouched'
    BY <1>5, <2>1, <2>2, <2>4, <2>6 DEF Untouched, Sole
  <2>12. TransferTypeOK'
    <3>1. Present(From) \subseteq Dir \cup File
      BY DEF Present
    <3> QED
      BY <1>1, <1>5, <2>2, <2>3, <2>5, <3>1 DEF TransferTypeOK
  <2> QED
    BY <1>1, <1>5, <2>1, <2>2, <2>3, <2>8, <2>10, <2>11, <2>12
       DEF TrInv, UnderWay, Failed, CopiedWhole
<1> QED
  BY <1>4, <1>5 DEF VisitDir

\* The walk goes on past a file.
LEMMA PastFile ==
    ASSUME TransferTypeOK, Walked, NEW p \in todo \cap File, From' = From,
           todo' = todo \ {p}, visited' = visited \cup {p}, copying' = None,
           UNCHANGED <<orders, at>>
    PROVE  Walked'
<1>1. todo' \subseteq Present(From)' /\ todo' \cap visited' = {}
  BY DEF Walked
<1>2. Roots(From)' \subseteq todo' \cup visited'
  BY DEF Walked
<1>3. p \notin Dir
  BY TransferAssumption
<1>4. ASSUME NEW e \in (visited' \cap Dir) \ Unreadable[orders[at].from]
      PROVE  Below(From, e)' \subseteq todo' \cup visited'
  BY <1>3 DEF Walked
<1>5. ASSUME NEW q \in todo' \cup visited' PROVE IsRoot(From, q)' \/ ParentOf[q] \in visited'
  BY DEF Walked
<1> QED
  BY <1>1, <1>2, <1>4, <1>5 DEF Walked

\* A file that is passed over was the source's, if its size can tell.
LEMMA SkipFileStep == ASSUME TrInv, NEW p, SkipFile(p) PROVE TrInv'
<1>1. TransferTypeOK /\ result = "running" /\ copying = None /\ p \in todo /\ p \in File
  BY DEF TrInv, SkipFile, Visits, Walking
<1>2. UnderWay /\ Walked /\ Whole(at, visited \cap File) /\ Untouched /\ Earlier /\ Later
  BY <1>1 DEF TrInv, UnderWay
<1>3. /\ todo' = todo \ {p} /\ visited' = visited \cup {p} /\ UpToDate(p)
      /\ UNCHANGED <<orders, follows, tree, before, invocation, result, at, copying, failedAt>>
  BY DEF SkipFile
<1>4. From' = From /\ Later' /\ Earlier'
  BY <1>3, <1>2 DEF From, Later, Earlier, Whole, Reachable, Closed, Told, Sole
<1>5. Walked'
  BY <1>1, <1>2, <1>3, <1>4, PastFile
<1>6. Whole(at, visited \cap File)'
  <2> SUFFICES ASSUME Sole(at), NEW q \in (visited \cup {p}) \cap File,
                      q \notin Junk \/ orders[at].local, Told(at, q)
               PROVE  tree[orders[at].to].file[q] = tree[orders[at].from].file[q]
      BY <1>3 DEF Whole, Told, Sole
  <2>1. CASE q \in visited
    BY <2>1, <1>2 DEF Whole
  <2>2. CASE q = p
    <3>1. p \notin visited /\ p # copying
      BY <1>1, <1>2, TransferAssumption DEF Walked
    <3>2. To.file[p] = before[orders[at].to].file[p]
      BY <1>1, <1>2, <3>1 DEF Untouched
    <3>3. Kind # "copy" /\ To.file[p] # Absent /\ Size(To.file[p]) = Size(From.file[p])
      BY <1>3, <2>2 DEF UpToDate, Kind
    <3> QED
      BY <2>2, <3>2, <3>3 DEF Told, To, From, Kind
  <2> QED
    BY <2>1, <2>2
<1>7. Untouched'
  BY <1>1, <1>2, <1>3 DEF Untouched, Sole, To
<1>8. TransferTypeOK'
  BY <1>1, <1>3 DEF TransferTypeOK, To
<1> QED
  BY <1>1, <1>2, <1>3, <1>4, <1>5, <1>6, <1>7, <1>8 DEF TrInv, UnderWay, Failed, CopiedWhole

LEMMA CreateFileStep == ASSUME TrInv, NEW p, CreateFile(p) PROVE TrInv'
<1>1. TransferTypeOK /\ result = "running" /\ copying = None /\ p \in todo /\ p \in File
  BY DEF TrInv, CreateFile, Visits, Walking
<1>2. UnderWay /\ Walked /\ Whole(at, visited \cap File) /\ Untouched /\ Earlier /\ Later
  BY <1>1 DEF TrInv, UnderWay
<1>3. /\ copying' = p
      /\ UNCHANGED <<orders, follows, before, invocation, result, at, todo, visited, failedAt>>
  BY DEF CreateFile
<1>4. To \in Tree /\ [To EXCEPT !.file[p] = Created, !.base = TRUE] \in Tree
  BY <1>1, OrderPlaces, WrittenTrees, DataKinds
<1>5. ToBecomes([To EXCEPT !.file[p] = Created, !.base = TRUE])
  BY DEF CreateFile
<1>6. Writes
  BY <1>4, <1>5 DEF Writes
<1>7. tree' \in [Place -> Tree] /\ From' = From /\ Later' /\ Earlier'
  BY <1>1, <1>2, <1>3, <1>6, WritesKeep
<1>8. To' = [To EXCEPT !.file[p] = Created, !.base = TRUE]
  BY <1>1, <1>3, <1>5, OrderPlaces DEF To, ToBecomes
<1>9. To'.file[p] = Created /\ \A q \in File \ {p} : To'.file[q] = To.file[q]
  BY <1>1, <1>4, <1>8 DEF Tree
<1>10. Walked'
  BY <1>1, <1>2, <1>3, <1>7 DEF Walked
<1>11. Whole(at, visited \cap File)'
  BY <1>1, <1>2, <1>3, <1>7, <1>9 DEF Whole, Told, Sole, To, From, Walked
<1>12. Untouched'
  BY <1>1, <1>2, <1>3, <1>9, TransferAssumption DEF Untouched, Sole
<1>13. TransferTypeOK'
  BY <1>1, <1>3, <1>7, <1>9 DEF TransferTypeOK
<1> QED
  BY <1>1, <1>2, <1>3, <1>7, <1>10, <1>11, <1>12, <1>13
     DEF TrInv, UnderWay, Failed, CopiedWhole

LEMMA CopyDoneStep == TrInv /\ CopyDone => TrInv'
<1> SUFFICES ASSUME TrInv, CopyDone PROVE TrInv'
    OBVIOUS
<1>1. TransferTypeOK /\ result = "running" /\ copying \in File
  BY DEF TrInv, CopyDone, TransferTypeOK
<1>2. UnderWay /\ Walked /\ Whole(at, visited \cap File) /\ Untouched /\ Earlier /\ Later
  BY <1>1 DEF TrInv, UnderWay
<1>3. /\ todo' = todo \ {copying} /\ visited' = visited \cup {copying} /\ copying' = None
      /\ UNCHANGED <<orders, follows, before, invocation, result, at, failedAt>>
  BY DEF CopyDone
<1>4. copying \in todo
  BY <1>1, <1>2, TransferAssumption DEF Walked
<1>5. To \in Tree /\ From \in Tree /\ From.file[copying] \in Data
  BY <1>1, OrderPlaces DEF Tree
<1>6. [To EXCEPT !.file[copying] = From.file[copying]] \in Tree
  BY <1>1, <1>5, WrittenTrees
<1>7. ToBecomes([To EXCEPT !.file[copying] = From.file[copying]])
  BY DEF CopyDone
<1>8. Writes
  BY <1>6, <1>7 DEF Writes
<1>9. tree' \in [Place -> Tree] /\ From' = From /\ Later' /\ Earlier'
  BY <1>1, <1>2, <1>3, <1>8, WritesKeep
<1>10. To' = [To EXCEPT !.file[copying] = From.file[copying]]
  BY <1>1, <1>3, <1>7, OrderPlaces DEF To, ToBecomes
<1>11. /\ To'.file[copying] = From.file[copying]
       /\ \A q \in File \ {copying} : To'.file[q] = To.file[q]
  BY <1>1, <1>5, <1>10 DEF Tree
<1>12. Walked'
  BY <1>1, <1>2, <1>3, <1>4, <1>9, PastFile
<1>13. Whole(at, visited \cap File)'
  <2> SUFFICES ASSUME Sole(at)', NEW q \in (visited \cup {copying}) \cap File,
                      (q \notin Junk \/ orders[at].local)', Told(at, q)'
               PROVE  To'.file[q] = From'.file[q]
      BY <1>3 DEF Whole, To, From
  <2>1. CASE q = copying
    BY <2>1, <1>9, <1>11
  <2>2. CASE q \in visited /\ q # copying
    <3>1. Sole(at) /\ Told(at, q)
      BY <1>3, <1>9 DEF Sole, Told, From
    <3>2. To.file[q] = From.file[q]
      BY <1>2, <1>3, <2>2, <3>1 DEF Whole, To, From
    <3> QED
      BY <2>2, <3>2, <1>9, <1>11
  <2> QED
    BY <2>1, <2>2
<1>14. Untouched'
  BY <1>1, <1>2, <1>3, <1>11 DEF Untouched, Sole
<1>15. TransferTypeOK'
  BY <1>1, <1>3, <1>9 DEF TransferTypeOK
<1> QED
  BY <1>1, <1>2, <1>3, <1>9, <1>12, <1>13, <1>14, <1>15
     DEF TrInv, UnderWay, Failed, CopiedWhole

----------------------------------------------------------------------------

\* A walk that has nothing left to visit has visited what can be reached.
LEMMA WalkEnds ==
    ASSUME TransferTypeOK, Walked, todo = {}, Whole(at, visited \cap File)
    PROVE  Whole(at, Reachable(at))
<1>1. visited \in SUBSET (Dir \cup File) /\ Roots(tree[orders[at].from]) \subseteq visited
  BY DEF TransferTypeOK, Walked, From
<1>2. Closed(at, visited)
  BY DEF Walked, Closed, From
<1>3. Reachable(at) \subseteq visited \cap File
  BY <1>1, <1>2 DEF Reachable
<1> QED
  BY <1>3 DEF Whole

\* What an order finds when it is begun.
LEMMA OrderBegins ==
    ASSUME TransferTypeOK', copying' = None, visited' = {}, todo' = Roots(From)'
    PROVE  Walked' /\ Whole(at, visited \cap File)'
<1>1. \A p \in Roots(From)' : IsRoot(From, p)' /\ p \in Present(From)'
  BY DEF Roots
<1> QED
  BY <1>1 DEF Walked, Whole

LEMMA RootsTyped == \A t : Roots(t) \subseteq Dir \cup File
BY DEF Roots, Present

LEMMA OrderDoneStep == TrInv /\ OrderDone => TrInv'
<1> SUFFICES ASSUME TrInv, OrderDone PROVE TrInv'
    OBVIOUS
<1>1. TransferTypeOK /\ result = "running" /\ copying = None /\ todo = {} /\ at < Len(orders)
  BY DEF TrInv, OrderDone, Walking
<1>2. UnderWay /\ failedAt = 0 /\ Walked /\ Whole(at, visited \cap File) /\ Earlier /\ Later
  BY <1>1 DEF TrInv, UnderWay
<1>3. /\ at' = at + 1 /\ visited' = {} /\ todo' = Roots(tree[orders[at + 1].from])
      /\ UNCHANGED <<orders, follows, tree, before, invocation, result, copying, failedAt>>
  BY DEF OrderDone
<1>4. at \in Nat /\ at + 1 \in DOMAIN orders /\ DOMAIN orders = 1 .. Len(orders) /\ at \in DOMAIN orders
  BY <1>1, OrderPlaces
<1>5. TransferTypeOK'
  BY <1>1, <1>2, <1>3, <1>4, RootsTyped DEF TransferTypeOK
<1>6. Walked' /\ Whole(at, visited \cap File)'
  BY <1>1, <1>3, <1>5, OrderBegins DEF From
<1>7. Whole(at, Reachable(at))
  BY <1>1, <1>2, WalkEnds
<1>8. Earlier'
  <2> SUFFICES ASSUME NEW i \in DOMAIN orders, i < at + 1 PROVE Whole(i, Reachable(i))
      BY <1>3 DEF Earlier, Whole, Reachable, Closed, Told, Sole
  <2>1. i < at \/ i = at
    BY <1>4
  <2> QED
    BY <2>1, <1>2, <1>7 DEF Earlier
<1>9. Later'
  BY <1>2, <1>3, <1>4 DEF Later
<1>10. Untouched'
  <2> SUFFICES ASSUME Sole(at + 1)
               PROVE  tree[orders[at + 1].to] = before[orders[at + 1].to]
      BY <1>3 DEF Untouched, Sole, To
  <2>1. \A j \in 1 .. at : j \in DOMAIN orders /\ j # at + 1
    BY <1>4
  <2>2. \A j \in 1 .. at : orders[j].to # orders[at + 1].to
    BY <2>1 DEF Sole
  <2> QED
    BY <2>2, <1>2, <1>4 DEF Later
<1> QED
  BY <1>1, <1>2, <1>3, <1>5, <1>6, <1>8, <1>9, <1>10 DEF TrInv, UnderWay, Failed, CopiedWhole

LEMMA AllDoneStep == TrInv /\ AllDone => TrInv'
<1> SUFFICES ASSUME TrInv, AllDone PROVE TrInv'
    OBVIOUS
<1>1. TransferTypeOK /\ result = "running" /\ copying = None /\ todo = {} /\ at = Len(orders)
  BY DEF TrInv, AllDone, Walking
<1>2. UnderWay /\ failedAt = 0 /\ Walked /\ Whole(at, visited \cap File) /\ Earlier
  BY <1>1 DEF TrInv, UnderWay
<1>3. /\ result' = "ok"
      /\ UNCHANGED <<orders, follows, tree, before, invocation, at, todo, copying, visited, failedAt>>
  BY DEF AllDone
<1>4. DOMAIN orders = 1 .. at /\ at \in Nat
  BY <1>1, OrderPlaces
<1>5. Whole(at, Reachable(at))
  BY <1>1, <1>2, WalkEnds
<1>6. \A i \in DOMAIN orders : Whole(i, Reachable(i))
  BY <1>2, <1>4, <1>5 DEF Earlier
<1>7. CopiedWhole'
  BY <1>3, <1>6 DEF CopiedWhole, Whole, Reachable, Closed, Told, Sole
<1>8. TransferTypeOK'
  BY <1>1, <1>3 DEF TransferTypeOK, To
<1> QED
  BY <1>2, <1>3, <1>7, <1>8 DEF TrInv, UnderWay, Failed

LEMMA InvokeStep == TrInv /\ Invoke => TrInv'
<1> SUFFICES ASSUME TrInv, Invoke PROVE TrInv'
    OBVIOUS
<1>1. TransferTypeOK /\ tree \in [Place -> Tree] /\ 1 \in DOMAIN orders /\ orders[1].from \in Place
      /\ DOMAIN orders = 1 .. Len(orders) /\ Len(orders) \in Nat
  BY OrderPlaces DEF TrInv
<1>2. /\ invocation < MaxInvocation /\ invocation' = invocation + 1
      /\ orders' = orders /\ follows' = follows
      /\ before' = tree' /\ result' = "running" /\ at' = 1 /\ visited' = {}
      /\ todo' = Roots(tree'[orders[1].from]) /\ copying' = None /\ failedAt' = 0
  BY DEF Invoke
<1>3. \A c \in Content : <<"all", c>> \in Data
  BY DEF Data
<1>4. ASSUME Edit PROVE tree' \in [Place -> Tree]
  <2> DEFINE s == orders[1].from
  <2>1. CASE UNCHANGED tree
    BY <1>1, <2>1
  <2>2. CASE \E p \in File, c \in Content : tree' = [tree EXCEPT ![s].file[p] = <<"all", c>>]
    <3>1. PICK p \in File, c \in Content : tree' = [tree EXCEPT ![s].file[p] = <<"all", c>>]
      BY <2>2
    <3>2. [tree[s] EXCEPT !.file[p] = <<"all", c>>] \in Tree
      BY <1>1, <1>3, WrittenTrees
    <3>3. tree' = [tree EXCEPT ![s] = [tree[s] EXCEPT !.file[p] = <<"all", c>>]]
      BY <3>1
    <3> QED
      BY <1>1, <3>2, <3>3
  <2> QED
    BY <1>4, <2>1, <2>2 DEF Edit
<1>5. tree' \in [Place -> Tree]
  BY <1>1, <1>4 DEF Invoke
<1>6. invocation' \in 0 .. MaxInvocation /\ invocation' > 0
  BY <1>1, <1>2, TransferAssumption DEF TransferTypeOK
<1>7. TransferTypeOK'
  BY <1>1, <1>2, <1>5, <1>6, RootsTyped DEF TransferTypeOK
<1>8. Walked' /\ Whole(at, visited \cap File)'
  BY <1>2, <1>7, OrderBegins DEF From
<1>9. Untouched' /\ Later'
  BY <1>2 DEF Untouched, Later, To
<1>10. Earlier'
  BY <1>1, <1>2 DEF Earlier
<1> QED
  BY <1>2, <1>6, <1>7, <1>8, <1>9, <1>10 DEF TrInv, UnderWay, Failed, CopiedWhole

LEMMA TrInvInit == TrInit => TrInv
<1> SUFFICES ASSUME TrInit PROVE TrInv
    OBVIOUS
<1>1. orders \in Orders /\ orders \in Seq(Order) /\ orders # <<>>
  BY TransferAssumption DEF TrInit
<1>2. 1 \in DOMAIN orders
  BY <1>1, EmptySeq, LenProperties
<1>3. tree \in [Place -> Tree] /\ before \in [Place -> Tree]
  BY TransferAssumption DEF TrInit
<1> QED
  BY <1>1, <1>2, <1>3, TransferAssumption
     DEF TrInit, TrInv, TransferTypeOK, UnderWay, Failed, CopiedWhole

LEMMA TrInvStutter == TrInv /\ UNCHANGED trVars => TrInv'
<1> SUFFICES ASSUME TrInv, UNCHANGED trVars PROVE TrInv'
    OBVIOUS
<1>1. TransferTypeOK'
  BY DEF trVars, TrInv, TransferTypeOK, To
<1>2. \A i, P : Whole(i, P) => Whole(i, P)'
  BY DEF trVars, Whole, Told, Sole
<1>3. \A i : Reachable(i)' = Reachable(i)
  BY DEF trVars, Reachable, Closed
<1>4. Earlier => Earlier'
  BY <1>2, <1>3 DEF trVars, Earlier
<1>5. (Later => Later') /\ (Walked => Walked') /\ (Untouched => Untouched')
  BY DEF trVars, Later, Walked, Untouched, Sole, From, To
<1>6. CopiedWhole'
  BY <1>2, <1>3 DEF trVars, TrInv, CopiedWhole
<1>7. UnderWay'
  BY <1>2, <1>4, <1>5 DEF trVars, TrInv, UnderWay
<1>8. Failed'
  BY <1>5 DEF trVars, TrInv, Failed
<1> QED
  BY <1>1, <1>6, <1>7, <1>8 DEF TrInv

LEMMA TrInvStep == TrInv /\ [TrNext]_trVars => TrInv'
BY InvokeStep, SourceMissingStep, CopyDoneStep, CopyFailsStep, OrderDoneStep, AllDoneStep,
   VisitDirStep, FailureSteps, SkipFileStep, CreateFileStep, TrInvStutter
   DEF TrNext, Over

\* TrInv holds in every state of every series of invocations: at any point of a
\* walk what has been visited has arrived (src/gateway/ssh/upload.go:178-281).
THEOREM Invariance == TrSpec => []TrInv
BY TrInvInit, TrInvStep, PTL DEF TrSpec

\* The variables keep their types, and a file that is being written exists.
THEOREM TransferTypes == TrSpec => []TransferTypeOK
<1>1. TrInv => TransferTypeOK
  BY DEF TrInv
<1> QED
  BY <1>1, Invariance, PTL

\* An invocation that ends with status 0 has copied every file its uploads can
\* reach, and every file of the fetches before one that failed unreported
\* (src/usecase/run.go:306-309); if none failed, of all.
THEOREM SuccessCopies == TrSpec => []CopiedWhole
<1>1. TrInv => CopiedWhole
  BY DEF TrInv
<1> QED
  BY <1>1, Invariance, PTL

\* A failed step ends the walk before any later order has written, and the
\* invocation with an error, unless it is of a fetch that no task of the play
\* follows (src/usecase/run.go:218, 306).
THEOREM FailureEnds == TrSpec => []FailureStops
<1>1. TrInv => FailureStops
  BY DEF TrInv, Failed, Later, FailureStops
<1> QED
  BY <1>1, Invariance, PTL

\* A file that has arrived is not opened for writing again.
LEMMA ArrivedKept ==
    ASSUME TrInv, [TrNext]_trVars, NEW p \in File, result = "running", Kind # "copy",
           To.file[p] = From.file[p], copying # p
    PROVE  tree'[orders[at].to].file[p] = To.file[p]
<1>1. TransferTypeOK /\ Walked /\ To \in Tree /\ tree \in [Place -> Tree]
      /\ orders[at].to \in Place
  BY OrderPlaces DEF TrInv, UnderWay
<1>2. CASE UNCHANGED tree
  BY <1>2 DEF To
<1>3. CASE \E d \in todo : VisitDir(d)
  BY <1>1, <1>3 DEF VisitDir, ToBecomes, To, Tree
<1>4. ASSUME NEW q \in todo, CreateFile(q) PROVE tree'[orders[at].to].file[p] = To.file[p]
  <2>1. q # p
    <3> SUFFICES ASSUME q = p PROVE FALSE
        OBVIOUS
    <3>1. From.file[p] # Absent
      BY <1>1, TransferAssumption DEF Walked, Present, Exists
    <3>2. ~UpToDate(p)
      BY <1>4 DEF CreateFile
    <3> QED
      BY <3>1, <3>2 DEF UpToDate
  <2>2. q \in File /\ ToBecomes([To EXCEPT !.file[q] = Created, !.base = TRUE])
    BY <1>4 DEF CreateFile
  <2>3. tree'[orders[at].to] = [To EXCEPT !.file[q] = Created, !.base = TRUE]
    BY <1>1, <2>2 DEF ToBecomes
  <2> QED
    BY <1>1, <2>1, <2>3 DEF Tree
<1>5. CASE \E x : ToBecomes([To EXCEPT !.file[copying] = x])
  <2>1. PICK x : tree'[orders[at].to] = [To EXCEPT !.file[copying] = x]
    BY <1>1, <1>5 DEF ToBecomes
  <2> QED
    BY <1>1, <2>1 DEF Tree
<1>6. Invoke => FALSE
  BY DEF Invoke
<1>7. CASE CopyDone \/ CopyFails
  BY <1>2, <1>5, <1>7 DEF CopyDone, CopyFails
<1> QED
  BY <1>2, <1>3, <1>4, <1>6, <1>7
     DEF TrNext, trVars, SourceMissing, OrderDone, AllDone, Over, DirFails, SkipFile,
         FileFails, FileVanishes

\* No upload or fetch opens for writing a file that is whole at its destination
\* (src/gateway/ssh/upload.go:249, src/gateway/ssh/download.go:112).
THEOREM ArrivedStays == TrSpec => WholeStaysWhole
<1> DEFINE Keeps == \A p \in File :
                      ( /\ result = "running" /\ Kind # "copy"
                        /\ To.file[p] = From.file[p] /\ copying # p )
                      => tree'[orders[at].to].file[p] = To.file[p]
<1>1. TrInv /\ [TrNext]_trVars => Keeps
  BY ArrivedKept
<1> QED
  BY <1>1, Invariance, PTL DEF TrSpec, WholeStaysWhole
=============================================================================
