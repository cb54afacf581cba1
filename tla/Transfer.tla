------------------------------- MODULE Transfer -------------------------------
(***************************************************************************)
(* The upload and fetch orders of one task, for one client after the other *)
(* (handleUploads, handleDownloads, src/usecase/run.go:316-338): what the  *)
(* walk over a tree of files copies, leaves out and leaves behind when it  *)
(* fails, what becomes of the invocation then, and what the next one makes *)
(* of that.  An upload is doUpload (src/gateway/ssh/upload.go:178-281), a  *)
(* download is downloadDir (src/gateway/ssh/download.go:71-141); for a     *)
(* client on this machine both are copyPath                                *)
(* (src/gateway/localhost/localhost.go:397-486).  Symbolic links, modes    *)
(* and the substitution of variables in paths are left out.                *)
(***************************************************************************)
EXTENDS Integers, Sequences, FiniteSets

CONSTANTS
    Place,        \* where trees are: a directory here or on a host, "dst@host"
    Dir, File,    \* paths below it, "." the root
    ParentOf,     \* the directory of a path; of "." none
    Junk,         \* files named .DS_Store
    Unreadable,   \* directories that cannot be listed, by place
    Content, SizeOf,
    PartSize,     \* of what an interrupted copy leaves
    Trees,        \* what is there at the start
    Orders,       \* the orders of the task
    MayFail,      \* "mkdir", "open", "create", "copy", "vanish"
    MaxInvocation \* bound: invocations

Absent == <<"absent">>
Created == <<"created">>
Part(c) == <<"part", c>>
Data == {<<"all", c>> : c \in Content} \cup {Part(c) : c \in Content} \cup {Absent, Created}
Size(x) ==
    CASE x = Created -> 0
      [] x[1] = "part" -> PartSize[x[2]]
      [] x[1] = "all" -> SizeOf[x[2]]

\* base: the directory the tree is in exists.
Tree == [base : BOOLEAN, dirs : SUBSET Dir, file : [File -> Data]]
\* local: the client is on this machine.
Order == [kind : {"upload", "download"}, local : BOOLEAN, from : Place, to : Place]

None == "none"

ASSUME TransferAssumption ==
    /\ "." \in Dir /\ Dir \cap File = {} /\ None \notin File
    /\ ParentOf \in [(Dir \ {"."}) \cup File -> Dir]
    /\ Junk \subseteq File /\ Unreadable \in [Place -> SUBSET Dir]
    /\ SizeOf \in [Content -> Nat \ {0}] /\ PartSize \in [Content -> Nat]
    /\ \A c \in Content : PartSize[c] < SizeOf[c]
    /\ Trees \subseteq [Place -> Tree]
    /\ \A o \in Orders : o \in Seq(Order) /\ o # <<>>
    /\ \A o \in Orders : \A i \in DOMAIN o : o[i].from # o[i].to
    \* A task uploads before its command and fetches after it.
    /\ \A o \in Orders : \A i, j \in DOMAIN o :
          (i < j /\ o[i].kind = "download") => o[j].kind = "download"
    /\ MayFail \subseteq {"mkdir", "open", "create", "copy", "vanish"}
    /\ MaxInvocation \in Nat \ {0}

VARIABLES
    orders,     \* of the task, over its clients
    follows,    \* another task of the play comes after this one
    tree,       \* what each place holds
    before,     \* what it held when the invocation began
    invocation, \* how many there have been
    result,     \* of the last one
    at,         \* index of the order under way
    todo,       \* paths the walk has still to visit
    copying,    \* the file that has been created and is being written
    visited,    \* history: those it has visited
    failedAt    \* history: the order that failed, 0 for none

trVars == <<orders, follows, tree, before, invocation, result, at, todo, copying, visited, failedAt>>

TrInit ==
    /\ orders \in Orders /\ follows \in BOOLEAN /\ tree \in Trees
    /\ before = tree /\ invocation = 0 /\ result = "ok"
    /\ at = 1 /\ todo = {} /\ copying = None /\ visited = {} /\ failedAt = 0

From == tree[orders[at].from]
To == tree[orders[at].to]
Kind == IF orders[at].local THEN "copy" ELSE orders[at].kind
ToBecomes(t) == tree' = [tree EXCEPT ![orders[at].to] = t]

Exists(t, p) == IF p \in Dir THEN p \in t.dirs ELSE t.file[p] # Absent
Present(t) == {p \in Dir \cup File : Exists(t, p)}
\* A tree that is one file has no directory.
IsRoot(t, p) == p = "." \/ (p \in File /\ t.dirs = {})
Roots(t) == {p \in Present(t) : IsRoot(t, p)}
Below(t, d) == {p \in Present(t) \ {"."} : ParentOf[p] = d}

----------------------------------------------------------------------------

\* Mutant of Fail: the walk is not given up.
FailWalksOn(r) == result' = r /\ copying' = None /\ failedAt' = at /\ UNCHANGED <<todo, visited>>
Fail(r) ==
    result' = r /\ todo' = {} /\ copying' = None /\ failedAt' = at /\ UNCHANGED visited

\* A failed upload leaves a client without its command, which fails at the wait.
\* A failed fetch comes after the wait: it cancels the context and runTask
\* returns nil, so only a later task of the play, whose clients are all skipped
\* and fail at their wait, makes it an error.
StepFails == Fail(IF orders[at].kind = "download" /\ ~follows THEN "ok" ELSE "failed")

\* Between two invocations a file of a source may have been edited.
Edit ==
    \/ UNCHANGED tree
    \/ \E p \in File, c \in Content :
          /\ tree[orders[1].from].file[p] # Absent
          /\ tree' = [tree EXCEPT ![orders[1].from].file[p] = <<"all", c>>]

Invoke ==
    /\ result # "running" /\ invocation < MaxInvocation
    /\ invocation' = invocation + 1
    /\ IF invocation = 0 THEN UNCHANGED tree ELSE Edit
    /\ before' = tree' /\ result' = "running" /\ at' = 1
    /\ todo' = Roots(tree'[orders[1].from]) /\ visited' = {}
    /\ copying' = None /\ failedAt' = 0
    /\ UNCHANGED <<orders, follows>>

Walking == result = "running" /\ copying = None
Visits(p) == Walking /\ p \in todo

\* os.Stat, Walk or Lstat of the source.
SourceMissing ==
    /\ Walking /\ Present(From) = {}
    /\ StepFails
    /\ UNCHANGED <<orders, follows, tree, before, invocation, at>>

Listed(d) == IF d \in Unreadable[orders[at].from] THEN {} ELSE Below(From, d)

\* filepath.Walk hands the error of a directory it cannot list to a callback
\* that drops it: doUpload makes an empty directory and goes on.
VisitDir(d) ==
    /\ Visits(d) /\ d \in Dir
    /\ ToBecomes([To EXCEPT !.dirs = @ \cup {d}, !.base = TRUE])
    /\ IF Kind # "upload" /\ d \in Unreadable[orders[at].from]
         THEN StepFails
         ELSE /\ todo' = (todo \ {d}) \cup Listed(d) /\ visited' = visited \cup {d}
              /\ UNCHANGED <<result, copying, failedAt>>
    /\ UNCHANGED <<orders, follows, before, invocation, at>>

DirFails(d) ==
    /\ Visits(d) /\ d \in Dir /\ "mkdir" \in MayFail
    /\ StepFails
    /\ UNCHANGED <<orders, follows, tree, before, invocation, at>>

\* Mutant of UpToDate: a file that is there will do.
UpToDateIfThere(p) ==
    Kind # "copy" /\ (p \in Junk \/ To.file[p] # Absent)
\* Mutant of UpToDate: every file is copied again.
UpToDateNever(p) == Kind # "copy" /\ p \in Junk
\* .DS_Store is skipped, and a file of the same size counts as the same; a
\* client on this machine copies everything.
UpToDate(p) ==
    Kind # "copy" /\ (p \in Junk \/ (To.file[p] # Absent /\ Size(To.file[p]) = Size(From.file[p])))

SkipFile(p) ==
    /\ Visits(p) /\ p \in File /\ UpToDate(p)
    /\ todo' = todo \ {p} /\ visited' = visited \cup {p}
    /\ UNCHANGED <<orders, follows, tree, before, invocation, result, at, copying, failedAt>>

\* The directory a single file goes to is made for it, but not by downloadDir.
HasParent(p) == IF IsRoot(From, p) THEN To.base \/ Kind # "download" ELSE ParentOf[p] \in To.dirs

CreateFile(p) ==
    /\ Visits(p) /\ p \in File /\ ~UpToDate(p) /\ HasParent(p)
    /\ ToBecomes([To EXCEPT !.file[p] = Created, !.base = TRUE])
    /\ copying' = p
    /\ UNCHANGED <<orders, follows, before, invocation, result, at, todo, visited, failedAt>>

FileFails(p) ==
    /\ Visits(p) /\ p \in File /\ ~UpToDate(p)
    /\ {"open", "create"} \cap MayFail # {} \/ ~HasParent(p)
    /\ StepFails
    /\ UNCHANGED <<orders, follows, tree, before, invocation, at>>

\* A file that is gone when it is looked at again: doUpload's callback uses the
\* nil FileInfo, the others return an error.
FileVanishes(p) ==
    /\ Visits(p) /\ "vanish" \in MayFail
    /\ ~IsRoot(From, p)
    /\ IF Kind = "upload" THEN Fail("panic") ELSE StepFails
    /\ UNCHANGED <<orders, follows, tree, before, invocation, at>>

CopyDone ==
    /\ result = "running" /\ copying # None
    /\ ToBecomes([To EXCEPT !.file[copying] = From.file[copying]])
    /\ todo' = todo \ {copying} /\ visited' = visited \cup {copying} /\ copying' = None
    /\ UNCHANGED <<orders, follows, before, invocation, result, at, failedAt>>

\* Mutant of CopyFails: the error of io.Copy is dropped.
CopyFailsUnseen ==
    /\ result = "running" /\ copying # None /\ "copy" \in MayFail
    /\ todo' = todo \ {copying} /\ visited' = visited \cup {copying} /\ copying' = None
    /\ failedAt' = at
    /\ UNCHANGED <<orders, follows, tree, before, invocation, result, at>>

\* What has been written stays.
CopyFails ==
    /\ result = "running" /\ copying # None /\ "copy" \in MayFail
    /\ \/ UNCHANGED tree
       \/ \E c \in Content : /\ From.file[copying] = <<"all", c>>
                             /\ ToBecomes([To EXCEPT !.file[copying] = Part(c)])
    /\ StepFails
    /\ UNCHANGED <<orders, follows, before, invocation, at>>

OrderDone ==
    /\ Walking /\ todo = {} /\ Present(From) # {} /\ at < Len(orders)
    /\ at' = at + 1
    /\ todo' = Roots(tree[orders[at + 1].from]) /\ visited' = {}
    /\ UNCHANGED <<orders, follows, tree, before, invocation, result, copying, failedAt>>

AllDone ==
    /\ Walking /\ todo = {} /\ Present(From) # {} /\ at = Len(orders)
    /\ result' = "ok"
    /\ UNCHANGED <<orders, follows, tree, before, invocation, at, todo, copying, visited, failedAt>>

Over == result # "running" /\ invocation = MaxInvocation /\ UNCHANGED trVars

TrNext ==
    \/ Invoke \/ SourceMissing \/ CopyDone \/ CopyFails \/ OrderDone \/ AllDone \/ Over
    \/ \E p \in todo : \/ VisitDir(p) \/ DirFails(p) \/ SkipFile(p)
                       \/ CreateFile(p) \/ FileFails(p) \/ FileVanishes(p)

TrSpec == TrInit /\ [][TrNext]_trVars

----------------------------------------------------------------------------

TransferTypeOK ==
    /\ orders \in Orders /\ follows \in BOOLEAN
    /\ {tree, before} \subseteq [Place -> Tree]
    /\ invocation \in 0 .. MaxInvocation
    /\ result \in {"ok", "running", "failed", "panic"}
    /\ at \in DOMAIN orders
    /\ {todo, visited} \subseteq SUBSET (Dir \cup File) /\ copying \in File \cup {None}
    /\ copying # None => To.file[copying] = Created
    /\ result # "running" => todo = {} /\ copying = None
    /\ failedAt \in 0 .. at

\* No other order writes where this one reads or writes.
Sole(i) == \A j \in DOMAIN orders \ {i} : orders[j].to \notin {orders[i].from, orders[i].to}

\* What a walk reaches from the root, through directories that can be listed.
Closed(i, S) ==
    LET t == tree[orders[i].from] IN
    \A d \in (S \cap Dir) \ Unreadable[orders[i].from] : Below(t, d) \subseteq S
Reachable(i) ==
    {p \in File : \A S \in SUBSET (Dir \cup File) :
                     (Roots(tree[orders[i].from]) \subseteq S /\ Closed(i, S)) => p \in S}

\* What lay at the destination when the invocation began cannot be taken for
\* the source's file: it is this file, or has another size.
Told(i, p) ==
    LET old == before[orders[i].to].file[p] new == tree[orders[i].from].file[p] IN
    orders[i].local \/ old = Absent \/ old = new \/ Size(old) # Size(new)

\* The files of P have arrived by order i, as far as it promises it.
Whole(i, P) ==
    \A p \in P :
        (Sole(i) /\ (p \notin Junk \/ orders[i].local) /\ Told(i, p)) =>
            tree[orders[i].to].file[p] = tree[orders[i].from].file[p]

\* When an invocation has reported no failure every file of every upload is at
\* its destination, whole, also where an earlier invocation was interrupted in
\* it (src/gateway/ssh/upload.go:249, src/gateway/ssh/download.go:112), unless a
\* different file of the same size was there; .DS_Store is left out, and so is
\* what is in a directory that cannot be listed.  Of the fetches it holds for
\* all if none failed and for those before the first that failed: the failure of
\* a fetch that no task of the play follows is not reported
\* (src/usecase/run.go:306-309), and what it left is all there is.
CopiedWhole ==
    (result = "ok" /\ invocation > 0) =>
        \A i \in DOMAIN orders :
            (failedAt = 0 \/ orders[i].kind = "upload" \/ i < failedAt) => Whole(i, Reachable(i))

\* A step that failed ends the walk, whatever it had left to do: the places of
\* the orders that come later, of this client and of others, are as they were
\* (src/usecase/run.go:218, 306), and the invocation ends with an error if the
\* step was one of an upload or another task of the play follows.
FailureStops ==
    failedAt # 0 =>
        /\ result # "running"
        /\ orders[failedAt].kind = "upload" \/ follows => result \in {"failed", "panic"}
        /\ \A i \in DOMAIN orders :
             (\A j \in 1 .. failedAt : orders[j].to # orders[i].to) =>
                 tree[orders[i].to] = before[orders[i].to]

\* To run an upload or a fetch again puts no file at risk that has arrived: one
\* that is whole is not opened for writing, and so a failure cannot cut it
\* (src/gateway/ssh/upload.go:249).  Copies on this machine do not promise it.
WholeStaysWhole ==
    [][\A p \in File :
          ( /\ result = "running" /\ Kind # "copy"
            /\ To.file[p] = From.file[p] /\ copying # p )
          => tree'[orders[at].to].file[p] = To.file[p]]_trVars
=============================================================================
