----------------------------- MODULE MCTransfer -----------------------------
(* Trees of a root, one directory and three files, one of them .DS_Store, on *)
(* this machine and on two hosts; versions of a file of equal sizes, and one *)
(* whose size is that of an interrupted copy of another.                     *)
EXTENDS Transfer, TLC

MCPlace == {"src", "host1", "host2", "dst@host1", "dst@host2", "copy", "locked"}
MCDir == {".", "d"}
MCFile == {"a", "d/b", "d/.DS_Store"}
MCParentOf == ("d" :> ".") @@ ("a" :> ".") @@ ("d/b" :> "d") @@ ("d/.DS_Store" :> "d")
MCUnreadable == [p \in MCPlace |-> IF p = "locked" THEN {"d"} ELSE {}]
MCSizeOf == ("v1" :> 2) @@ ("v2" :> 2) @@ ("tiny" :> 1)
MCPartSize == ("v1" :> 1) @@ ("v2" :> 1) @@ ("tiny" :> 0)

all(c) == <<"all", c>>
empty == [base |-> FALSE, dirs |-> {}, file |-> [f \in MCFile |-> Absent]]
home == [empty EXCEPT !.base = TRUE]
full == [base |-> TRUE, dirs |-> MCDir, file |-> [f \in MCFile |-> all("v1")]]
single == [home EXCEPT !.file["a"] = all("tiny")]
stale == [home EXCEPT !.dirs = {"."}, !.file["a"] = all("v2")]

At(src, other) ==
    [p \in MCPlace |-> CASE p = "src" -> src [] p = "locked" -> full [] p = "host2" -> other
                         [] p = "dst@host1" -> empty [] OTHER -> home]
MCTrees == {At(full, home), At(full, stale), At(single, empty), At(home, home)}

MCOrders ==
    LET o(k, s, t) == [kind |-> k, local |-> FALSE, from |-> s, to |-> t]
        here(k, s, t) == [o(k, s, t) EXCEPT !.local = TRUE]
    IN
    { <<o("upload", "src", "host1"), o("upload", "src", "host2")>>,
      <<o("upload", "src", "host2"), o("download", "host2", "dst@host2")>>,
      <<o("download", "host2", "dst@host1"), here("download", "locked", "copy")>>,
      <<here("upload", "src", "host2"), o("upload", "host2", "host1")>>,
      <<o("upload", "locked", "host1"), here("upload", "locked", "copy")>> }

MCMayFail == {"mkdir", "open", "create", "copy", "vanish"}
=============================================================================
