----------------------------- MODULE Filesystem -----------------------------
(***************************************************************************)
(* The filesystem server (src/pkg/servers/filesystem): its tools, each     *)
(* call in the goroutine of a request, on one file system.  The steps of a *)
(* tool are the operations of the package os that it calls; nothing holds  *)
(* a lock from one to the next.                                            *)
(***************************************************************************)
EXTENDS Integers, Sequences, FiniteSets

CONSTANTS
  Calls,  \* calls of tools
  Names,  \* names of directory entries, numbered
  Paths,  \* paths that calls name: non-empty sequences of names
  MaxActive,  \* bound: calls at a time
  Nodes,  \* bound: files and directories, numbered from 0, the root
  None

ASSUME ConstantsAssumption ==
  /\ Paths \subseteq Seq(Names) \ {<<>>}
  /\ Nodes \subseteq Nat /\ IsFiniteSet(Nodes) /\ 0 \in Nodes
  /\ Names \subseteq Nodes \ {0} /\ None \notin Nodes

VARIABLES
  typ,       \* typ[i]: "free", "dir" or "file"
  ent,       \* ent[<<i, n>>]: the node with the name n in the directory i
  data,      \* data[i]: the text of the file i
  replaced,  \* files that a rename replaced
  call       \* call[c]: the tool and its arguments, where it is, its result

vars == <<typ, ent, data, replaced, call>>

\* A text is what it is made of: the calls that contributed to it ("was": what
\* the file was before), and whether it ends in the rest of a longer one.
Text == [of : SUBSET (Calls \cup {"was"}), torn : BOOLEAN]
Empty == [of |-> {}, torn |-> FALSE]
Whole(S) == [of |-> S, torn |-> FALSE]

Tools == {"read_file", "read_multiple_files", "write_file", "edit_file", "create_directory",
          "list_directory", "directory_tree", "move_file", "search_files", "get_file_info"}

\* tool: "none" before the call, and after one that wrote nothing; paths: the
\* arguments; node: the file that is open; text: what was read; todo, found: the
\* directories search_files has yet to read, and its result; before: the calls
\* that had ended when it began.
NotCalled == [tool |-> "none", at |-> "idle", paths |-> <<>>, dryRun |-> FALSE, node |-> None,
              text |-> Empty, todo |-> {}, found |-> {}, before |-> {}]

-----------------------------------------------------------------------------
(* The file system *)

IsDir(i) == i \in Nodes /\ typ[i] = "dir"
IsFile(i) == i \in Nodes /\ typ[i] = "file"

\* Where the name n leads to from the node i, and a path from the root, in a tree
\* with the types t and the entries e.
Go(t, e, i, n) == IF i \in Nodes /\ t[i] = "dir" THEN e[<<i, n>>] ELSE None
LookupIn(t, e, path) ==
  LET node[k \in 0..Len(path)] == IF k = 0 THEN 0 ELSE Go(t, e, node[k - 1], path[k])
  IN node[Len(path)]
Lookup(path) == LookupIn(typ, ent, path)

Dir(path) == SubSeq(path, 1, Len(path) - 1)
Base(path) == path[Len(path)]
Entry(path) == <<Lookup(Dir(path)), Base(path)>>

\* The root may have anything in it when the server starts.
Init ==
  \E type \in [Names -> {"free", "dir", "file"}] :
    /\ typ = [i \in Nodes |-> CASE i = 0 -> "dir" [] i \in Names -> type[i] [] OTHER -> "free"]
    /\ ent = [e \in Nodes \X Names |-> IF e[1] = 0 /\ type[e[2]] # "free" THEN e[2] ELSE None]
    /\ data = [i \in Nodes |-> IF i \in Names /\ type[i] = "file" THEN Whole({"was"}) ELSE Empty]
    /\ replaced = {} /\ call = [c \in Calls |-> NotCalled]

Ended(c) == call[c].at \in {"ok", "failed"}
At(c, at) == call[c].at = at
Goes(c, at) == call' = [call EXCEPT ![c].at = at]

\* The call is answered; of one that wrote it is remembered what it wrote.
Ends(c, at) ==
  call' = [call EXCEPT ![c] = [NotCalled EXCEPT !.tool = IF At(c, "write") THEN call[c].tool ELSE "none",
                                                !.node = IF At(c, "write") THEN call[c].node ELSE None,
                                                !.at = at, !.before = call[c].before]]

\* Any of the operations may fail for reasons of its own: no space or
\* permission, arguments the schema refuses, a malformed pattern.
Fails(c) ==
  /\ call[c].at \notin {"idle", "ok", "failed"}
  /\ Ends(c, "failed")
  /\ UNCHANGED <<typ, ent, data, replaced>>

-----------------------------------------------------------------------------
(* CallTool *)

FirstStep == [t \in Tools |->
  CASE t \in {"read_file", "read_multiple_files", "get_file_info"} -> "stat"
    [] t = "edit_file" -> "open"
    [] t = "write_file" -> "create"
    [] t = "create_directory" -> "mkdir"
    [] t \in {"list_directory", "directory_tree", "search_files"} -> "readDir"
    [] t = "move_file" -> "rename"]

Arguments(t) ==
  CASE t \in {"read_multiple_files", "move_file"} -> {<<p, q>> : p, q \in Paths}
    [] t = "search_files" -> {<<>>}
    [] OTHER -> {<<p>> : p \in Paths}

\* search_files starts from rootPath.
CallTool(c) ==
  /\ At(c, "idle") /\ Cardinality({d \in Calls : ~At(d, "idle") /\ ~Ended(d)}) < MaxActive
  /\ \E t \in Tools : \E args \in Arguments(t), dry \in IF t = "edit_file" THEN BOOLEAN ELSE {FALSE} :
       call' = [call EXCEPT ![c] =
                  [NotCalled EXCEPT !.tool = t, !.at = FirstStep[t], !.paths = args, !.dryRun = dry,
                                    !.todo = IF t = "search_files" THEN {<<>>} ELSE {},
                                    !.before = {d \in Calls : Ended(d)}]]
  /\ UNCHANGED <<typ, ent, data, replaced>>

Path(c) == Head(call[c].paths)

-----------------------------------------------------------------------------
(* readFile, readMultipleFiles, getFileInfo *)

\* The path is gone, or a directory; get_file_info is done with either.
Stat(c) ==
  /\ At(c, "stat")
  /\ LET i == Lookup(Path(c))
     IN CASE call[c].tool = "get_file_info" -> Ends(c, IF i = None THEN "failed" ELSE "ok")
          [] call[c].tool # "get_file_info" /\ IsFile(i) -> Goes(c, "open")
          [] OTHER -> Ends(c, "failed")
  /\ UNCHANGED <<typ, ent, data, replaced>>

\* os.ReadFile opens the file, then reads it (a directory can not be read).
Open(c) ==
  /\ At(c, "open")
  /\ LET i == Lookup(Path(c))
     IN IF IsFile(i) THEN call' = [call EXCEPT ![c].at = "read", ![c].node = i] ELSE Ends(c, "failed")
  /\ UNCHANGED <<typ, ent, data, replaced>>

\* The first file that can not be read ends read_multiple_files.
Read(c) ==
  /\ At(c, "read") /\ call[c].tool # "edit_file"
  /\ IF Len(call[c].paths) = 1 THEN Ends(c, "ok")
     ELSE call' = [call EXCEPT ![c].at = "stat", ![c].paths = Tail(@), ![c].node = None]
  /\ UNCHANGED <<typ, ent, data, replaced>>

-----------------------------------------------------------------------------
(* writeFile, editFile *)

\* Mutant: the edits are made to nothing.
ReadNothing(c) ==
  /\ At(c, "read") /\ call[c].tool = "edit_file"
  /\ IF call[c].dryRun THEN Ends(c, "ok")
     ELSE call' = [call EXCEPT ![c].text = Empty, ![c].node = None, ![c].at = "create"]
  /\ UNCHANGED <<typ, ent, data, replaced>>

\* The text is read and the edits are made; a dry run ends here.
ReadToEdit(c) ==
  /\ At(c, "read") /\ call[c].tool = "edit_file"
  /\ IF call[c].dryRun THEN Ends(c, "ok")
     ELSE call' = [call EXCEPT ![c].text = data[call[c].node], ![c].node = None, ![c].at = "create"]
  /\ UNCHANGED <<typ, ent, data, replaced>>

Free == {i \in Nodes : typ[i] = "free"}
NewNode == CHOOSE i \in Free : TRUE
Make(path, type) ==
  typ' = [typ EXCEPT ![NewNode] = type] /\ ent' = [ent EXCEPT ![Entry(path)] = NewNode]

\* Mutant: the file is not truncated.
CreateOnly(c) ==
  /\ At(c, "create")
  /\ LET i == Lookup(Path(c))
     IN \/ /\ IsFile(i)
           /\ call' = [call EXCEPT ![c].at = "write", ![c].node = i]
           /\ UNCHANGED <<typ, ent, data>>
        \/ /\ i = None /\ IsDir(Lookup(Dir(Path(c)))) /\ Free # {}
           /\ Make(Path(c), "file")
           /\ call' = [call EXCEPT ![c].at = "write", ![c].node = NewNode]
           /\ UNCHANGED data
        \/ /\ IsDir(i) \/ ~IsDir(Lookup(Dir(Path(c))))
           /\ Ends(c, "failed")
           /\ UNCHANGED <<typ, ent, data>>
  /\ UNCHANGED replaced

\* os.WriteFile opens the file and truncates it, or makes one.
Create(c) ==
  /\ At(c, "create")
  /\ LET i == Lookup(Path(c))
     IN \/ /\ IsFile(i)
           /\ data' = [data EXCEPT ![i] = Empty]
           /\ call' = [call EXCEPT ![c].at = "write", ![c].node = i]
           /\ UNCHANGED <<typ, ent>>
        \/ /\ i = None /\ IsDir(Lookup(Dir(Path(c)))) /\ Free # {}
           /\ Make(Path(c), "file")
           /\ call' = [call EXCEPT ![c].at = "write", ![c].node = NewNode]
           /\ UNCHANGED data
        \/ /\ IsDir(i) \/ ~IsDir(Lookup(Dir(Path(c))))
           /\ Ends(c, "failed")
           /\ UNCHANGED <<typ, ent, data>>
  /\ UNCHANGED replaced

\* Then it writes from the start of the file that it opened, wherever that is
\* by now; of a longer text that another call wrote meanwhile the rest stays.
Write(c) ==
  /\ At(c, "write")
  /\ LET i == call[c].node
     IN \E torn \in IF data[i] = Empty THEN {FALSE} ELSE BOOLEAN :
          data' = [data EXCEPT ![i] = [of |-> call[c].text.of \cup {c}, torn |-> torn \/ call[c].text.torn]]
  /\ Ends(c, "ok")
  /\ UNCHANGED <<typ, ent, replaced>>

-----------------------------------------------------------------------------
(* createDirectory, listDirectory, directoryTree, moveFile, searchFiles *)

\* os.MkdirAll: one directory after the other, from the root on, that is not there.
Mkdir(c) ==
  /\ At(c, "mkdir")
  /\ LET missing == {k \in DOMAIN Path(c) : Lookup(SubSeq(Path(c), 1, k)) = None}
     IN \/ /\ missing = {}
           /\ Ends(c, IF IsDir(Lookup(Path(c))) THEN "ok" ELSE "failed")
           /\ UNCHANGED <<typ, ent>>
        \/ \E k \in missing :
             /\ \A j \in missing : k <= j
             /\ LET p == SubSeq(Path(c), 1, k)
                IN IF IsDir(Lookup(Dir(p))) THEN Free # {} /\ Make(p, "dir") /\ UNCHANGED call
                   ELSE Ends(c, "failed") /\ UNCHANGED <<typ, ent>>
  /\ UNCHANGED <<data, replaced>>

ReadDir(c) ==
  /\ At(c, "readDir") /\ call[c].tool # "search_files"
  /\ Ends(c, IF IsDir(Lookup(Path(c))) THEN "ok" ELSE "failed")
  /\ UNCHANGED <<typ, ent, data, replaced>>

\* The order of the walk: a directory's subdirectories by name, each with all below it.
Precedes(p, q) ==
  \/ p = q
  \/ \E k \in DOMAIN p \cap DOMAIN q : SubSeq(p, 1, k - 1) = SubSeq(q, 1, k - 1) /\ p[k] < q[k]

\* Mutant: directories are not gone into.
WalkFlat(c, p) ==
  LET i == Lookup(p)
      files == {Append(p, n) : n \in {n \in Names : IsFile(ent[<<i, n>>])}}
  IN IF ~IsDir(i) THEN Ends(c, "failed")
     ELSE call' = [call EXCEPT ![c].found = files, ![c].todo = {}, ![c].at = "ok"]

\* The directory p is read: the files of it that match are found; one that is
\* gone when it is its turn ends the walk with an error.
Visit(c, p) ==
  LET i == Lookup(p)
      files == {Append(p, n) : n \in {n \in Names : IsFile(ent[<<i, n>>])}}
      dirs == {Append(p, n) : n \in {n \in Names : IsDir(ent[<<i, n>>])}}
      todo == (call[c].todo \ {p}) \cup dirs
  IN IF ~IsDir(i) THEN Ends(c, "failed")
     ELSE call' = [call EXCEPT ![c].found = @ \cup files, ![c].todo = todo,
                               ![c].at = IF todo = {} THEN "ok" ELSE "readDir"]

\* filepath.WalkDir: one directory at a time.
WalkDir(c) ==
  /\ At(c, "readDir") /\ call[c].tool = "search_files"
  /\ \E p \in call[c].todo : (\A q \in call[c].todo : Precedes(p, q)) /\ Visit(c, p)
  /\ UNCHANGED <<typ, ent, data, replaced>>

\* Mutant: a directory may go into itself.
MayRenameInto(src, dst) ==
  /\ Lookup(src) # None
  /\ IsDir(Lookup(Dir(dst))) /\ ~IsDir(Lookup(dst))
  /\ IsDir(Lookup(src)) => Lookup(dst) = None

\* The path src is the path dst, or on its way.
Within(src, dst) == Len(src) <= Len(dst) /\ src = SubSeq(dst, 1, Len(src))

\* os.Rename refuses to replace a directory, or to replace a file by one, or to
\* move one into itself.
MayRename(src, dst) ==
  /\ Lookup(src) # None
  /\ IsDir(Lookup(Dir(dst))) /\ ~IsDir(Lookup(dst))
  /\ IsDir(Lookup(src)) => Lookup(dst) = None /\ ~Within(src, dst)

Rename(c) ==
  /\ At(c, "rename")
  /\ LET src == call[c].paths[1]
         dst == call[c].paths[2]
     IN IF ~MayRename(src, dst) THEN Ends(c, "failed") /\ UNCHANGED <<ent, replaced>>
        ELSE /\ ent' = [[ent EXCEPT ![Entry(src)] = None] EXCEPT ![Entry(dst)] = Lookup(src)]
             /\ replaced' = replaced \cup ({Lookup(dst)} \ {None, Lookup(src)})
             /\ Ends(c, "ok")
  /\ UNCHANGED <<typ, data>>

-----------------------------------------------------------------------------
Next ==
  \E c \in Calls :
    \/ CallTool(c) \/ Fails(c)
    \/ Stat(c) \/ Open(c) \/ Read(c) \/ ReadToEdit(c) \/ Create(c) \/ Write(c)
    \/ Mkdir(c) \/ ReadDir(c) \/ WalkDir(c) \/ Rename(c)

Spec == Init /\ [][Next]_vars

-----------------------------------------------------------------------------
(* Properties *)

CallRecord ==
  [tool : Tools \cup {"none"}, paths : Seq(Paths), dryRun : BOOLEAN,
   at : {"idle", "stat", "open", "read", "create", "write", "mkdir", "readDir", "rename", "ok", "failed"},
   node : Nodes \cup {None}, text : Text, todo : SUBSET Seq(Names), found : SUBSET Seq(Names),
   before : SUBSET Calls]

TypeOK ==
  /\ typ \in [Nodes -> {"free", "dir", "file"}]
  /\ ent \in [Nodes \X Names -> Nodes \cup {None}]
  /\ data \in [Nodes -> Text]
  /\ replaced \subseteq Nodes
  /\ call \in [Calls -> CallRecord]
  /\ \A c \in Calls : call[c].at \in {"read", "write"} => IsFile(call[c].node)

Overlap(c, d) ==
  /\ c # d /\ call[c].at # "idle" /\ call[d].at # "idle"
  /\ c \notin call[d].before /\ d \notin call[c].before

\* Calls that have opened the file i to write it.
Writers(i) == {c \in Calls : call[c].node = i /\ call[c].tool \in {"write_file", "edit_file"}
                             /\ call[c].at \in {"write", "ok", "failed"}}

\* Without a lock: a file is empty only while a call that truncated it has yet
\* to write, or has failed to, and it is mixed from two texts only if a call
\* that wrote it ran at the same time as another.
FilesWhole ==
  \A i \in Nodes : typ[i] = "file" =>
    /\ data[i] = Empty => \E c \in Writers(i) : call[c].at \in {"write", "failed"}
    /\ data[i].torn => \E c, d \in Calls : Overlap(c, d) /\ {c, d} \cap Writers(i) # {}

\* An edit that was acknowledged is lost only to a call that writes the file and
\* had not ended before it: a write_file, one that has yet to write or
\* failed to, or one that ran at the same time as another call.
EditsLost ==
  \A i \in Nodes, c \in Calls :
    call[c].tool = "edit_file" /\ call[c].at = "ok" /\ call[c].node = i /\ c \notin data[i].of =>
      \E d \in Writers(i) \ {c} :
        /\ d \notin call[c].before
        /\ \/ call[d].tool = "write_file" \/ call[d].at \in {"write", "failed"}
           \/ \E e \in Calls : Overlap(d, e)

AllPaths == UNION {[1..k -> Names] : k \in 0..(Cardinality(Nodes) - 1)}

\* No tool deletes: whatever is moved where and when, all that was ever made is
\* still there, but for files that move_file replaced.
NothingDisappears ==
  \A i \in Nodes \ replaced : typ[i] # "free" => \E p \in AllPaths : Lookup(p) = i

\* search_files finds the files there are, unless others change them meanwhile.
SearchExact ==
  \A c \in Calls :
    /\ call[c].tool = "search_files" /\ call[c].at = "ok"
    /\ \A d \in Calls \ {c} : call[d].at = "idle" \/ d \in call[c].before
    => call[c].found = {p \in AllPaths : IsFile(Lookup(p))}

====
