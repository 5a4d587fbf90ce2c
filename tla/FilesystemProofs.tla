------------------------- MODULE FilesystemProofs -------------------------
(***************************************************************************)
(* Proofs about Filesystem, for any number of calls, of names and of       *)
(* files: what calls that hold no lock can do to each other's files, that  *)
(* no file or directory disappears, and that an undisturbed search finds   *)
(* all there is.                                                           *)
(***************************************************************************)
EXTENDS Filesystem, TLAPS

-----------------------------------------------------------------------------
(* The inductive invariant *)

\* call[c] has the fields of NotCalled.
Record(k) ==
  k = [f \in {"tool", "at", "paths", "dryRun", "node", "text", "todo", "found", "before"} |-> k[f]]

Shape ==
  /\ typ \in [Nodes -> {"free", "dir", "file"}] /\ data \in [Nodes -> Text]
  /\ call = [c \in Calls |-> call[c]]
  /\ \A c \in Calls : Record(call[c]) /\ call[c].text \in Text

\* No other call ran at the same time, so far.
Alone(c) == \A d \in Calls : ~Overlap(c, d)

\* FilesWhole and EditsLost, for one file.
Torn(i) == \E c, d \in Calls : Overlap(c, d) /\ {c, d} \cap Writers(i) # {}
Excuse(c, d) ==
  /\ d \notin call[c].before
  /\ \/ call[d].tool = "write_file" \/ call[d].at \in {"write", "failed"}
     \/ \E e \in Calls : Overlap(d, e)
Edited(c, i) == call[c].tool = "edit_file" /\ call[c].at = "ok" /\ call[c].node = i

\* How far c is: which tool writes, to a file; and a call that is alone finds
\* the file as it left it: where its path leads to, with the text it has read,
\* and empty when it comes to write.
Course(c) ==
  LET k == call[c]
      i == Lookup(Path(c))
  IN /\ k.at \in {"create", "write"} => \/ k.tool = "edit_file"
                                        \/ k.tool = "write_file" /\ k.text = Empty
     /\ k.at \in {"read", "write"} => IsFile(k.node)
     /\ k.at = "read" /\ k.tool = "edit_file" /\ Alone(c) => i = k.node
     /\ k.at = "create" /\ k.tool = "edit_file" /\ Alone(c) => IsFile(i) /\ k.text = data[i]
     /\ k.at = "write" /\ Alone(c) => data[k.node] = Empty
     /\ k.at = "write" /\ k.text.torn => Torn(k.node)
     /\ k.at = "write" /\ k.tool = "edit_file" /\ Alone(c) =>
          \A e \in Calls \ {c} : Edited(e, k.node) /\ e \notin k.text.of =>
            \E d \in Writers(k.node) \ {c, e} : Excuse(e, d)

IInv ==
  /\ Shape
  /\ \A c \in Calls : \A d \in call[c].before : d \in Calls /\ Ended(d)
  /\ \A i \in Nodes : typ[i] = "free" => data[i] = Empty
  /\ \A c \in Calls : Course(c)
  /\ FilesWhole /\ EditsLost

-----------------------------------------------------------------------------
(* What every step has in common *)

\* A step of c: others stay as they are, a call knows who ended before it, and
\* one that has opened a file to write it only ends.
Moves(c) ==
  /\ Shape' /\ \A d \in Calls \ {c} : call'[d] = call[d]
  /\ call[c].at \notin {"ok", "failed"} /\ call'[c].at # "idle"
  /\ call'[c].before = IF call[c].at = "idle" THEN {d \in Calls : Ended(d)} ELSE call[c].before
  /\ call[c].at = "write" => /\ call'[c].at \in {"ok", "failed"}
                             /\ call'[c].tool = call[c].tool /\ call'[c].node = call[c].node
  /\ \A i \in Nodes : typ[i] = "file" => typ'[i] = "file"

Before == \A c \in Calls : \A d \in call[c].before : d \in Calls /\ Ended(d)

\* What happened stays so; and c runs at the same time as all that have begun
\* and not ended.
LEMMA Stays ==
  ASSUME Before, NEW c \in Calls, Moves(c)
  PROVE  /\ \A a, b \in Calls : Overlap(a, b) => Overlap(a, b)'
         /\ \A i : Writers(i) \subseteq Writers(i)'
         /\ \A i : Torn(i) => Torn(i)'
         /\ Before'
         /\ \A d \in Calls \ {c} : call[d].at \notin {"idle", "ok", "failed"} =>
              Overlap(c, d)' /\ Overlap(d, c)'
<1>1. \A a, b \in Calls : Overlap(a, b) => Overlap(a, b)'
  BY DEF Moves, Overlap
<1>2. \A i : Writers(i) \subseteq Writers(i)'
  BY DEF Moves, Writers
<1>3. \A i : Torn(i) => Torn(i)'
  BY <1>1, <1>2 DEF Torn
<1>4. Before'
  BY DEF Moves, Before, Ended
<1>5. \A d \in Calls \ {c} : call[d].at \notin {"idle", "ok", "failed"} => Overlap(c, d)' /\ Overlap(d, c)'
  BY DEF Moves, Before, Ended, Overlap
<1> QED
  BY <1>1, <1>2, <1>3, <1>4, <1>5

\* A step of c leaves the course of others alone.
LEMMA OthersCourse ==
  ASSUME Before, NEW c \in Calls, Moves(c), NEW d \in Calls \ {c}, Course(d)
  PROVE  Course(d)'
<1>0. call'[d] = call[d] /\ \A i \in Nodes : typ[i] = "file" => typ'[i] = "file"
  BY DEF Moves
<1>1. CASE call[d].at \notin {"read", "create", "write"}
  BY <1>0, <1>1 DEF Course
<1>2. CASE call[d].at \in {"read", "create", "write"}
  <2>1. Overlap(d, c)' /\ ~Alone(d)'
    BY <1>2, Stays DEF Alone
  <2>2. /\ call[d].at \in {"create", "write"} => \/ call[d].tool = "edit_file"
                                                 \/ call[d].tool = "write_file" /\ call[d].text = Empty
        /\ call[d].at \in {"read", "write"} => IsFile(call[d].node)
    BY DEF Course
  <2>3. call[d].at = "write" => Torn(call[d].node)'
    <3> SUFFICES ASSUME call[d].at = "write" PROVE Torn(call[d].node)'
      OBVIOUS
    <3>1. d \in Writers(call[d].node)'
      BY <1>0, <2>2 DEF Writers
    <3> QED
      BY <2>1, <3>1 DEF Torn
  <2>4. call[d].at \in {"read", "write"} => IsFile(call[d].node)'
    BY <1>0, <2>2 DEF IsFile
  <2> QED
    BY <1>0, <2>1, <2>2, <2>3, <2>4 DEF Course
<1> QED
  BY <1>1, <1>2

\* An excuse holds on, unless it is that c has yet to write.
LEMMA ExcuseStays ==
  ASSUME Before, NEW c \in Calls, Moves(c), NEW e \in Calls, call[e].at # "idle", NEW d \in Calls,
         Excuse(e, d), d = c => call'[c].at # "ok", d = c => call[c].at = "write"
  PROVE  Excuse(e, d)'
<1>1. d \notin call'[e].before
  BY DEF Excuse, Moves
<1>2. \A a \in Calls : Overlap(d, a) => Overlap(d, a)'
  BY Stays
<1> QED
  BY <1>1, <1>2 DEF Excuse, Moves

\* Steps that write nothing.
LEMMA QuietIInv ==
  ASSUME IInv, NEW c \in Calls, Moves(c), data' = data, Course(c)',
         \A i \in Nodes : (typ'[i] = "file" => typ[i] = "file") /\ (typ'[i] = "free" => typ[i] = "free"),
         call[c].at = "write" => call'[c].at = "failed",
         ~(call'[c].tool = "edit_file" /\ call'[c].at = "ok")
  PROVE  IInv'
<1>0. Before /\ Shape /\ Shape' /\ Before'
  BY Stays DEF IInv, Before, Moves
<1>1. \A d \in Calls : Course(d)'
  BY <1>0, OthersCourse DEF IInv
<1>2. FilesWhole'
  <2> SUFFICES ASSUME NEW i \in Nodes, typ'[i] = "file"
               PROVE  /\ data'[i] = Empty => \E d \in Writers(i)' : call'[d].at \in {"write", "failed"}
                      /\ data'[i].torn => Torn(i)'
    BY DEF FilesWhole, Torn
  <2>1. /\ data[i] = Empty => \E d \in Writers(i) : call[d].at \in {"write", "failed"}
        /\ data[i].torn => Torn(i)
    BY DEF IInv, FilesWhole, Torn
  <2>2. \A d \in Writers(i) : call[d].at \in {"write", "failed"} => call'[d].at \in {"write", "failed"}
    BY DEF Writers, Moves
  <2> QED
    BY <1>0, <2>1, <2>2, Stays
<1>3. EditsLost'
  <2> SUFFICES ASSUME NEW i \in Nodes, NEW e \in Calls, Edited(e, i)', e \notin data'[i].of
               PROVE  \E d \in Writers(i)' \ {e} : Excuse(e, d)'
    BY DEF EditsLost, Edited, Excuse
  <2>1. e # c /\ Edited(e, i) /\ call[e].at # "idle"
    BY DEF Edited, Moves
  <2>2. PICK d \in Writers(i) \ {e} : Excuse(e, d)
    BY <2>1 DEF IInv, EditsLost, Edited, Excuse
  <2>3. d \in Calls /\ (d = c => call[c].at = "write")
    BY <2>2 DEF Writers, Moves
  <2>4. Excuse(e, d)'
    BY <1>0, <2>1, <2>2, <2>3, ExcuseStays
  <2> QED
    BY <1>0, <2>2, <2>4, Stays
<1>4. \A i \in Nodes : typ'[i] = "free" => data'[i] = Empty
  BY DEF IInv
<1> QED
  BY <1>0, <1>1, <1>2, <1>3, <1>4 DEF IInv, Before

-----------------------------------------------------------------------------
(* The tools *)

\* call[c] becomes k.
LEMMA CallShape ==
  ASSUME Shape, NEW c \in Calls, NEW k, Record(k), k.text \in Text, call' = [call EXCEPT ![c] = k],
         typ' \in [Nodes -> {"free", "dir", "file"}], data' \in [Nodes -> Text]
  PROVE  Shape' /\ call'[c] = k /\ \A d \in Calls \ {c} : call'[d] = call[d]
<1>1. call'[c] = k /\ (\A d \in Calls \ {c} : call'[d] = call[d]) /\ call' = [d \in Calls |-> call'[d]]
  BY DEF Shape
<1> QED
  BY <1>1 DEF Shape

\* Empty is a text.
LEMMA EmptyText == Empty \in Text /\ Empty.torn = FALSE /\ Empty.of = {}
BY DEF Empty, Text

\* A call is answered.
LEMMA EndsOf ==
  ASSUME Shape, NEW c \in Calls, NEW x \in {"ok", "failed"}, Ends(c, x),
         typ' \in [Nodes -> {"free", "dir", "file"}], data' \in [Nodes -> Text]
  PROVE  LET k == call'[c] IN
         /\ Shape' /\ \A d \in Calls \ {c} : call'[d] = call[d]
         /\ k.at = x /\ k.before = call[c].before
         /\ k.tool = (IF call[c].at = "write" THEN call[c].tool ELSE "none")
         /\ k.node = (IF call[c].at = "write" THEN call[c].node ELSE None)
<1> DEFINE t == IF call[c].at = "write" THEN call[c].tool ELSE "none"
           n == IF call[c].at = "write" THEN call[c].node ELSE None
           k == [NotCalled EXCEPT !.tool = t, !.node = n, !.at = x, !.before = call[c].before]
<1>1. call' = [call EXCEPT ![c] = k]
  BY DEF Ends, At
<1> HIDE DEF t, n
<1>2. /\ Record(k) /\ k.at = x /\ k.before = call[c].before /\ k.tool = t /\ k.node = n /\ k.text = Empty
  BY ZenonT(30) DEF Record, NotCalled
<1> HIDE DEF k
<1>3. Shape' /\ call'[c] = k /\ \A d \in Calls \ {c} : call'[d] = call[d]
  BY ZenonT(30), <1>1, <1>2, CallShape, EmptyText
<1> QED
  BY <1>2, <1>3 DEF t, n

\* A call that is answered before it writes.
LEMMA EndsQuietly ==
  ASSUME IInv, NEW c \in Calls, NEW x \in {"ok", "failed"}, Ends(c, x), call[c].at \notin {"idle", "ok", "failed"},
         call[c].at = "write" => x = "failed", UNCHANGED <<typ, data>>
  PROVE  IInv'
<1>0. Shape /\ typ' \in [Nodes -> {"free", "dir", "file"}] /\ data' \in [Nodes -> Text]
  BY DEF IInv, Shape
<1>1. LET k == call'[c] IN
      /\ Shape' /\ \A d \in Calls \ {c} : call'[d] = call[d]
      /\ k.at = x /\ k.before = call[c].before
      /\ k.tool = (IF call[c].at = "write" THEN call[c].tool ELSE "none")
      /\ k.node = (IF call[c].at = "write" THEN call[c].node ELSE None)
  BY <1>0, EndsOf
<1>2. Moves(c)
  BY <1>0, <1>1 DEF Moves
<1>3. Course(c)'
  BY <1>1 DEF Course
<1> QED
  BY <1>1, <1>2, <1>3, QuietIInv

\* A call begins, with arguments for its tool.
LEMMA CallToolOf ==
  ASSUME NEW c \in Calls, CallTool(c)
  PROVE  \E t \in Tools : \E args \in Arguments(t) : \E k :
           /\ call' = [call EXCEPT ![c] = k] /\ Record(k) /\ k.tool = t /\ k.at = FirstStep[t]
           /\ k.paths = args /\ k.dryRun \in BOOLEAN /\ k.node = None /\ k.text = Empty
           /\ k.todo = (IF t = "search_files" THEN {<<>>} ELSE {}) /\ k.found = {}
           /\ k.before = {d \in Calls : Ended(d)}
<1> DEFINE Todo(t) == IF t = "search_files" THEN {<<>>} ELSE {}
           B == {d \in Calls : Ended(d)}
           K(t, args, dry) == [NotCalled EXCEPT !.tool = t, !.at = FirstStep[t], !.paths = args, !.dryRun = dry,
                                                !.todo = Todo(t), !.before = B]
<1>1. PICK t \in Tools : \E args \in Arguments(t) : \E dry \in BOOLEAN : call' = [call EXCEPT ![c] = K(t, args, dry)]
  <2>1. PICK t \in Tools : \E args \in Arguments(t), dry \in IF t = "edit_file" THEN BOOLEAN ELSE {FALSE} :
          call' = [call EXCEPT ![c] = K(t, args, dry)]
    BY ZenonT(30) DEF CallTool
  <2>2. (IF t = "edit_file" THEN BOOLEAN ELSE {FALSE}) \subseteq BOOLEAN
    BY ZenonT(30)
  <2> HIDE DEF K
  <2> QED
    BY <2>1, <2>2, Zenon
<1>2. PICK args \in Arguments(t) : \E dry \in BOOLEAN : call' = [call EXCEPT ![c] = K(t, args, dry)]
  BY ZenonT(30), <1>1
<1>3. PICK dry \in BOOLEAN : call' = [call EXCEPT ![c] = K(t, args, dry)]
  BY ZenonT(30), <1>2
<1> DEFINE k == K(t, args, dry)
<1>4. /\ Record(k) /\ k.tool = t /\ k.at = FirstStep[t] /\ k.paths = args /\ k.dryRun = dry /\ k.node = None
      /\ k.text = Empty /\ k.todo = Todo(t) /\ k.found = {} /\ k.before = B
  <2> HIDE DEF Todo, B
  <2> QED
    BY ZenonT(30) DEF Record, NotCalled
<1>5. call' = [call EXCEPT ![c] = k]
  BY <1>3
<1> HIDE DEF k, K
<1> QED
  BY ZenonT(30), <1>4, <1>5

\* A call begins.
LEMMA CallToolIInv ==
  ASSUME IInv, NEW c \in Calls, CallTool(c)
  PROVE  IInv'
<1>0. Shape /\ typ' = typ /\ data' = data /\ ent' = ent /\ call[c].at = "idle"
  BY DEF IInv, CallTool, At
<1>1. PICK t \in Tools : \E k :
        /\ call' = [call EXCEPT ![c] = k] /\ Record(k) /\ k.tool = t /\ k.at = FirstStep[t]
        /\ k.text = Empty /\ k.before = {d \in Calls : Ended(d)}
  BY CallToolOf
<1>2. /\ FirstStep[t] \notin {"idle", "read", "write", "ok"} /\ (FirstStep[t] = "create" => t = "write_file")
  BY DEF FirstStep, Tools
<1> DEFINE B == {d \in Calls : Ended(d)}
<1>4. PICK k : /\ call' = [call EXCEPT ![c] = k] /\ Record(k) /\ k.tool = t /\ k.at = FirstStep[t]
               /\ k.before = B /\ k.text = Empty
  BY ZenonT(30), <1>1
<1> HIDE DEF B
<1>5. Shape' /\ call'[c] = k /\ \A d \in Calls \ {c} : call'[d] = call[d]
  BY <1>0, <1>4, CallShape, EmptyText DEF Shape
<1>6. Moves(c)
  BY <1>0, <1>2, <1>4, <1>5 DEF Moves, B
<1>7. Course(c)'
  BY <1>2, <1>4, <1>5 DEF Course
<1> QED
  BY <1>0, <1>2, <1>4, <1>5, <1>6, <1>7, QuietIInv

\* c goes on as k: no step of a reading tool opens a file to write it.
LEMMA GoesOn ==
  ASSUME IInv, NEW c \in Calls, call[c].at \notin {"idle", "write", "ok", "failed"}, NEW k, Record(k),
         k.text \in Text, k.before = call[c].before, k.at # "idle", k.at # "write",
         ~(k.tool = "edit_file" /\ k.at = "ok"), call' = [call EXCEPT ![c] = k], UNCHANGED <<typ, data>>,
         call'[c] = k => Course(c)'
  PROVE  IInv'
<1>0. Shape /\ typ' \in [Nodes -> {"free", "dir", "file"}] /\ data' \in [Nodes -> Text]
  BY DEF IInv, Shape
<1>1. Shape' /\ call'[c] = k /\ \A d \in Calls \ {c} : call'[d] = call[d]
  BY ZenonT(30), <1>0, CallShape
<1>2. Moves(c)
  BY <1>0, <1>1 DEF Moves
<1> QED
  BY <1>1, <1>2, QuietIInv

\* readFile, readMultipleFiles, getFileInfo
LEMMA StatIInv ==
  ASSUME IInv, NEW c \in Calls, Stat(c)
  PROVE  IInv'
<1>0. /\ call[c].at = "stat" /\ UNCHANGED <<typ, data>> /\ Record(call[c]) /\ call[c].text \in Text
  BY DEF IInv, Shape, Stat, At
<1>1. CASE \E x \in {"ok", "failed"} : Ends(c, x)
  BY <1>0, <1>1, EndsQuietly
<1>2. CASE Goes(c, "open")
  <2> DEFINE k == [call[c] EXCEPT !.at = "open"]
  <2>1. call' = [call EXCEPT ![c] = k]
    BY <1>2 DEF Goes
  <2>2. Record(k) /\ k.at = "open" /\ k.text = call[c].text /\ k.before = call[c].before
    BY <1>0 DEF Record
  <2> HIDE DEF k
  <2>3. call'[c] = k => Course(c)'
    BY <2>2 DEF Course
  <2> QED
    BY ZenonT(30), <1>0, <2>1, <2>2, <2>3, GoesOn
<1> QED
  BY <1>1, <1>2 DEF Stat

\* os.ReadFile opens the file.
LEMMA OpenIInv ==
  ASSUME IInv, NEW c \in Calls, Open(c)
  PROVE  IInv'
<1>0. /\ call[c].at = "open" /\ UNCHANGED <<typ, data, ent>> /\ Record(call[c]) /\ call[c].text \in Text
  BY DEF IInv, Shape, Open, At
<1>1. CASE Ends(c, "failed")
  BY <1>0, <1>1, EndsQuietly
<1>2. CASE /\ IsFile(Lookup(Path(c)))
           /\ call' = [call EXCEPT ![c].at = "read", ![c].node = Lookup(Path(c))]
  <2>0. PICK i : i = Lookup(Path(c))
    OBVIOUS
  <2>4. PICK k : k = [call[c] EXCEPT !.at = "read", !.node = i]
    OBVIOUS
  <2>1. call' = [call EXCEPT ![c] = k]
    BY ZenonT(30), <1>2, <2>0, <2>4
  <2>2. /\ Record(k) /\ k.at = "read" /\ k.node = i /\ k.text = call[c].text
        /\ k.before = call[c].before /\ k.paths = call[c].paths
    BY ZenonT(30), <1>0, <2>4 DEF Record
  <2>3. call'[c] = k => Course(c)'
    <3> SUFFICES ASSUME call'[c] = k PROVE Course(c)'
      OBVIOUS
    <3>1. Lookup(Path(c))' = i
      BY <1>0, <2>0, <2>2 DEF Lookup, Path
    <3>2. IsFile(i)'
      BY <1>0, <1>2, <2>0 DEF IsFile
    <3> QED
      BY <2>2, <3>1, <3>2 DEF Course
  <2> QED
    BY ZenonT(30), <1>0, <2>1, <2>2, <2>3, GoesOn
<1> QED
  BY <1>1, <1>2 DEF Open

\* A tool that only reads has read.
LEMMA ReadIInv ==
  ASSUME IInv, NEW c \in Calls, Read(c)
  PROVE  IInv'
<1>0. /\ call[c].at = "read" /\ UNCHANGED <<typ, data>> /\ Record(call[c]) /\ call[c].text \in Text
  BY DEF IInv, Shape, Read, At
<1>1. CASE Ends(c, "ok")
  BY <1>0, <1>1, EndsQuietly
<1>2. CASE call' = [call EXCEPT ![c].at = "stat", ![c].paths = Tail(@), ![c].node = None]
  <2>0. PICK p : p = Tail(call[c].paths)
    BY ZenonT(30)
  <2> DEFINE k == [call[c] EXCEPT !.at = "stat", !.paths = p, !.node = None]
  <2>1. call' = [call EXCEPT ![c] = k]
    BY ZenonT(30), <1>2, <2>0
  <2>2. Record(k) /\ k.at = "stat" /\ k.text = call[c].text /\ k.before = call[c].before
    BY ZenonT(30), <1>0 DEF Record
  <2> HIDE DEF k
  <2>3. call'[c] = k => Course(c)'
    BY <2>2 DEF Course
  <2> QED
    BY ZenonT(30), <1>0, <2>1, <2>2, <2>3, GoesOn
<1> QED
  BY <1>1, <1>2 DEF Read

\* editFile has read: if it is alone, what the file now holds.
LEMMA ReadToEditIInv ==
  ASSUME IInv, NEW c \in Calls, ReadToEdit(c)
  PROVE  IInv'
<1>0. /\ call[c].at = "read" /\ UNCHANGED <<typ, data, ent>> /\ Record(call[c]) /\ call[c].text \in Text
      /\ call[c].tool = "edit_file" /\ IsFile(call[c].node) /\ data \in [Nodes -> Text]
      /\ Alone(c) => Lookup(Path(c)) = call[c].node
  BY DEF IInv, Shape, ReadToEdit, At, Course
<1>1. CASE Ends(c, "ok")
  BY <1>0, <1>1, EndsQuietly
<1>2. CASE call' = [call EXCEPT ![c].text = data[call[c].node], ![c].node = None, ![c].at = "create"]
  <2>0. PICK t \in Text : t = data[call[c].node]
    BY <1>0 DEF IsFile
  <2>4. PICK k : k = [call[c] EXCEPT !.text = t, !.node = None, !.at = "create"]
    OBVIOUS
  <2>1. call' = [call EXCEPT ![c] = k]
    BY ZenonT(30), <1>2, <2>0, <2>4
  <2>2. /\ Record(k) /\ k.at = "create" /\ k.text = t /\ k.before = call[c].before
        /\ k.paths = call[c].paths /\ k.tool = "edit_file"
    BY ZenonT(30), <1>0, <2>4 DEF Record
  <2>3. call'[c] = k => Course(c)'
    <3> SUFFICES ASSUME call'[c] = k PROVE Course(c)'
      OBVIOUS
    <3>0. PICK i : i = call[c].node
      OBVIOUS
    <3>1. Lookup(Path(c))' = Lookup(Path(c)) /\ IsFile(i)'
      BY <1>0, <2>2, <3>0 DEF Lookup, Path, IsFile
    <3>3. Alone(c)' => Alone(c)
      <4>1. call' = [call EXCEPT ![c] = k] => \A d \in Calls \ {c} : call'[d] = call[d]
        BY DEF IInv, Shape
      <4> QED
        BY <1>0, <2>1, <2>2, <4>1 DEF Alone, Overlap
    <3> QED
      BY <1>0, <2>0, <2>2, <3>0, <3>1, <3>3 DEF Course
  <2> QED
    BY ZenonT(30), <1>0, <2>1, <2>2, <2>3, GoesOn
<1> QED
  BY <1>1, <1>2 DEF ReadToEdit

\* listDirectory, directoryTree, moveFile
LEMMA OtherToolsIInv ==
  ASSUME IInv, NEW c \in Calls, ReadDir(c) \/ Rename(c) \/ Fails(c)
  PROVE  IInv'
<1>1. /\ call[c].at \notin {"idle", "ok", "failed"} /\ UNCHANGED <<typ, data>>
      /\ \E x \in {"ok", "failed"} : Ends(c, x) /\ (call[c].at = "write" => x = "failed")
  BY DEF ReadDir, Rename, Fails, At
<1> QED
  BY <1>1, EndsQuietly

\* searchFiles
LEMMA WalkDirIInv ==
  ASSUME IInv, NEW c \in Calls, WalkDir(c)
  PROVE  IInv'
<1>0. /\ call[c].at = "readDir" /\ UNCHANGED <<typ, data>> /\ Record(call[c]) /\ call[c].text \in Text
      /\ call[c].tool = "search_files"
  BY DEF IInv, Shape, WalkDir, At
<1>1. CASE Ends(c, "failed")
  BY <1>0, <1>1, EndsQuietly
<1>2. CASE \E fs, ts : \E x \in {"ok", "readDir"} :
              call' = [call EXCEPT ![c].found = fs, ![c].todo = ts, ![c].at = x]
  <2>3. PICK fs : \E ts : \E x \in {"ok", "readDir"} :
          call' = [call EXCEPT ![c].found = fs, ![c].todo = ts, ![c].at = x]
    BY ZenonT(30), <1>2
  <2>4. PICK ts : \E x \in {"ok", "readDir"} :
          call' = [call EXCEPT ![c].found = fs, ![c].todo = ts, ![c].at = x]
    BY ZenonT(30), <2>3
  <2>0. PICK x \in {"ok", "readDir"} :
          call' = [call EXCEPT ![c].found = fs, ![c].todo = ts, ![c].at = x]
    BY ZenonT(30), <2>4
  <2> DEFINE k == [call[c] EXCEPT !.found = fs, !.todo = ts, !.at = x]
  <2>1. call' = [call EXCEPT ![c] = k]
    BY ZenonT(30), <2>0
  <2>2. Record(k) /\ k.at = x /\ k.text = call[c].text /\ k.before = call[c].before /\ k.tool = "search_files"
    BY ZenonT(30), <1>0 DEF Record
  <2> HIDE DEF k
  <2>5. call'[c] = k => Course(c)'
    BY <2>2 DEF Course
  <2> QED
    BY ZenonT(30), <1>0, <2>1, <2>2, <2>5, GoesOn
<1> QED
  BY ZenonT(30), <1>1, <1>2 DEF WalkDir, Visit

\* A new node was free.
LEMMA NewNodeFree ==
  ASSUME Free # {}
  PROVE  NewNode \in Nodes /\ typ[NewNode] = "free"
<1>1. NewNode \in Free
  BY DEF NewNode
<1> QED
  BY <1>1 DEF Free

\* createDirectory
LEMMA MkdirIInv ==
  ASSUME IInv, NEW c \in Calls, Mkdir(c)
  PROVE  IInv'
<1>0. call[c].at = "mkdir" /\ data' = data /\ Shape
  BY DEF Mkdir, At, IInv
<1>1. CASE typ' = typ /\ \E x \in {"ok", "failed"} : Ends(c, x)
  BY <1>0, <1>1, EndsQuietly
<1>2. CASE Free # {} /\ typ' = [typ EXCEPT ![NewNode] = "dir"] /\ call' = call
  <2>1. PICK i \in Nodes : i = NewNode /\ typ[i] = "free"
    BY <1>2, NewNodeFree
  <2>2. /\ typ' \in [Nodes -> {"free", "dir", "file"}]
        /\ \A j \in Nodes : /\ typ'[j] = "file" <=> typ[j] = "file"
                            /\ typ'[j] = "free" => typ[j] = "free"
    BY <1>0, <1>2, <2>1 DEF Shape
  <2>3. Moves(c)
    BY <1>0, <1>2, <2>2 DEF Moves, Shape
  <2>4. Course(c)'
    BY <1>0, <1>2 DEF Course
  <2> QED
    BY <1>0, <1>2, <2>2, <2>3, <2>4, QuietIInv
<1> QED
  BY <1>1, <1>2 DEF Mkdir, Make

\* os.WriteFile has the file i, empty, and has yet to write.
LEMMA Truncates ==
  ASSUME IInv, NEW c \in Calls, call[c].at = "create", NEW i \in Nodes, typ[i] \in {"file", "free"},
         call' = [call EXCEPT ![c].at = "write", ![c].node = i],
         typ' = [typ EXCEPT ![i] = "file"], data' = [data EXCEPT ![i] = Empty],
         call[c].tool = "edit_file" /\ Alone(c) => typ[i] = "file" /\ call[c].text = data[i]
  PROVE  IInv'
<1>0. Shape /\ Before /\ Record(call[c]) /\ call[c].text \in Text /\ Course(c)
  BY DEF IInv, Shape, Before
<1>1. PICK k : k = [call[c] EXCEPT !.at = "write", !.node = i]
  OBVIOUS
<1>2. /\ Record(k) /\ k.at = "write" /\ k.node = i /\ k.text = call[c].text /\ k.tool = call[c].tool
      /\ k.before = call[c].before
  BY ZenonT(30), <1>0, <1>1 DEF Record
<1>3. /\ typ' \in [Nodes -> {"free", "dir", "file"}] /\ data' \in [Nodes -> Text]
      /\ typ'[i] = "file" /\ data'[i] = Empty
      /\ \A j \in Nodes \ {i} : typ'[j] = typ[j] /\ data'[j] = data[j]
  BY <1>0, EmptyText DEF Shape
<1>4. Shape' /\ call'[c] = k /\ \A d \in Calls \ {c} : call'[d] = call[d]
  <2>1. call' = [call EXCEPT ![c] = k]
    BY ZenonT(30), <1>1
  <2> QED
    BY ONLY ZenonT(30), <1>0, <1>2, <1>3, <2>1, c \in Calls, CallShape
<1>5. Moves(c)
  BY ZenonT(30), <1>2, <1>3, <1>4 DEF Moves
<1>6. /\ \A d \in Calls : Overlap(c, d) => Overlap(c, d)'
      /\ \A j : Writers(j) \subseteq Writers(j)' /\ (Torn(j) => Torn(j)')
      /\ Before'
  BY <1>0, <1>5, Stays
<1>7. \/ k.tool = "edit_file"
      \/ k.tool = "write_file" /\ k.text = Empty
  BY <1>0, <1>2 DEF Course
<1>8. c \in Writers(i)' /\ \A j : c \notin Writers(j)
  BY <1>2, <1>4, <1>7 DEF Writers
<1>9. Alone(c)' => Alone(c)
  BY <1>6 DEF Alone
<1>10. ASSUME NEW e \in Calls, NEW j \in Nodes, Edited(e, j)', e # c, e \notin data[j].of
       PROVE  \E d \in Writers(j)' \ {c, e} : Excuse(e, d)'
  <2>1. Edited(e, j) /\ call[e].at # "idle"
    BY <1>4, <1>10 DEF Edited
  <2>2. PICK d \in Writers(j) \ {e} : Excuse(e, d)
    BY <1>10, <2>1 DEF IInv, EditsLost, Edited, Excuse
  <2>3. d \in Calls /\ d # c
    BY <1>8, <2>2 DEF Writers
  <2>4. Excuse(e, d)'
    BY <1>0, <1>5, <2>1, <2>2, <2>3, ExcuseStays
  <2> QED
    BY <1>6, <2>2, <2>3, <2>4
<1>11. Course(c)'
  <2>1. IsFile(i)'
    BY <1>3 DEF IsFile
  <2>2. k.text.torn => Torn(i)'
    <3> SUFFICES ASSUME k.text.torn PROVE Torn(i)'
      OBVIOUS
    <3>1. k.tool = "edit_file"
      BY <1>7, EmptyText
    <3>2. CASE Alone(c)
      <4>1. typ[i] = "file" /\ data[i].torn
        BY <1>2, <3>1, <3>2
      <4>2. Torn(i)
        BY <4>1 DEF IInv, FilesWhole, Torn
      <4> QED
        BY <1>6, <4>2
    <3>3. CASE ~Alone(c)
      BY <1>6, <1>8, <3>3 DEF Alone, Torn
    <3> QED
      BY <3>2, <3>3
  <2>3. k.tool = "edit_file" /\ Alone(c)' =>
          \A e \in Calls \ {c} : Edited(e, i)' /\ e \notin k.text.of =>
            \E d \in Writers(i)' \ {c, e} : Excuse(e, d)'
    BY <1>2, <1>9, <1>10
  <2> QED
    BY ZenonT(30), <1>2, <1>3, <1>4, <1>7, <2>1, <2>2, <2>3 DEF Course
<1>12. \A d \in Calls : Course(d)'
  BY <1>0, <1>5, <1>11, OthersCourse DEF IInv
<1>13. FilesWhole'
  <2> SUFFICES ASSUME NEW j \in Nodes, typ'[j] = "file"
               PROVE  /\ data'[j] = Empty => \E d \in Writers(j)' : call'[d].at \in {"write", "failed"}
                      /\ data'[j].torn => Torn(j)'
    BY ZenonT(30) DEF FilesWhole, Torn
  <2>1. CASE j = i
    <3>1. c \in Writers(j)' /\ call'[c].at = "write"
      BY <1>2, <1>4, <1>8, <2>1
    <3>2. ~data'[j].torn
      BY <1>3, <2>1, EmptyText
    <3> QED
      BY ZenonT(30), <3>1, <3>2
  <2>2. CASE j # i
    <3>1. /\ data[j] = Empty => \E d \in Writers(j) : call[d].at \in {"write", "failed"}
          /\ data[j].torn => Torn(j)
      BY <1>3, <2>2 DEF IInv, FilesWhole, Torn
    <3>2. \A d \in Writers(j) : call'[d] = call[d]
      BY ZenonT(30), <1>4, <1>8 DEF Writers
    <3> QED
      BY ZenonT(30), <1>3, <1>6, <2>2, <3>1, <3>2
  <2> QED
    BY ZenonT(30), <2>1, <2>2
<1>14. EditsLost'
  <2> SUFFICES ASSUME NEW j \in Nodes, NEW e \in Calls, Edited(e, j)', e \notin data'[j].of
               PROVE  \E d \in Writers(j)' \ {e} : Excuse(e, d)'
    BY ZenonT(30) DEF EditsLost, Edited, Excuse
  <2>1. e # c
    BY ZenonT(30), <1>2, <1>4 DEF Edited
  <2>2. CASE j = i
    <3>1. c \notin call'[e].before
      BY ZenonT(30), <1>0, <1>4, <2>1 DEF Before, Ended
    <3>2. Excuse(e, c)'
      BY <1>2, <1>4, <3>1 DEF Excuse
    <3> QED
      BY <1>8, <2>1, <2>2, <3>2
  <2>3. CASE j # i
    BY <1>3, <1>10, <2>1, <2>3
  <2> QED
    BY <2>2, <2>3
<1>15. \A j \in Nodes : typ'[j] = "free" => data'[j] = Empty
  BY <1>3 DEF IInv
<1> QED
  BY ZenonT(30), <1>4, <1>6, <1>12, <1>13, <1>14, <1>15 DEF IInv, Before

\* os.WriteFile opens the file.
LEMMA CreateIInv ==
  ASSUME IInv, NEW c \in Calls, Create(c)
  PROVE  IInv'
<1>0. /\ call[c].at = "create" /\ Shape
      /\ call[c].tool = "edit_file" /\ Alone(c) =>
           IsFile(Lookup(Path(c))) /\ call[c].text = data[Lookup(Path(c))]
  BY DEF IInv, Create, At, Course
<1>1. PICK i : i = Lookup(Path(c))
  OBVIOUS
<1>2. CASE IsFile(i) /\ data' = [data EXCEPT ![i] = Empty] /\ typ' = typ
           /\ call' = [call EXCEPT ![c].at = "write", ![c].node = i]
  <2>1. i \in Nodes /\ typ[i] = "file" /\ typ' = [typ EXCEPT ![i] = "file"]
    BY <1>0, <1>2 DEF IsFile, Shape
  <2> QED
    BY ZenonT(30), <1>0, <1>1, <1>2, <2>1, Truncates
<1>3. CASE i = None /\ Free # {} /\ data' = data /\ typ' = [typ EXCEPT ![NewNode] = "file"]
           /\ call' = [call EXCEPT ![c].at = "write", ![c].node = NewNode]
  <2>1. PICK j \in Nodes : j = NewNode /\ typ[j] = "free"
    BY <1>3, NewNodeFree
  <2>2. data' = [data EXCEPT ![j] = Empty]
    BY <1>0, <1>3, <2>1 DEF IInv, Shape
  <2>3. ~(call[c].tool = "edit_file" /\ Alone(c))
    BY <1>0, <1>1, <1>3, ConstantsAssumption DEF ConstantsAssumption, IsFile
  <2> QED
    BY ZenonT(30), <1>0, <1>3, <2>1, <2>2, <2>3, Truncates
<1>4. CASE Ends(c, "failed") /\ typ' = typ /\ data' = data
  BY <1>0, <1>4, EndsQuietly
<1> QED
  BY <1>1, <1>2, <1>3, <1>4 DEF Create, Make

\* os.WriteFile writes.
LEMMA WriteIInv ==
  ASSUME IInv, NEW c \in Calls, Write(c)
  PROVE  IInv'
<1>0. /\ Shape /\ Before /\ call[c].text \in Text /\ Course(c) /\ call[c].at = "write" /\ typ' = typ
      /\ Ends(c, "ok")
  BY DEF IInv, Shape, Before, Write, At
<1>1. PICK i \in Nodes : i = call[c].node /\ typ[i] = "file"
  BY <1>0 DEF Course, IsFile
<1>2. PICK torn \in BOOLEAN :
        /\ torn => data[i] # Empty
        /\ data' = [data EXCEPT ![i] = [of |-> call[c].text.of \cup {c}, torn |-> torn \/ call[c].text.torn]]
  BY ZenonT(30), <1>1 DEF Write
<1>3. PICK v \in Text : /\ v.of = call[c].text.of \cup {c} /\ (v.torn => torn \/ call[c].text.torn)
                        /\ data' = [data EXCEPT ![i] = v]
  <2> DEFINE w == [of |-> call[c].text.of \cup {c}, torn |-> torn \/ call[c].text.torn]
  <2>1. w \in Text
    BY <1>0 DEF Text
  <2> QED
    BY ZenonT(30), <1>2, <2>1
<1>4. /\ typ' \in [Nodes -> {"free", "dir", "file"}] /\ data' \in [Nodes -> Text]
      /\ data'[i] = v /\ \A j \in Nodes \ {i} : data'[j] = data[j]
  BY <1>0, <1>3 DEF Shape
<1>5. LET k == call'[c] IN
      /\ Shape' /\ \A d \in Calls \ {c} : call'[d] = call[d]
      /\ k.at = "ok" /\ k.before = call[c].before /\ k.tool = call[c].tool /\ k.node = i
  BY <1>0, <1>1, <1>4, EndsOf
<1>6. Moves(c)
  BY <1>0, <1>1, <1>5 DEF Moves
<1>7. /\ \A d \in Calls : Overlap(c, d) => Overlap(c, d)'
      /\ \A j : Writers(j) \subseteq Writers(j)' /\ (Torn(j) => Torn(j)')
      /\ Before'
  BY <1>0, <1>6, Stays
<1>8. call[c].tool = "edit_file" \/ call[c].tool = "write_file"
  BY <1>0 DEF Course
<1>9. c \in Writers(i) /\ \A j \in Nodes \ {i} : c \notin Writers(j)
  BY <1>0, <1>1, <1>8 DEF Writers
<1>10. \A d \in Calls : Course(d)'
  <2>1. Course(c)'
    BY <1>5 DEF Course
  <2> QED
    BY <1>0, <1>6, <2>1, OthersCourse DEF IInv
<1>11. FilesWhole'
  <2> SUFFICES ASSUME NEW j \in Nodes, typ'[j] = "file"
               PROVE  /\ data'[j] = Empty => \E d \in Writers(j)' : call'[d].at \in {"write", "failed"}
                      /\ data'[j].torn => Torn(j)'
    BY DEF FilesWhole, Torn
  <2>1. CASE j = i
    <3>1. v # Empty
      BY <1>3, EmptyText
    <3>2. v.torn => Torn(i)
      <4>1. torn => Torn(i)
        BY <1>0, <1>1, <1>2, <1>9 DEF Course, Alone, Torn
      <4>2. call[c].text.torn => Torn(i)
        BY <1>0, <1>1 DEF Course
      <4> QED
        BY <1>3, <4>1, <4>2
    <3> QED
      BY <1>4, <1>7, <2>1, <3>1, <3>2
  <2>2. CASE j # i
    <3>1. /\ data[j] = Empty => \E d \in Writers(j) : call[d].at \in {"write", "failed"}
          /\ data[j].torn => Torn(j)
      BY <1>0 DEF IInv, FilesWhole, Torn
    <3>2. \A d \in Writers(j) : call'[d] = call[d]
      BY <1>5, <1>9, <2>2 DEF Writers
    <3> QED
      BY <1>4, <1>7, <2>2, <3>1, <3>2
  <2> QED
    BY <2>1, <2>2
<1>12. EditsLost'
  <2> SUFFICES ASSUME NEW j \in Nodes, NEW e \in Calls, Edited(e, j)', e \notin data'[j].of
               PROVE  \E d \in Writers(j)' \ {e} : Excuse(e, d)'
    BY DEF EditsLost, Edited, Excuse
  <2>1. e # c
    BY <1>3, <1>4, <1>5 DEF Edited
  <2>2. Edited(e, j) /\ call[e].at # "idle" /\ c \notin call'[e].before
    BY <1>0, <1>5, <2>1 DEF Edited, Before, Ended
  <2>3. CASE j = i /\ (call[c].tool = "write_file" \/ ~Alone(c))
    <3>1. Excuse(e, c)'
      BY <1>5, <1>7, <2>2, <2>3 DEF Excuse, Alone
    <3> QED
      BY <1>7, <1>9, <2>1, <2>3, <3>1
  <2>4. CASE j = i /\ call[c].tool = "edit_file" /\ Alone(c)
    <3>1. e \notin call[c].text.of
      BY <1>3, <1>4, <2>4
    <3>2. PICK d \in Writers(i) \ {c, e} : Excuse(e, d)
      BY <1>0, <1>1, <2>1, <2>2, <2>4, <3>1 DEF Course
    <3>3. d \in Calls /\ Excuse(e, d)'
      BY <1>0, <1>6, <2>2, <3>2, ExcuseStays DEF Writers
    <3> QED
      BY <1>7, <2>4, <3>2, <3>3
  <2>5. CASE j # i
    <3>1. PICK d \in Writers(j) \ {e} : Excuse(e, d)
      BY <1>4, <2>2, <2>5 DEF IInv, EditsLost, Edited, Excuse
    <3>2. d \in Calls /\ d # c
      BY <1>9, <2>5, <3>1 DEF Writers
    <3>3. Excuse(e, d)'
      BY <1>0, <1>6, <2>2, <3>1, <3>2, ExcuseStays
    <3> QED
      BY <1>7, <3>1, <3>3
  <2> QED
    BY <1>8, <2>3, <2>4, <2>5
<1>13. \A j \in Nodes : typ'[j] = "free" => data'[j] = Empty
  BY <1>0, <1>1, <1>4 DEF IInv
<1> QED
  BY <1>5, <1>7, <1>10, <1>11, <1>12, <1>13 DEF IInv, Before

-----------------------------------------------------------------------------
(* Theorems about the files *)

\* Nothing is open, and the files are what they were.
LEMMA InitIInv == Init => IInv
<1> SUFFICES ASSUME Init PROVE IInv
  OBVIOUS
<1>1. PICK type \in [Names -> {"free", "dir", "file"}] :
        /\ typ = [i \in Nodes |-> CASE i = 0 -> "dir" [] i \in Names -> type[i] [] OTHER -> "free"]
        /\ data = [i \in Nodes |-> IF i \in Names /\ type[i] = "file" THEN Whole({"was"}) ELSE Empty]
        /\ call = [c \in Calls |-> NotCalled]
  BY DEF Init
<1>2. 0 \notin Names
  BY ConstantsAssumption DEF ConstantsAssumption
<1>3. \A i \in Nodes : /\ i = 0 => typ[i] = "dir"
                       /\ i # 0 /\ i \in Names => typ[i] = type[i]
                       /\ i # 0 /\ i \notin Names => typ[i] = "free"
  BY <1>1, <1>2
<1>4. \A i \in Nodes : /\ i \in Names /\ type[i] = "file" => data[i] = Whole({"was"})
                       /\ ~(i \in Names /\ type[i] = "file") => data[i] = Empty
  BY <1>1
<1>5. Whole({"was"}) \in Text /\ Whole({"was"}) # Empty /\ Whole({"was"}).torn = FALSE
  BY DEF Whole, Text, Empty
<1>6. /\ Record(NotCalled) /\ NotCalled.text \in Text /\ NotCalled.at = "idle" /\ NotCalled.before = {}
      /\ NotCalled.tool = "none"
  BY ZenonT(30), EmptyText DEF Record, NotCalled
<1>7. \A c \in Calls : call[c] = NotCalled
  BY <1>1
<1>8. Shape
  <2>1. typ \in [Nodes -> {"free", "dir", "file"}]
    BY <1>1, <1>2, <1>3
  <2>2. data \in [Nodes -> Text]
    BY <1>1, <1>4, <1>5, EmptyText
  <2> QED
    BY <1>1, <1>6, <1>7, <2>1, <2>2 DEF Shape
<1>9. Before
  BY <1>6, <1>7 DEF Before
<1>10. \A c \in Calls : Course(c)
  BY ZenonT(30), <1>6, <1>7 DEF Course
<1>11. \A i \in Nodes : typ[i] = "free" => data[i] = Empty
  BY <1>2, <1>3, <1>4
<1>12. FilesWhole
  <2> SUFFICES ASSUME NEW i \in Nodes, typ[i] = "file" PROVE data[i] # Empty /\ ~data[i].torn
    BY DEF FilesWhole
  <2>1. data[i] = Whole({"was"})
    BY <1>2, <1>3, <1>4
  <2> QED
    BY <1>5, <2>1
<1>13. EditsLost
  BY <1>6, <1>7 DEF EditsLost
<1> QED
  BY <1>8, <1>9, <1>10, <1>11, <1>12, <1>13 DEF IInv, Before

\* Every step keeps the invariant.
LEMMA NextIInv == IInv /\ [Next]_vars => IInv'
<1> SUFFICES ASSUME IInv, [Next]_vars PROVE IInv'
  OBVIOUS
<1>1. CASE UNCHANGED vars
  <2>0. typ' = typ /\ ent' = ent /\ data' = data /\ call' = call
    BY <1>1 DEF vars
  <2>1. /\ \A c, d : Overlap(c, d)' <=> Overlap(c, d)
        /\ \A i : Writers(i)' = Writers(i)
    BY <2>0 DEF Overlap, Writers
  <2>2. Shape' /\ Before' /\ (\A i \in Nodes : typ'[i] = "free" => data'[i] = Empty)
    BY <2>0 DEF IInv, Shape, Before, Ended
  <2>3. ASSUME NEW c \in Calls PROVE Course(c)'
    <3>1. /\ Alone(c)' <=> Alone(c)
          /\ \A i : Torn(i)' <=> Torn(i)
          /\ \A e, d : Excuse(e, d)' <=> Excuse(e, d)
          /\ \A e, i : Edited(e, i)' <=> Edited(e, i)
          /\ Lookup(Path(c))' = Lookup(Path(c))
          /\ \A i : IsFile(i)' <=> IsFile(i)
      <4>1. (Alone(c)' <=> Alone(c)) /\ (\A i : Torn(i)' <=> Torn(i))
        BY <2>1 DEF Alone, Torn
      <4>2. (\A e, d : Excuse(e, d)' <=> Excuse(e, d)) /\ (\A e, i : Edited(e, i)' <=> Edited(e, i))
        BY <2>0, <2>1 DEF Excuse, Edited
      <4>3. Lookup(Path(c))' = Lookup(Path(c)) /\ (\A i : IsFile(i)' <=> IsFile(i))
        BY <2>0 DEF Lookup, Path, IsFile
      <4> QED
        BY <4>1, <4>2, <4>3
    <3> QED
      BY ZenonT(30), <2>0, <2>1, <3>1 DEF IInv, Course
  <2>4. FilesWhole' /\ EditsLost'
    BY ZenonT(30), <2>0, <2>1 DEF IInv, FilesWhole, EditsLost
  <2> QED
    BY <2>2, <2>3, <2>4 DEF IInv, Before
<1>2. ASSUME NEW c \in Calls,
             \/ CallTool(c) \/ Fails(c)
             \/ Stat(c) \/ Open(c) \/ Read(c) \/ ReadToEdit(c) \/ Create(c) \/ Write(c)
             \/ Mkdir(c) \/ ReadDir(c) \/ WalkDir(c) \/ Rename(c)
      PROVE  IInv'
  BY <1>2, CallToolIInv, StatIInv, OpenIInv, ReadIInv, ReadToEditIInv, CreateIInv, WriteIInv, MkdirIInv,
     WalkDirIInv, OtherToolsIInv
<1> QED
  BY <1>1, <1>2 DEF Next

\* Whatever calls run at the same time, a file is empty or mixed from two texts
\* only for these reasons.
THEOREM FilesystemWhole == Spec => []FilesWhole
<1>1. IInv => FilesWhole
  BY DEF IInv
<1> QED
  BY <1>1, InitIInv, NextIInv, PTL DEF Spec

\* An edit that was acknowledged is lost only to these calls.
THEOREM FilesystemEdits == Spec => []EditsLost
<1>1. IInv => EditsLost
  BY DEF IInv
<1> QED
  BY <1>1, InitIInv, NextIInv, PTL DEF Spec

-----------------------------------------------------------------------------
(* Trees of directories *)

\* Entries are of directories, lead to what was made, never to the root, and no
\* two of them to the same.
Tree(t, e) ==
  /\ t[0] = "dir"
  /\ \A i \in Nodes, n \in Names : e[<<i, n>>] # None =>
       e[<<i, n>>] \in Nodes \ {0} /\ t[e[<<i, n>>]] # "free" /\ t[i] = "dir"
  /\ \A i, j \in Nodes, n, m \in Names : e[<<i, n>>] # None /\ e[<<i, n>>] = e[<<j, m>>] => i = j /\ n = m

\* S holds the root and all that the directories in it hold.
Closed(S, e) ==
  0 \in S /\ \A i \in S, n \in Names : e[<<i, n>>] # None => e[<<i, n>>] \in S

\* All that was made can be reached from the root, but for what is in R.
Reached(t, e, R) ==
  \A S \in SUBSET Nodes : Closed(S, e) => \A i \in Nodes \ R : t[i] # "free" => i \in S

\* The free node b is made, with the name n in the directory i.
Made(t, e, t2, e2, i, n, b) ==
  /\ i \in Nodes /\ t[i] = "dir" /\ n \in Names /\ e[<<i, n>>] = None
  /\ b \in Nodes /\ t[b] = "free" /\ t2[b] \in {"dir", "file"} /\ \A k \in Nodes \ {b} : t2[k] = t[k]
  /\ \A k \in Nodes, m \in Names : e2[<<k, m>>] = IF k = i /\ m = n THEN b ELSE e[<<k, m>>]

\* A new node with one name leaves a tree a tree, and everything in it reached.
LEMMA MakeTree ==
  ASSUME NEW t, NEW e, NEW R, Tree(t, e), Reached(t, e, R), \A k \in R : t[k] = "file",
         NEW i, NEW n, NEW b, NEW t2, NEW e2, Made(t, e, t2, e2, i, n, b)
  PROVE  Tree(t2, e2) /\ Reached(t2, e2, R)
<1> USE DEF Made
<1>1. b # 0 /\ t[0] = "dir" /\ i # b /\ b # None /\ 0 \in Nodes
  BY ConstantsAssumption DEF Tree, ConstantsAssumption
<1>2. ASSUME NEW k \in Nodes, NEW m \in Names PROVE e[<<k, m>>] # b
  BY <1>1 DEF Tree
<1>3. Tree(t2, e2)
  <2>1. t2[0] = "dir"
    BY <1>1
  <2>2. ASSUME NEW k \in Nodes, NEW m \in Names, e2[<<k, m>>] # None
        PROVE  e2[<<k, m>>] \in Nodes \ {0} /\ t2[e2[<<k, m>>]] # "free" /\ t2[k] = "dir"
    <3>1. CASE k = i /\ m = n
      BY <1>1, <3>1
    <3>2. CASE ~(k = i /\ m = n)
      <4>1. e2[<<k, m>>] = e[<<k, m>>]
        BY <3>2
      <4>2. e[<<k, m>>] \in Nodes \ {0} /\ t[e[<<k, m>>]] # "free" /\ t[k] = "dir"
        BY <2>2, <4>1 DEF Tree
      <4> QED
        BY <1>2, <4>1, <4>2
    <3> QED
      BY <3>1, <3>2
  <2>3. ASSUME NEW k \in Nodes, NEW l \in Nodes, NEW m \in Names, NEW o \in Names,
               e2[<<k, m>>] # None, e2[<<k, m>>] = e2[<<l, o>>]
        PROVE  k = l /\ m = o
    BY <1>2, <2>3 DEF Tree
  <2> QED
    BY <2>1, <2>2, <2>3 DEF Tree
<1>4. Reached(t2, e2, R)
  <2> SUFFICES ASSUME NEW S \in SUBSET Nodes, Closed(S, e2), NEW k \in Nodes \ R, t2[k] # "free"
               PROVE  k \in S
    BY DEF Reached
  <2>1. Closed(S, e)
    BY DEF Closed
  <2>2. i \in S
    BY <2>1 DEF Reached
  <2>3. b \in S
    BY <1>1, <2>2 DEF Closed
  <2>4. CASE k # b
    BY <2>1, <2>4 DEF Reached
  <2> QED
    BY <2>3, <2>4
<1> QED
  BY <1>3, <1>4

\* T holds all that is below i, and b is not.
Apart(T, e, i, b) ==
  /\ T \subseteq Nodes /\ i \in T /\ b \notin T
  /\ \A k \in T, m \in Names : e[<<k, m>>] # None => e[<<k, m>>] \in T

\* i, with the name n in a, is moved to b, as m, over the file j if there is one.
Moved(t, e, e2, i, a, n, b, m, j) ==
  /\ a \in Nodes /\ t[a] = "dir" /\ n \in Names /\ i \in Nodes /\ i = e[<<a, n>>]
  /\ b \in Nodes /\ t[b] = "dir" /\ m \in Names /\ j = e[<<b, m>>] /\ (j # None => t[j] # "dir")
  /\ \A k \in Nodes, o \in Names :
       e2[<<k, o>>] = IF k = b /\ o = m THEN i ELSE IF k = a /\ o = n THEN None ELSE e[<<k, o>>]

\* So does a move to a directory that is not within what is moved; only the
\* file it replaces loses its name.
LEMMA MoveTree ==
  ASSUME NEW t \in [Nodes -> {"free", "dir", "file"}], NEW e, NEW R,
         Tree(t, e), Reached(t, e, R), \A k \in R : t[k] = "file",
         NEW i, NEW a, NEW n, NEW b, NEW m, NEW j, NEW e2, Moved(t, e, e2, i, a, n, b, m, j),
         NEW T, Apart(T, e, i, b)
  PROVE  LET R2 == R \cup ({j} \ {None, i})
         IN Tree(t, e2) /\ Reached(t, e2, R2) /\ \A k \in R2 : t[k] = "file"
<1> USE DEF Moved, Apart
<1> DEFINE R2 == R \cup ({j} \ {None, i})
<1>0. None \notin Nodes /\ 0 \in Nodes /\ t[0] = "dir"
  BY ConstantsAssumption DEF ConstantsAssumption, Tree
<1>1. i \in Nodes \ {0} /\ t[i] # "free" /\ e[<<a, n>>] # None
  BY <1>0 DEF Tree
<1>2. j # None => j \in Nodes \ {0} /\ t[j] = "file"
  BY DEF Tree
<1>3. ASSUME NEW k \in Nodes, NEW o \in Names, ~(k = a /\ o = n) PROVE e[<<k, o>>] # i
  BY <1>1, <1>3 DEF Tree
<1>4. \A k \in R2 : t[k] = "file"
  BY <1>2
<1>5. Tree(t, e2)
  <2>1. ASSUME NEW k \in Nodes, NEW o \in Names, e2[<<k, o>>] # None
        PROVE  e2[<<k, o>>] \in Nodes \ {0} /\ t[e2[<<k, o>>]] # "free" /\ t[k] = "dir"
    <3>1. CASE k = b /\ o = m
      BY <1>1, <3>1
    <3>2. CASE ~(k = b /\ o = m)
      <4>1. e2[<<k, o>>] = e[<<k, o>>] /\ e[<<k, o>>] # None
        BY <2>1, <3>2
      <4> QED
        BY <4>1 DEF Tree
    <3> QED
      BY <3>1, <3>2
  <2>2. ASSUME NEW k \in Nodes, NEW l \in Nodes, NEW o \in Names, NEW q \in Names,
               e2[<<k, o>>] # None, e2[<<k, o>>] = e2[<<l, q>>]
        PROVE  k = l /\ o = q
    <3>1. CASE k = b /\ o = m
      BY <1>3, <2>2, <3>1
    <3>2. CASE l = b /\ q = m
      BY <1>3, <2>2, <3>2
    <3>3. CASE ~(k = b /\ o = m) /\ ~(l = b /\ q = m)
      <4>1. e2[<<k, o>>] = e[<<k, o>>] /\ e2[<<l, q>>] = e[<<l, q>>]
        BY <2>2, <3>3
      <4>2. e[<<k, o>>] # None /\ e[<<k, o>>] = e[<<l, q>>]
        BY ZenonT(30), <2>2, <4>1
      <4> QED
        BY <4>2 DEF Tree
    <3> QED
      BY <3>1, <3>2, <3>3
  <2> QED
    BY SMTT(30), <1>0, <2>1, <2>2 DEF Tree
<1>6. Reached(t, e2, R2)
  <2> SUFFICES ASSUME NEW S \in SUBSET Nodes, Closed(S, e2), NEW x \in Nodes \ R2, t[x] # "free"
               PROVE  x \in S
    BY DEF Reached
  <2>0. /\ 0 \in S
        /\ \A k \in S, o \in Names : e2[<<k, o>>] # None => e2[<<k, o>>] \in S
    BY DEF Closed
  <2> DEFINE J == {j} \ {None}
  <2>1. \A k \in J : k \in Nodes /\ \A o \in Names : e[<<k, o>>] = None
    BY SMTT(30), <1>2 DEF Tree
  <2>2. ASSUME NEW k \in S, NEW o \in Names, e[<<k, o>>] # None
        PROVE  e[<<k, o>>] \in S \cup {i} \cup J
    <3>1. CASE k = b /\ o = m
      BY <2>2, <3>1
    <3>2. CASE k = a /\ o = n
      BY <3>2
    <3>3. CASE ~(k = b /\ o = m) /\ ~(k = a /\ o = n)
      <4>1. e2[<<k, o>>] = e[<<k, o>>]
        BY <3>3
      <4> QED
        BY <2>0, <2>2, <4>1
    <3> QED
      BY <3>1, <3>2, <3>3
  <2>3. b \in S
    <3>1. Closed(S \cup T \cup J, e)
      <4> SUFFICES ASSUME NEW k \in S \cup T \cup J, NEW o \in Names, e[<<k, o>>] # None
                   PROVE  e[<<k, o>>] \in S \cup T \cup J
        BY <2>0 DEF Closed
      <4>1. CASE k \in S
        BY ZenonT(30), <2>2, <4>1
      <4>2. CASE k \in T
        BY <4>2
      <4>3. CASE k \in J
        BY <2>1, <4>3
      <4> QED
        BY <4>1, <4>2, <4>3
    <3>2. S \cup T \cup J \in SUBSET Nodes
      BY <2>1
    <3>3. b \in S \cup T \cup J
      BY <3>1, <3>2 DEF Reached
    <3> QED
      BY <3>3
  <2>4. i \in S
    BY SMTT(30), <1>0, <2>0, <2>3
  <2>5. x \in S \cup J
    <3>1. Closed(S \cup J, e)
      <4> SUFFICES ASSUME NEW k \in S \cup J, NEW o \in Names, e[<<k, o>>] # None
                   PROVE  e[<<k, o>>] \in S \cup J
        BY <2>0 DEF Closed
      <4>1. CASE k \in S
        BY <2>2, <2>4, <4>1
      <4>2. CASE k \in J
        BY <2>1, <4>2
      <4> QED
        BY <4>1, <4>2
    <3>2. S \cup J \in SUBSET Nodes
      BY <2>1
    <3> QED
      BY <3>1, <3>2 DEF Reached
  <2> QED
    BY <2>4, <2>5
<1> QED
  BY <1>4, <1>5, <1>6

-----------------------------------------------------------------------------
(* The invariant of the tree and of a search *)

\* A step that takes a path has one.
Ready(k) ==
  /\ k.at \in {"stat", "open", "read", "create", "mkdir"} => k.paths # <<>>
  /\ k.at = "rename" => Len(k.paths) = 2

\* No other call has run since c began.
Undisturbed(c) == \A d \in Calls \ {c} : call[d].at = "idle" \/ d \in call[c].before

\* What a search has found are files, and the others are below the directories it
\* has yet to read.
Searched(c) ==
  call[c].tool = "search_files" /\ call[c].at \in {"readDir", "ok"} /\ Undisturbed(c) =>
    /\ \A p \in call[c].found : IsFile(Lookup(p))
    /\ \A p \in Seq(Names) : IsFile(Lookup(p)) =>
         p \in call[c].found \/ \E q \in call[c].todo : Within(q, p)
    /\ call[c].at = "ok" => call[c].todo = {}

TInv ==
  /\ TypeOK /\ \A c \in Calls : Ready(call[c])
  /\ Tree(typ, ent) /\ Reached(typ, ent, replaced) /\ \A i \in replaced : typ[i] = "file"
  /\ \A c \in Calls : Searched(c)

\* The fields of a call.
LEMMA Fields ==
  ASSUME NEW k
  PROVE  k \in CallRecord <=>
           /\ Record(k) /\ k.tool \in Tools \cup {"none"} /\ k.paths \in Seq(Paths) /\ k.dryRun \in BOOLEAN
           /\ k.at \in {"idle", "stat", "open", "read", "create", "write", "mkdir", "readDir", "rename",
                        "ok", "failed"}
           /\ k.node \in Nodes \cup {None} /\ k.text \in Text
           /\ k.todo \subseteq Seq(Names) /\ k.found \subseteq Seq(Names) /\ k.before \subseteq Calls
<1> DEFINE A == {"idle", "stat", "open", "read", "create", "write", "mkdir", "readDir", "rename", "ok", "failed"}
           N == Nodes \cup {None}
           T == Tools \cup {"none"}
           S == SUBSET Seq(Names)
           P == Seq(Paths)
           C == SUBSET Calls
<1> HIDE DEF A, N, T, S, P, C
<1>1. ASSUME k \in [tool : T, paths : P, dryRun : BOOLEAN, at : A, node : N, text : Text, todo : S, found : S, before : C]
      PROVE  /\ Record(k) /\ k.tool \in T /\ k.paths \in P /\ k.dryRun \in BOOLEAN /\ k.at \in A
             /\ k.node \in N /\ k.text \in Text /\ k.todo \in S /\ k.found \in S /\ k.before \in C
  BY <1>1 DEF Record
<1>2. ASSUME /\ Record(k) /\ k.tool \in T /\ k.paths \in P /\ k.dryRun \in BOOLEAN /\ k.at \in A
             /\ k.node \in N /\ k.text \in Text /\ k.todo \in S /\ k.found \in S /\ k.before \in C
      PROVE  k \in [tool : T, paths : P, dryRun : BOOLEAN, at : A, node : N, text : Text, todo : S, found : S, before : C]
  BY <1>2 DEF Record
<1>3. k \in CallRecord <=>
        k \in [tool : T, paths : P, dryRun : BOOLEAN, at : A, node : N, text : Text, todo : S, found : S, before : C]
  BY DEF CallRecord, T, P, A, N, S, C
<1>4. k \in CallRecord <=>
        /\ Record(k) /\ k.tool \in T /\ k.paths \in P /\ k.dryRun \in BOOLEAN /\ k.at \in A
        /\ k.node \in N /\ k.text \in Text /\ k.todo \in S /\ k.found \in S /\ k.before \in C
  BY <1>1, <1>2, <1>3
<1> QED
  BY <1>4 DEF T, P, A, N, S, C

\* A step of c makes k of it.
Becomes(c, k) ==
  /\ call' = [call EXCEPT ![c] = k] /\ k \in CallRecord /\ Ready(k)
  /\ call[c].at \notin {"ok", "failed"} /\ k.at # "idle"
  /\ k.before = IF call[c].at = "idle" THEN {d \in Calls : Ended(d)} ELSE call[c].before
  /\ k.at \in {"read", "write"} => k.node \in Nodes /\ typ'[k.node] = "file"

\* A call is answered.
LEMMA EndsBecomes ==
  ASSUME IInv, TypeOK, NEW c \in Calls, call[c].at \notin {"idle", "ok", "failed"},
         NEW x \in {"ok", "failed"}, Ends(c, x)
  PROVE  \E k : Becomes(c, k) /\ k.tool # "search_files"
<1>0. call[c] \in CallRecord
  BY DEF TypeOK
<1> DEFINE t == IF call[c].at = "write" THEN call[c].tool ELSE "none"
           n == IF call[c].at = "write" THEN call[c].node ELSE None
<1>1. PICK k : k = [NotCalled EXCEPT !.tool = t, !.node = n, !.at = x, !.before = call[c].before]
  OBVIOUS
<1>2. t \in Tools \cup {"none"} /\ n \in Nodes \cup {None} /\ call[c].before \subseteq Calls
  BY <1>0, Fields
<1>3. t # "search_files" /\ call' = [call EXCEPT ![c] = k]
  BY <1>1 DEF IInv, Course, Ends, At
<1> HIDE DEF t, n
<1>4. /\ Record(k) /\ k.at = x /\ k.before = call[c].before /\ k.tool = t /\ k.node = n /\ k.text = Empty
      /\ k.paths = <<>> /\ k.dryRun = FALSE /\ k.todo = {} /\ k.found = {}
  BY ZenonT(30), <1>1 DEF Record, NotCalled
<1>5. k \in CallRecord
  <2>1. /\ Record(k) /\ k.tool \in Tools \cup {"none"} /\ k.node \in Nodes \cup {None} /\ k.before \subseteq Calls
        /\ k.text \in Text /\ k.paths \in Seq(Paths)
        /\ k.todo \subseteq Seq(Names) /\ k.found \subseteq Seq(Names)
        /\ k.at \in {"idle", "stat", "open", "read", "create", "write", "mkdir", "readDir", "rename",
                     "ok", "failed"}
    BY <1>2, <1>4, EmptyText
  <2>2. k.dryRun \in BOOLEAN
    BY <1>4, Zenon
  <2> QED
    BY ONLY <2>1, <2>2, Fields
<1>6. Becomes(c, k)
  BY <1>3, <1>4, <1>5 DEF Becomes, Ready
<1> QED
  BY <1>3, <1>4, <1>6

\* A call begins.
LEMMA CallToolBecomes ==
  ASSUME TypeOK, NEW c \in Calls, CallTool(c)
  PROVE  \E k : /\ Becomes(c, k)
                /\ k.tool = "search_files" => k.at = "readDir" /\ k.todo = {<<>>} /\ k.found = {}
<1>0. call[c].at = "idle"
  BY DEF CallTool, At
<1>1. PICK t \in Tools : \E args \in Arguments(t) : \E k :
        /\ call' = [call EXCEPT ![c] = k] /\ Record(k) /\ k.tool = t /\ k.at = FirstStep[t]
        /\ k.paths = args /\ k.dryRun \in BOOLEAN /\ k.node = None /\ k.text = Empty
        /\ k.todo = (IF t = "search_files" THEN {<<>>} ELSE {}) /\ k.found = {}
        /\ k.before = {d \in Calls : Ended(d)}
  BY CallToolOf
<1>2. PICK args \in Arguments(t) : \E k :
        /\ call' = [call EXCEPT ![c] = k] /\ Record(k) /\ k.tool = t /\ k.at = FirstStep[t]
        /\ k.paths = args /\ k.dryRun \in BOOLEAN /\ k.node = None /\ k.text = Empty
        /\ k.todo = (IF t = "search_files" THEN {<<>>} ELSE {}) /\ k.found = {}
        /\ k.before = {d \in Calls : Ended(d)}
  BY ZenonT(30), <1>1
<1>3. PICK k :
        /\ call' = [call EXCEPT ![c] = k] /\ Record(k) /\ k.tool = t /\ k.at = FirstStep[t]
        /\ k.paths = args /\ k.dryRun \in BOOLEAN /\ k.node = None /\ k.text = Empty
        /\ k.todo = (IF t = "search_files" THEN {<<>>} ELSE {}) /\ k.found = {}
        /\ k.before = {d \in Calls : Ended(d)}
  BY ZenonT(30), <1>2
<1>4. /\ args \in Seq(Paths)
      /\ t # "search_files" => args # <<>>
      /\ t = "move_file" => Len(args) = 2
  <2>1. CASE t \in {"read_multiple_files", "move_file"}
    <3>1. PICK p \in Paths, q \in Paths : args = <<p, q>>
      BY <2>1 DEF Arguments
    <3> QED
      BY <2>1, <3>1
  <2>2. CASE t = "search_files"
    <3>1. args = <<>>
      BY <2>2 DEF Arguments
    <3> QED
      BY <2>2, <3>1
  <2>3. CASE t \notin {"read_multiple_files", "move_file", "search_files"}
    <3>1. PICK p \in Paths : args = <<p>>
      BY <2>3 DEF Arguments
    <3> QED
      BY <2>3, <3>1
  <2> QED
    BY <2>1, <2>2, <2>3
<1>5. /\ FirstStep[t] \in {"stat", "open", "create", "mkdir", "readDir", "rename"}
      /\ t = "search_files" <=> t = "search_files" /\ FirstStep[t] = "readDir"
      /\ FirstStep[t] = "rename" => t = "move_file"
  BY DEF FirstStep, Tools
<1>6. k.todo \subseteq Seq(Names) /\ k.before \subseteq Calls
  <2>1. {<<>>} \subseteq Seq(Names)
    OBVIOUS
  <2> QED
    BY ZenonT(30), <1>3, <2>1
<1>7. k \in CallRecord
  BY <1>3, <1>4, <1>5, <1>6, EmptyText, Fields
<1>8. Becomes(c, k)
  BY <1>0, <1>3, <1>4, <1>5, <1>7 DEF Becomes, Ready
<1> QED
  BY <1>3, <1>5, <1>8

\* A tool on its way.
LEMMA GoesOnBecomes ==
  ASSUME IInv, TypeOK, NEW c \in Calls, Ready(call[c]),
         Stat(c) \/ Open(c) \/ Read(c) \/ ReadToEdit(c)
  PROVE  \E k : Becomes(c, k) /\ (k.tool = "search_files" => k.at \notin {"readDir", "ok"})
<1>0. /\ call[c] \in CallRecord /\ call[c].at \in {"stat", "open", "read"}
      /\ call[c].paths \in Seq(Paths) /\ call[c].paths # <<>> /\ UNCHANGED typ /\ data \in [Nodes -> Text]
  BY Fields DEF TypeOK, Ready, Stat, Open, Read, ReadToEdit, At
<1>1. CASE \E x \in {"ok", "failed"} : Ends(c, x)
  BY <1>0, <1>1, EndsBecomes
<1>2. CASE Goes(c, "open")
  <2>1. PICK k : k = [call[c] EXCEPT !.at = "open"]
    BY ZenonT(30)
  <2>2. k \in CallRecord /\ k.at = "open" /\ k.paths = call[c].paths /\ k.before = call[c].before
    BY <1>0, <2>1 DEF CallRecord
  <2> QED
    BY ZenonT(30), <1>0, <1>2, <2>1, <2>2 DEF Becomes, Ready, Goes
<1>3. CASE IsFile(Lookup(Path(c))) /\ call' = [call EXCEPT ![c].at = "read", ![c].node = Lookup(Path(c))]
  <2>0. PICK i : i = Lookup(Path(c))
    OBVIOUS
  <2>1. PICK k : k = [call[c] EXCEPT !.at = "read", !.node = i]
    OBVIOUS
  <2>2. i \in Nodes /\ typ[i] = "file"
    BY <1>3, <2>0 DEF IsFile
  <2>3. k \in CallRecord /\ k.at = "read" /\ k.node = i /\ k.paths = call[c].paths /\ k.before = call[c].before
    BY ZenonT(30), <1>0, <2>1, <2>2 DEF CallRecord
  <2>4. call' = [call EXCEPT ![c] = k]
    BY ZenonT(30), <1>3, <2>0, <2>1
  <2> QED
    BY ZenonT(30), <1>0, <2>2, <2>3, <2>4 DEF Becomes, Ready
<1>4. CASE /\ Len(call[c].paths) # 1
           /\ call' = [call EXCEPT ![c].at = "stat", ![c].paths = Tail(@), ![c].node = None]
  <2>0. PICK p : p = Tail(call[c].paths)
    BY ZenonT(30)
  <2>1. PICK k : k = [call[c] EXCEPT !.at = "stat", !.paths = p, !.node = None]
    OBVIOUS
  <2>2. p \in Seq(Paths) /\ p # <<>>
    <3>1. PICK s \in Seq(Paths) : s = call[c].paths /\ s # <<>> /\ Len(s) # 1
      BY <1>0, <1>4
    <3>2. Tail(s) \in Seq(Paths) /\ Len(Tail(s)) = Len(s) - 1 /\ Len(s) \in Nat \ {0}
      BY <3>1
    <3>3. Len(Tail(s)) # 0 /\ Len(<<>>) = 0
      BY <3>1, <3>2
    <3> QED
      BY ZenonT(30), <2>0, <3>1, <3>2, <3>3
  <2>3. k \in CallRecord /\ k.at = "stat" /\ k.paths = p /\ k.before = call[c].before
    BY ZenonT(30), <1>0, <2>1, <2>2 DEF CallRecord
  <2>4. call' = [call EXCEPT ![c] = k]
    BY ZenonT(30), <1>4, <2>0, <2>1
  <2> QED
    BY ZenonT(30), <1>0, <2>2, <2>3, <2>4 DEF Becomes, Ready
<1>5. CASE /\ call[c].at = "read"
           /\ call' = [call EXCEPT ![c].text = data[call[c].node], ![c].node = None, ![c].at = "create"]
  <2>0. PICK t \in Text : t = data[call[c].node]
    BY <1>0, <1>5 DEF TypeOK, IsFile
  <2>1. PICK k : k = [call[c] EXCEPT !.text = t, !.node = None, !.at = "create"]
    OBVIOUS
  <2>3. k \in CallRecord /\ k.at = "create" /\ k.paths = call[c].paths /\ k.before = call[c].before
    BY ZenonT(30), <1>0, <2>0, <2>1 DEF CallRecord
  <2>4. call' = [call EXCEPT ![c] = k]
    BY ZenonT(30), <1>5, <2>0, <2>1
  <2> QED
    BY ZenonT(30), <1>0, <2>3, <2>4 DEF Becomes, Ready
<1> QED
  BY <1>1, <1>2, <1>3, <1>4, <1>5 DEF Stat, Open, Read, ReadToEdit, At

\* os.WriteFile opens its file.
LEMMA CreateBecomes ==
  ASSUME IInv, TypeOK, NEW c \in Calls, Create(c)
  PROVE  \E k : Becomes(c, k) /\ (k.tool = "search_files" => k.at \notin {"readDir", "ok"})
<1>0. call[c] \in CallRecord /\ call[c].at = "create" /\ typ \in [Nodes -> {"free", "dir", "file"}]
  BY DEF TypeOK, Create, At
<1>1. CASE Ends(c, "failed")
  BY <1>0, <1>1, EndsBecomes
<1>2. CASE \E i \in Nodes : typ'[i] = "file" /\ call' = [call EXCEPT ![c].at = "write", ![c].node = i]
  <2>0. PICK i \in Nodes : typ'[i] = "file" /\ call' = [call EXCEPT ![c].at = "write", ![c].node = i]
    BY ZenonT(30), <1>2
  <2>1. PICK k : k = [call[c] EXCEPT !.at = "write", !.node = i]
    OBVIOUS
  <2>3. k \in CallRecord /\ k.at = "write" /\ k.node = i /\ k.before = call[c].before
    BY ZenonT(30), <1>0, <2>1 DEF CallRecord
  <2>4. call' = [call EXCEPT ![c] = k]
    BY ZenonT(30), <2>0, <2>1
  <2> QED
    BY ZenonT(30), <1>0, <2>0, <2>3, <2>4 DEF Becomes, Ready
<1>3. CASE IsFile(Lookup(Path(c))) /\ UNCHANGED typ
           /\ call' = [call EXCEPT ![c].at = "write", ![c].node = Lookup(Path(c))]
  <2>1. PICK i : i = Lookup(Path(c))
    OBVIOUS
  <2> QED
    BY ZenonT(30), <1>2, <1>3, <2>1 DEF IsFile
<1>4. CASE Free # {} /\ typ' = [typ EXCEPT ![NewNode] = "file"]
           /\ call' = [call EXCEPT ![c].at = "write", ![c].node = NewNode]
  <2>1. PICK i \in Nodes : i = NewNode
    BY <1>4, NewNodeFree
  <2>2. typ'[i] = "file" /\ call' = [call EXCEPT ![c].at = "write", ![c].node = i]
    BY <1>0, <1>4, <2>1
  <2> QED
    BY ZenonT(30), <1>2, <2>2
<1> QED
  BY <1>1, <1>3, <1>4 DEF Create, Make

\* searchFiles reads a directory.
LEMMA WalkBecomes ==
  ASSUME IInv, TypeOK, NEW c \in Calls, WalkDir(c)
  PROVE  \/ \E k : Becomes(c, k) /\ k.tool # "search_files"
         \/ \E p \in call[c].todo : \E k :
              /\ IsDir(Lookup(p)) /\ Becomes(c, k)
              /\ k.found = call[c].found \cup {Append(p, n) : n \in {n \in Names : IsFile(ent[<<Lookup(p), n>>])}}
              /\ k.todo = (call[c].todo \ {p})
                            \cup {Append(p, n) : n \in {n \in Names : IsDir(ent[<<Lookup(p), n>>])}}
              /\ k.at = IF k.todo = {} THEN "ok" ELSE "readDir"
<1>0. /\ call[c] \in CallRecord /\ call[c].at = "readDir" /\ call[c].todo \subseteq Seq(Names)
      /\ call[c].found \subseteq Seq(Names)
  BY Fields DEF TypeOK, WalkDir, At
<1>1. PICK p \in call[c].todo : Visit(c, p)
  BY DEF WalkDir
<1>2. CASE ~IsDir(Lookup(p))
  <2>1. Ends(c, "failed")
    BY <1>1, <1>2 DEF Visit
  <2> QED
    BY ZenonT(30), <1>0, <2>1, EndsBecomes
<1>3. CASE IsDir(Lookup(p))
  <2> DEFINE files == {Append(p, n) : n \in {n \in Names : IsFile(ent[<<Lookup(p), n>>])}}
             dirs == {Append(p, n) : n \in {n \in Names : IsDir(ent[<<Lookup(p), n>>])}}
  <2>1. PICK fs : fs = call[c].found \cup files
    BY ZenonT(30)
  <2>2. PICK ts : ts = (call[c].todo \ {p}) \cup dirs
    BY ZenonT(30)
  <2>3. fs \subseteq Seq(Names) /\ ts \subseteq Seq(Names)
    <3>1. p \in Seq(Names)
      BY <1>0
    <3>2. \A n \in Names : Append(p, n) \in Seq(Names)
      BY <3>1
    <3>3. files \subseteq Seq(Names) /\ dirs \subseteq Seq(Names)
      BY ONLY ZenonT(30), <3>2
    <3> HIDE DEF files, dirs
    <3> QED
      BY ONLY <1>0, <2>1, <2>2, <3>3
  <2>4. PICK x \in {"ok", "readDir"} : x = IF ts = {} THEN "ok" ELSE "readDir"
    OBVIOUS
  <2>5. call' = [call EXCEPT ![c].found = fs, ![c].todo = ts, ![c].at = x]
    BY ZenonT(30), <1>1, <1>3, <2>1, <2>2, <2>4 DEF Visit
  <2> HIDE DEF files, dirs
  <2>6. PICK k : k = [call[c] EXCEPT !.found = fs, !.todo = ts, !.at = x]
    OBVIOUS
  <2>7. /\ k \in CallRecord /\ k.at = x /\ k.found = fs /\ k.todo = ts /\ k.before = call[c].before
    <3>1. fs \in SUBSET Seq(Names) /\ ts \in SUBSET Seq(Names)
      BY <2>3
    <3> DEFINE S == SUBSET Seq(Names)
    <3> HIDE DEF S
    <3>2. fs \in S /\ ts \in S
      BY <3>1 DEF S
    <3> QED
      BY ONLY ZenonT(30), <1>0, <2>6, <3>2 DEF CallRecord, S
  <2>8. call' = [call EXCEPT ![c] = k]
    BY ZenonT(30), <2>5, <2>6
  <2>9. Becomes(c, k)
    BY <1>0, <2>7, <2>8 DEF Becomes, Ready
  <2> QED
    BY ZenonT(30), <1>3, <2>1, <2>2, <2>4, <2>7, <2>9 DEF files, dirs
<1> QED
  BY ZenonT(30), <1>2, <1>3

\* Every step.
LEMMA StepBecomes ==
  ASSUME IInv, TypeOK, NEW c \in Calls, Ready(call[c]),
         \/ Fails(c) \/ Stat(c) \/ Open(c) \/ Read(c) \/ ReadToEdit(c) \/ Create(c) \/ Write(c)
         \/ Mkdir(c) \/ ReadDir(c) \/ Rename(c)
  PROVE  \E k : Becomes(c, k) /\ (k.tool = "search_files" => k.at \notin {"readDir", "ok"})
<1>1. CASE /\ call[c].at \notin {"idle", "ok", "failed"}
           /\ \E x \in {"ok", "failed"} : Ends(c, x)
  BY <1>1, EndsBecomes
<1>2. CASE Fails(c) \/ Write(c) \/ ReadDir(c) \/ Rename(c)
  BY ZenonT(30), <1>1, <1>2 DEF Fails, Write, ReadDir, Rename, At
<1>3. CASE Mkdir(c)
  <2>1. call[c].at = "mkdir" /\ (call' = call \/ \E x \in {"ok", "failed"} : Ends(c, x))
    BY ZenonT(30), <1>3 DEF Mkdir, At
  <2>2. CASE call' = call
    <3>1. call' = [call EXCEPT ![c] = call[c]] /\ call[c] \in CallRecord
      BY <2>2 DEF TypeOK
    <3> QED
      BY ZenonT(30), <2>1, <3>1 DEF Becomes
  <2> QED
    BY ZenonT(30), <1>1, <2>1, <2>2
<1> QED
  BY <1>2, <1>3, GoesOnBecomes, CreateBecomes

\* A search starts at the root.
LEMMA CallToolSearched ==
  ASSUME IInv, TInv, NEW c \in Calls, CallTool(c)
  PROVE  Searched(c)'
<1>1. PICK k : /\ Becomes(c, k)
               /\ k.tool = "search_files" => k.at = "readDir" /\ k.todo = {<<>>} /\ k.found = {}
  BY CallToolBecomes DEF TInv
<1>2. call'[c] = k
  BY ZenonT(30), <1>1 DEF Becomes, TInv, TypeOK
<1>3. \A p \in Seq(Names) : Within(<<>>, p)
  <2> TAKE p \in Seq(Names)
  <2>1. SubSeq(p, 1, 0) = <<>> /\ Len(<<>>) = 0 /\ Len(p) \in Nat
    OBVIOUS
  <2> QED
    BY <2>1 DEF Within
<1> QED
  BY <1>1, <1>2, <1>3 DEF Searched

\* The root holds what was there, and no call has begun.
LEMMA InitTInv == Init => TInv
<1> SUFFICES ASSUME Init PROVE TInv
  OBVIOUS
<1>0. IInv
  BY InitIInv
<1>1. PICK type \in [Names -> {"free", "dir", "file"}] :
        /\ typ = [i \in Nodes |-> CASE i = 0 -> "dir" [] i \in Names -> type[i] [] OTHER -> "free"]
        /\ ent = [e \in Nodes \X Names |-> IF e[1] = 0 /\ type[e[2]] # "free" THEN e[2] ELSE None]
        /\ replaced = {} /\ call = [c \in Calls |-> NotCalled]
  BY DEF Init
<1>2. 0 \in Nodes /\ Names \subseteq Nodes /\ 0 \notin Names /\ None \notin Nodes
  BY ConstantsAssumption DEF ConstantsAssumption
<1>3. \A i \in Nodes : /\ i = 0 => typ[i] = "dir"
                       /\ i # 0 /\ i \in Names => typ[i] = type[i]
                       /\ i # 0 /\ i \notin Names => typ[i] = "free"
  BY <1>1, <1>2
<1>4. /\ ent \in [Nodes \X Names -> Nodes \cup {None}]
      /\ \A i \in Nodes, n \in Names : ent[<<i, n>>] = IF i = 0 /\ type[n] # "free" THEN n ELSE None
  BY <1>1, <1>2
<1>5. Tree(typ, ent)
  BY <1>2, <1>3, <1>4 DEF Tree
<1>6. Reached(typ, ent, replaced)
  <2> SUFFICES ASSUME NEW S \in SUBSET Nodes, Closed(S, ent), NEW i \in Nodes, typ[i] # "free"
               PROVE  i \in S
    BY DEF Reached
  <2>1. CASE i = 0
    BY <2>1 DEF Closed
  <2>2. CASE i # 0
    <3>1. i \in Names /\ ent[<<0, i>>] = i /\ i # None
      BY <1>2, <1>3, <1>4, <2>2
    <3> QED
      BY <3>1 DEF Closed
  <2> QED
    BY <2>1, <2>2
<1>7. NotCalled \in CallRecord /\ Ready(NotCalled) /\ NotCalled.tool = "none" /\ NotCalled.at = "idle"
  <2>1. /\ NotCalled.tool = "none" /\ NotCalled.at = "idle" /\ NotCalled.paths = <<>> /\ NotCalled.node = None
        /\ NotCalled.text = Empty /\ NotCalled.todo = {} /\ NotCalled.found = {} /\ NotCalled.before = {}
    BY DEF NotCalled
  <2>2. NotCalled \in CallRecord
    <3>1. <<>> \in Seq(Paths) /\ {} \subseteq Seq(Names)
      OBVIOUS
    <3> QED
      BY ZenonT(30), <3>1, EmptyText DEF NotCalled, CallRecord
  <2> QED
    BY <2>1, <2>2 DEF Ready
<1>8. \A c \in Calls : call[c] = NotCalled
  BY <1>1
<1>9. TypeOK
  <2>1. call \in [Calls -> CallRecord] /\ replaced \subseteq Nodes
    BY <1>1, <1>7
  <2> QED
    BY ZenonT(30), <1>0, <1>4, <2>1 DEF IInv, Shape, Course, TypeOK
<1>10. \A c \in Calls : Ready(call[c]) /\ Searched(c)
  BY ZenonT(30), <1>7, <1>8 DEF Searched
<1> QED
  BY <1>1, <1>5, <1>6, <1>9, <1>10 DEF TInv

-----------------------------------------------------------------------------
(* Where paths lead to *)

INSTANCE WellFoundedInduction

\* Every set of numbers has a least one.
LEMMA Least ==
  ASSUME NEW T \in SUBSET Nat, T # {}
  PROVE  \E x \in T : \A y \in T : x <= y
<1>1. PICK x \in T : \A y \in T : ~(<<y, x>> \in OpToRel(<, Nat))
  BY NatLessThanWellFounded, WFMin, Zenon
<1>2. \A y \in T : ~(y < x)
  BY ZenonT(30), <1>1 DEF OpToRel
<1> QED
  BY <1>2

\* w[k] is where the first k names of p lead to.
IsWalk(w, t, e, p) == w = [k \in 0..Len(p) |-> IF k = 0 THEN 0 ELSE Go(t, e, w[k - 1], p[k])]

\* A path without its last name.
LEMMA Shorter ==
  ASSUME NEW S, NEW p \in Seq(S), p # <<>>
  PROVE  \E q \in Seq(S), n \in S : p = Append(q, n) /\ Len(p) = Len(q) + 1
<1>1. Len(p) \in Nat \ {0} /\ p[Len(p)] \in S
  OBVIOUS
<1> DEFINE q == [k \in 1..(Len(p) - 1) |-> p[k]]
<1>2. q \in Seq(S) /\ Len(q) = Len(p) - 1
  BY <1>1
<1>3. p = Append(q, p[Len(p)])
  BY <1>1, <1>2
<1>4. Len(p) = Len(q) + 1
  BY <1>1, <1>2
<1> HIDE DEF q
<1> QED
  BY <1>1, <1>2, <1>3, <1>4

\* A walk goes on by a name.
LEMMA WalkExtends ==
  ASSUME NEW t, NEW e, NEW q \in Seq(Names), NEW n \in Names, NEW w, IsWalk(w, t, e, q)
  PROVE  \E v : /\ IsWalk(v, t, e, Append(q, n)) /\ v[Len(q)] = w[Len(q)]
                /\ v[Len(q) + 1] = Go(t, e, w[Len(q)], n)
<1> DEFINE p == Append(q, n)
           v == [k \in 0..Len(p) |-> IF k = Len(p) THEN Go(t, e, w[Len(q)], n) ELSE w[k]]
<1>1. Len(p) = Len(q) + 1 /\ Len(q) \in Nat /\ p[Len(p)] = n /\ \A k \in 1..Len(q) : p[k] = q[k]
  OBVIOUS
<1> HIDE DEF p
<1>2. \A k \in 0..Len(q) : v[k] = w[k] /\ w[k] = IF k = 0 THEN 0 ELSE Go(t, e, w[k - 1], q[k])
  BY <1>1 DEF IsWalk
<1>3. v[Len(p)] = Go(t, e, v[Len(p) - 1], p[Len(p)])
  BY <1>1, <1>2
<1>6. v = [k \in 0..Len(p) |-> v[k]]
  OBVIOUS
<1> HIDE DEF v
<1>4. ASSUME NEW k \in 0..Len(p) PROVE v[k] = IF k = 0 THEN 0 ELSE Go(t, e, v[k - 1], p[k])
  <2>1. CASE k = Len(p)
    BY <1>1, <1>3, <2>1
  <2>2. CASE k = 0
    <3>1. 0 \in 0..Len(q) /\ 0 # Len(p)
      BY <1>1
    <3>2. v[0] = 0
      BY ZenonT(30), <1>2, <3>1
    <3> QED
      BY <2>2, <3>2
  <2>3. CASE k \in 1..Len(q)
    <3>1. k - 1 \in 0..Len(q) /\ k \in 0..Len(q) /\ k # 0 /\ p[k] = q[k]
      BY <1>1, <2>3
    <3>2. v[k] = w[k] /\ w[k] = Go(t, e, w[k - 1], q[k]) /\ v[k - 1] = w[k - 1]
      BY ZenonT(30), <1>2, <3>1
    <3> QED
      BY <3>1, <3>2
  <2>4. k = Len(p) \/ k = 0 \/ k \in 1..Len(q)
    BY <1>1
  <2> QED
    BY ZenonT(30), <2>1, <2>2, <2>3, <2>4
<1>5. IsWalk(v, t, e, p)
  BY ZenonT(30), <1>4, <1>6 DEF IsWalk
<1> QED
  BY <1>1, <1>2, <1>3, <1>5 DEF p

\* There is a walk along every path,
LEMMA WalkExists ==
  ASSUME NEW t, NEW e
  PROVE  \A p \in Seq(Names) : \E w : IsWalk(w, t, e, p)
<1> DEFINE T == {m \in Nat : \E p \in Seq(Names) : Len(p) = m /\ ~\E w : IsWalk(w, t, e, p)}
<1> SUFFICES ASSUME T # {} PROVE FALSE
  OBVIOUS
<1>1. PICK m \in T : \A j \in T : m <= j
  BY ZenonT(30), Least
<1>2. PICK p \in Seq(Names) : Len(p) = m /\ ~\E w : IsWalk(w, t, e, p)
  BY <1>1
<1>3. CASE p = <<>>
  <2>1. IsWalk([k \in 0..0 |-> 0], t, e, p)
    BY <1>3 DEF IsWalk
  <2> QED
    BY <1>2, <2>1
<1>4. CASE p # <<>>
  <2>1. PICK q \in Seq(Names), n \in Names : p = Append(q, n) /\ Len(p) = Len(q) + 1
    BY <1>4, Shorter
  <2>2. Len(q) \in Nat /\ Len(q) < m
    BY <1>2, <2>1
  <2>3. PICK w : IsWalk(w, t, e, q)
    BY <1>1, <2>2
  <2> QED
    BY <1>2, <2>1, <2>3, WalkExtends
<1> QED
  BY <1>3, <1>4

\* and only one.
LEMMA WalkUnique ==
  ASSUME NEW t, NEW e, NEW p \in Seq(Names), NEW w, NEW v, IsWalk(w, t, e, p), IsWalk(v, t, e, p)
  PROVE  w = v
<1>0. Len(p) \in Nat
  OBVIOUS
<1> DEFINE T == {m \in Nat : m \in 0..Len(p) /\ w[m] # v[m]}
<1>1. CASE T # {}
  <2>1. PICK m \in T : \A j \in T : m <= j
    BY ZenonT(30), <1>1, Least
  <2>2. m # 0
    BY <1>0, <2>1 DEF IsWalk
  <2>3. w[m - 1] = v[m - 1]
    BY <1>0, <2>1, <2>2
  <2>4. w[m] = Go(t, e, w[m - 1], p[m]) /\ v[m] = Go(t, e, v[m - 1], p[m])
    BY <2>1, <2>2 DEF IsWalk
  <2> QED
    BY <2>1, <2>3, <2>4
<1>2. CASE T = {}
  <2>1. \A k \in 0..Len(p) : w[k] = v[k]
    BY <1>0, <1>2
  <2>2. w = [k \in 0..Len(p) |-> w[k]] /\ v = [k \in 0..Len(p) |-> v[k]]
    BY DEF IsWalk
  <2> QED
    BY <2>1, <2>2
<1> QED
  BY <1>1, <1>2

\* It is the one LookupIn defines.
LEMMA LookupWalk ==
  ASSUME NEW t, NEW e, NEW p \in Seq(Names), NEW w, IsWalk(w, t, e, p)
  PROVE  LookupIn(t, e, p) = w[Len(p)]
<1> DEFINE W == CHOOSE v : IsWalk(v, t, e, p)
<1>1. IsWalk(W, t, e, p)
  OBVIOUS
<1>2. LookupIn(t, e, p) = W[Len(p)]
  BY DEF LookupIn, IsWalk, Go
<1> QED
  BY <1>1, <1>2, WalkUnique

\* A path and the directory and the name it ends with.
LEMMA DirBase ==
  ASSUME NEW p \in Seq(Names), p # <<>>
  PROVE  /\ Dir(p) \in Seq(Names) /\ Base(p) \in Names /\ p = Append(Dir(p), Base(p))
         /\ Len(p) \in Nat /\ Len(Dir(p)) = Len(p) - 1
<1>1. PICK q \in Seq(Names), n \in Names : p = Append(q, n) /\ Len(p) = Len(q) + 1
  BY Shorter
<1>2. Dir(p) = q /\ Base(p) = n
  <2>1. Len(q) \in Nat /\ p[Len(p)] = n
    BY <1>1
  <2>2. SubSeq(p, 1, Len(q)) = q
    BY <1>1
  <2> QED
    BY <1>1, <2>1, <2>2 DEF Dir, Base
<1> QED
  BY <1>1, <1>2

\* Where a path leads to, name by name.
LEMMA LookupEmpty ==
  ASSUME NEW t, NEW e
  PROVE  LookupIn(t, e, <<>>) = 0
<1>1. <<>> \in Seq(Names) /\ Len(<<>>) = 0
  OBVIOUS
<1>2. PICK w : IsWalk(w, t, e, <<>>)
  BY ZenonT(30), <1>1, WalkExists
<1>3. w[0] = 0
  BY <1>1, <1>2 DEF IsWalk
<1> QED
  BY ZenonT(30), <1>1, <1>2, <1>3, LookupWalk

\* A path leads where its last name leads from the directory it is in.
LEMMA LookupAppend ==
  ASSUME NEW t, NEW e, NEW p \in Seq(Names), NEW n \in Names
  PROVE  LookupIn(t, e, Append(p, n)) = Go(t, e, LookupIn(t, e, p), n)
<1>1. PICK w : IsWalk(w, t, e, p)
  BY ZenonT(30), WalkExists
<1>2. PICK v : /\ IsWalk(v, t, e, Append(p, n)) /\ v[Len(p)] = w[Len(p)]
               /\ v[Len(p) + 1] = Go(t, e, w[Len(p)], n)
  BY <1>1, WalkExtends
<1>3. Append(p, n) \in Seq(Names) /\ Len(Append(p, n)) = Len(p) + 1
  OBVIOUS
<1>4. LookupIn(t, e, p) = w[Len(p)]
  BY <1>1, LookupWalk
<1>5. LookupIn(t, e, Append(p, n)) = v[Len(p) + 1]
  BY ZenonT(30), <1>2, <1>3, LookupWalk
<1> QED
  BY <1>2, <1>4, <1>5

\* What a path leads to is in the directory that the path without its last name
\* leads to.
LEMMA LookupParent ==
  ASSUME NEW t, NEW e, NEW q \in Seq(Names), NEW n \in Names, LookupIn(t, e, Append(q, n)) # None
  PROVE  /\ LookupIn(t, e, q) \in Nodes /\ t[LookupIn(t, e, q)] = "dir"
         /\ LookupIn(t, e, Append(q, n)) = e[<<LookupIn(t, e, q), n>>]
BY LookupAppend DEF Go

\* A path leads to a node or nowhere.
LEMMA LookupNode ==
  ASSUME NEW t, NEW e, Tree(t, e), NEW p \in Seq(Names), LookupIn(t, e, p) # None
  PROVE  LookupIn(t, e, p) \in Nodes /\ (LookupIn(t, e, p) = 0 <=> p = <<>>)
<1>1. CASE p = <<>>
  BY <1>1, LookupEmpty, ConstantsAssumption DEF ConstantsAssumption
<1>2. CASE p # <<>>
  <2>1. PICK q \in Seq(Names), n \in Names : p = Append(q, n) /\ Len(p) = Len(q) + 1
    BY <1>2, Shorter
  <2> DEFINE i == LookupIn(t, e, q)
  <2>2. i \in Nodes /\ LookupIn(t, e, p) = e[<<i, n>>]
    BY <2>1, LookupParent
  <2> HIDE DEF i
  <2>3. e[<<i, n>>] # None
    BY <2>2
  <2>4. e[<<i, n>>] \in Nodes \ {0}
    BY <2>2, <2>3 DEF Tree
  <2> QED
    BY <1>2, <2>2, <2>4
<1> QED
  BY <1>1, <1>2

\* No two paths lead to the same node.
LEMMA OnePath ==
  ASSUME NEW t, NEW e, Tree(t, e), NEW p \in Seq(Names), NEW q \in Seq(Names),
         LookupIn(t, e, p) # None, LookupIn(t, e, p) = LookupIn(t, e, q)
  PROVE  p = q
<1> DEFINE L(x) == LookupIn(t, e, x)
           Two(x, y) == L(x) # None /\ L(x) = L(y) /\ x # y
           T == {m \in Nat : \E x, y \in Seq(Names) : Len(x) = m /\ Two(x, y)}
<1> SUFFICES ASSUME Two(p, q) PROVE FALSE
  OBVIOUS
<1> HIDE DEF L
<1>0. Len(p) \in T /\ T \subseteq Nat
  OBVIOUS
<1>1. PICK m \in T : \A j \in T : m <= j
  BY ZenonT(30), <1>0, Least
<1>2. PICK x \in Seq(Names), y \in Seq(Names) : Len(x) = m /\ Two(x, y)
  BY <1>1
<1>3. x # <<>> /\ y # <<>>
  BY <1>2, LookupNode DEF L
<1>4. PICK a \in Seq(Names), n \in Names : x = Append(a, n) /\ Len(x) = Len(a) + 1
  BY <1>3, Shorter
<1>5. PICK b \in Seq(Names), k \in Names : y = Append(b, k) /\ Len(y) = Len(b) + 1
  BY <1>3, Shorter
<1>6. /\ L(a) \in Nodes /\ L(b) \in Nodes /\ L(x) = e[<<L(a), n>>] /\ L(y) = e[<<L(b), k>>]
  <2>1. LookupIn(t, e, Append(a, n)) # None /\ LookupIn(t, e, Append(b, k)) # None
    BY <1>2, <1>4, <1>5 DEF L
  <2>2. /\ LookupIn(t, e, a) \in Nodes
        /\ LookupIn(t, e, Append(a, n)) = e[<<LookupIn(t, e, a), n>>]
    BY <2>1, LookupParent
  <2>3. /\ LookupIn(t, e, b) \in Nodes
        /\ LookupIn(t, e, Append(b, k)) = e[<<LookupIn(t, e, b), k>>]
    BY <2>1, LookupParent
  <2> QED
    BY ZenonT(30), <1>4, <1>5, <2>2, <2>3 DEF L
<1>7. L(a) = L(b) /\ n = k
  <2>1. e[<<L(a), n>>] # None /\ e[<<L(a), n>>] = e[<<L(b), k>>]
    BY ZenonT(30), <1>2, <1>6
  <2> QED
    BY SMTT(30), <1>6, <2>1 DEF Tree
<1>8. L(a) # None /\ a # b
  BY <1>2, <1>4, <1>5, <1>6, <1>7, ConstantsAssumption DEF ConstantsAssumption
<1>9. Len(a) \in T /\ Len(a) < m
  BY <1>2, <1>4, <1>7, <1>8
<1> QED
  BY <1>1, <1>9

\* On the way to where a path leads are directories.
LEMMA OnTheWay ==
  ASSUME NEW t, NEW e, NEW p \in Seq(Names), LookupIn(t, e, p) # None, NEW k \in 0..(Len(p) - 1)
  PROVE  LET i == LookupIn(t, e, SubSeq(p, 1, k)) IN i \in Nodes /\ t[i] = "dir"
<1> DEFINE L(x) == LookupIn(t, e, x)
           D(i) == i \in Nodes /\ t[i] = "dir"
           Gap(x, j) == L(x) # None /\ ~D(L(SubSeq(x, 1, j)))
           T == {m \in Nat : \E x \in Seq(Names) : Len(x) = m /\ \E j \in 0..(m - 1) : Gap(x, j)}
<1> SUFFICES ASSUME Gap(p, k) PROVE FALSE
  OBVIOUS
<1> HIDE DEF L, D
<1>0. Len(p) \in T /\ T \subseteq Nat
  OBVIOUS
<1>1. PICK m \in T : \A j \in T : m <= j
  BY ZenonT(30), <1>0, Least
<1>2. PICK x \in Seq(Names) : Len(x) = m /\ \E j \in 0..(m - 1) : Gap(x, j)
  BY <1>1
<1>3. PICK j \in 0..(m - 1) : Gap(x, j)
  BY <1>2
<1>4. x # <<>>
  BY <1>2, <1>3
<1>5. PICK a \in Seq(Names), n \in Names : x = Append(a, n) /\ Len(x) = Len(a) + 1
  BY <1>4, Shorter
<1>6. D(L(a)) /\ L(a) # None
  <2>1. LookupIn(t, e, Append(a, n)) # None
    BY <1>3, <1>5 DEF L
  <2>2. D(L(a))
    BY ZenonT(30), <2>1, LookupParent DEF L, D
  <2> QED
    BY <2>2, ConstantsAssumption DEF D, ConstantsAssumption
<1>7. j \in 0..Len(a) /\ SubSeq(x, 1, j) = SubSeq(a, 1, j)
  BY <1>2, <1>5
<1>8. CASE j = Len(a)
  <2>1. SubSeq(a, 1, j) = a
    BY <1>8
  <2> QED
    BY ZenonT(30), <1>3, <1>6, <1>7, <2>1
<1>9. CASE j # Len(a)
  <2>1. Gap(a, j)
    BY ZenonT(30), <1>3, <1>6, <1>7
  <2>3. Len(a) \in Nat /\ j \in 0..(Len(a) - 1)
    BY <1>7, <1>9
  <2> HIDE DEF Gap
  <2>2. Len(a) \in T /\ Len(a) < m
    BY <1>2, <1>5, <2>1, <2>3
  <2> QED
    BY <1>1, <2>2
<1> QED
  BY <1>8, <1>9

\* What can be reached has a path.
LEMMA ReachedByPath ==
  ASSUME NEW t, NEW e, NEW R, Tree(t, e), Reached(t, e, R), NEW i \in Nodes \ R, t[i] # "free"
  PROVE  \E p \in Seq(Names) : LookupIn(t, e, p) = i
<1> DEFINE S == {j \in Nodes : \E p \in Seq(Names) : LookupIn(t, e, p) = j}
<1>1. 0 \in S
  <2>1. <<>> \in Seq(Names) /\ LookupIn(t, e, <<>>) = 0
    BY LookupEmpty
  <2> QED
    BY ZenonT(30), <2>1, ConstantsAssumption DEF ConstantsAssumption
<1>2. ASSUME NEW j \in S, NEW n \in Names, e[<<j, n>>] # None PROVE e[<<j, n>>] \in S
  <2>1. PICK p \in Seq(Names) : LookupIn(t, e, p) = j
    OBVIOUS
  <2>2. e[<<j, n>>] \in Nodes /\ t[j] = "dir"
    BY <1>2 DEF Tree
  <2>3. LookupIn(t, e, Append(p, n)) = e[<<j, n>>] /\ Append(p, n) \in Seq(Names)
    BY <2>1, <2>2, LookupAppend DEF Go
  <2> QED
    BY ZenonT(30), <2>2, <2>3
<1>3. S \in SUBSET Nodes /\ Closed(S, e)
  BY <1>1, <1>2 DEF Closed
<1>4. i \in S
  BY <1>3 DEF Reached
<1> QED
  BY <1>4

\* What is below src, and where dst goes to is not, unless dst is below src.
LEMMA Subtree ==
  ASSUME NEW t, NEW e, Tree(t, e), NEW src \in Seq(Names), NEW dst \in Seq(Names), dst # <<>>,
         NEW i \in Nodes, i = LookupIn(t, e, src), NEW b \in Nodes, b = LookupIn(t, e, Dir(dst)), t[b] = "dir",
         t[i] = "dir" => ~Within(src, dst)
  PROVE  \E T : Apart(T, e, i, b)
<1>0. None \notin Nodes
  BY ConstantsAssumption DEF ConstantsAssumption
<1>1. CASE t[i] # "dir"
  <2>1. \A m \in Names : e[<<i, m>>] = None
    BY <1>1 DEF Tree
  <2>2. Apart({i}, e, i, b)
    BY <1>1, <2>1 DEF Apart
  <2> QED
    BY <2>2
<1>2. CASE t[i] = "dir"
  <2> DEFINE T == {k \in Nodes : \E r \in Seq(Names) : LookupIn(t, e, src \o r) = k}
  <2>1. i \in T
    <3>1. <<>> \in Seq(Names) /\ src \o <<>> = src
      OBVIOUS
    <3> QED
      BY ZenonT(30), <3>1
  <2>2. ASSUME NEW k \in T, NEW m \in Names, e[<<k, m>>] # None PROVE e[<<k, m>>] \in T
    <3>1. PICK r \in Seq(Names) : LookupIn(t, e, src \o r) = k
      OBVIOUS
    <3>2. e[<<k, m>>] \in Nodes /\ t[k] = "dir"
      BY <2>2 DEF Tree
    <3>3. /\ src \o r \in Seq(Names) /\ Append(r, m) \in Seq(Names)
          /\ src \o Append(r, m) = Append(src \o r, m)
      OBVIOUS
    <3>4. LookupIn(t, e, Append(src \o r, m)) = e[<<k, m>>]
      BY ZenonT(30), <3>1, <3>2, <3>3, LookupAppend DEF Go
    <3> QED
      BY ZenonT(30), <3>2, <3>3, <3>4
  <2>3. b \notin T
    <3> SUFFICES ASSUME NEW r \in Seq(Names), LookupIn(t, e, src \o r) = b PROVE FALSE
      OBVIOUS
    <3>1. Dir(dst) \in Seq(Names) /\ dst = Append(Dir(dst), Base(dst)) /\ src \o r \in Seq(Names)
      BY DirBase
    <3>2. src \o r = Dir(dst)
      BY ZenonT(30), <1>0, <3>1, OnePath
    <3>3. dst = Append(src \o r, Base(dst))
      BY <3>1, <3>2
    <3>4. Len(src) <= Len(dst) /\ src = SubSeq(dst, 1, Len(src))
      <4>1. /\ Len(src) \in Nat /\ Len(r) \in Nat /\ Len(src \o r) = Len(src) + Len(r)
            /\ \A k \in 1..Len(src) : (src \o r)[k] = src[k]
        OBVIOUS
      <4>2. PICK s \in Seq(Names) : s = src \o r
        BY ZenonT(30), <3>1
      <4>3. Base(dst) \in Names
        BY DirBase
      <4>4. Len(dst) = Len(s) + 1 /\ \A k \in 1..Len(s) : dst[k] = s[k]
        BY ONLY <3>3, <4>2, <4>3
      <4>5. Len(src) <= Len(dst) /\ \A k \in 1..Len(src) : dst[k] = src[k]
        BY ONLY <4>1, <4>2, <4>4
      <4>6. SubSeq(dst, 1, Len(src)) \in Seq(Names) /\ Len(SubSeq(dst, 1, Len(src))) = Len(src)
            /\ \A k \in 1..Len(src) : SubSeq(dst, 1, Len(src))[k] = dst[k]
        BY <4>1, <4>5
      <4> QED
        BY ONLY <4>1, <4>5, <4>6, src \in Seq(Names)
    <3> QED
      BY <1>2, <3>4 DEF Within
  <2> HIDE DEF T
  <2>4. T \subseteq Nodes
    BY DEF T
  <2>5. Apart(T, e, i, b)
    BY <2>1, <2>2, <2>3, <2>4 DEF Apart
  <2> QED
    BY <2>5
<1> QED
  BY <1>1, <1>2

-----------------------------------------------------------------------------
(* The tree *)

Forest ==
  /\ typ \in [Nodes -> {"free", "dir", "file"}] /\ ent \in [Nodes \X Names -> Nodes \cup {None}]
  /\ replaced \subseteq Nodes /\ \A i \in replaced : typ[i] = "file"
  /\ Tree(typ, ent) /\ Reached(typ, ent, replaced)

\* A file or directory is made.
LEMMA MakeForest ==
  ASSUME Forest, NEW p \in Seq(Names), p # <<>>, NEW x \in {"dir", "file"}, Lookup(p) = None,
         IsDir(Lookup(Dir(p))), Free # {}, Make(p, x), replaced' = replaced
  PROVE  Forest'
<1>1. PICK b \in Nodes : b = NewNode /\ typ[b] = "free"
  BY NewNodeFree
<1>2. PICK i : i = Lookup(Dir(p))
  OBVIOUS
<1>3. PICK q \in Seq(Names), n \in Names : q = Dir(p) /\ n = Base(p) /\ p = Append(q, n)
  BY DirBase
<1>4. i \in Nodes /\ typ[i] = "dir"
  BY <1>2 DEF IsDir
<1>5. ent[<<i, n>>] = None
  <2>1. Lookup(p) = Go(typ, ent, i, n)
    <3>1. LookupIn(typ, ent, Append(q, n)) = Go(typ, ent, LookupIn(typ, ent, q), n)
      BY LookupAppend
    <3> QED
      BY <1>2, <1>3, <3>1 DEF Lookup
  <2> QED
    BY <1>4, <2>1 DEF Go
<1>6. typ' = [typ EXCEPT ![b] = x] /\ ent' = [ent EXCEPT ![<<i, n>>] = b]
  BY <1>1, <1>2, <1>3 DEF Make, Entry
<1>7. /\ typ' \in [Nodes -> {"free", "dir", "file"}]
      /\ typ'[b] = x /\ \A k \in Nodes \ {b} : typ'[k] = typ[k]
  BY <1>6 DEF Forest
<1>8. /\ ent' \in [Nodes \X Names -> Nodes \cup {None}]
      /\ \A k \in Nodes, m \in Names : ent'[<<k, m>>] = IF k = i /\ m = n THEN b ELSE ent[<<k, m>>]
  BY <1>4, <1>6 DEF Forest
<1>9. Tree(typ', ent') /\ Reached(typ', ent', replaced)
  <2>1. Tree(typ, ent) /\ Reached(typ, ent, replaced) /\ \A k \in replaced : typ[k] = "file"
    BY DEF Forest
  <2>2. Made(typ, ent, typ', ent', i, n, b)
    BY <1>1, <1>3, <1>4, <1>5, <1>7, <1>8 DEF Made
  <2> QED
    BY ONLY <2>1, <2>2, MakeTree
<1>10. \A k \in replaced : typ'[k] = "file"
  BY <1>1, <1>7 DEF Forest
<1> QED
  BY <1>7, <1>8, <1>9, <1>10 DEF Forest

\* A path is moved.
LEMMA RenameForest ==
  ASSUME Forest, NEW src \in Seq(Names), src # <<>>, NEW dst \in Seq(Names), dst # <<>>, MayRename(src, dst),
         ent' = [[ent EXCEPT ![Entry(src)] = None] EXCEPT ![Entry(dst)] = Lookup(src)],
         replaced' = replaced \cup ({Lookup(dst)} \ {None, Lookup(src)}), typ' = typ
  PROVE  Forest'
<1>1. PICK i, j, a, b : i = Lookup(src) /\ j = Lookup(dst) /\ a = Lookup(Dir(src)) /\ b = Lookup(Dir(dst))
  OBVIOUS
<1>2. PICK q \in Seq(Names), n \in Names : q = Dir(src) /\ n = Base(src) /\ src = Append(q, n)
  BY DirBase
<1>3. PICK r \in Seq(Names), m \in Names : r = Dir(dst) /\ m = Base(dst) /\ dst = Append(r, m)
  BY DirBase
<1>4. /\ i # None /\ b \in Nodes /\ typ[b] = "dir" /\ ~(j \in Nodes /\ typ[j] = "dir")
      /\ i \in Nodes /\ typ[i] = "dir" => ~Within(src, dst)
  BY <1>1 DEF MayRename, IsDir
<1>5. a \in Nodes /\ typ[a] = "dir" /\ i = ent[<<a, n>>]
  <2>1. LookupIn(typ, ent, Append(q, n)) # None
    BY ZenonT(30), <1>1, <1>2, <1>4 DEF Lookup
  <2>2. /\ LookupIn(typ, ent, q) \in Nodes /\ typ[LookupIn(typ, ent, q)] = "dir"
        /\ LookupIn(typ, ent, Append(q, n)) = ent[<<LookupIn(typ, ent, q), n>>]
    BY ZenonT(30), <2>1, LookupParent
  <2> QED
    BY ZenonT(30), <1>1, <1>2, <2>2 DEF Lookup
<1>6. i \in Nodes
  BY <1>1, <1>4, LookupNode DEF Forest, Lookup
<1>7. j = ent[<<b, m>>]
  <2>1. j = Go(typ, ent, b, m)
    <3>1. LookupIn(typ, ent, Append(r, m)) = Go(typ, ent, LookupIn(typ, ent, r), m)
      BY LookupAppend
    <3> QED
      BY ZenonT(30), <1>1, <1>3, <3>1 DEF Lookup
  <2> QED
    BY <1>4, <2>1 DEF Go
<1>8. j # None => j \in Nodes /\ typ[j] # "dir"
  BY <1>1, <1>4, LookupNode DEF Forest, Lookup
<1>9. PICK T : Apart(T, ent, i, b)
  BY <1>1, <1>4, <1>6, Subtree DEF Forest, Lookup
<1>10. ent' = [[ent EXCEPT ![<<a, n>>] = None] EXCEPT ![<<b, m>>] = i]
  BY <1>1, <1>2, <1>3 DEF Entry
<1>11. /\ ent' \in [Nodes \X Names -> Nodes \cup {None}]
       /\ \A k \in Nodes, o \in Names :
            ent'[<<k, o>>] = IF k = b /\ o = m THEN i ELSE IF k = a /\ o = n THEN None ELSE ent[<<k, o>>]
  BY ZenonT(30), <1>4, <1>5, <1>6, <1>10 DEF Forest
<1>12. replaced' = replaced \cup ({j} \ {None, i})
  BY <1>1
<1>13. Tree(typ, ent') /\ Reached(typ, ent', replaced') /\ \A k \in replaced' : typ[k] = "file"
  <2>1. /\ typ \in [Nodes -> {"free", "dir", "file"}] /\ Tree(typ, ent) /\ Reached(typ, ent, replaced)
        /\ \A k \in replaced : typ[k] = "file"
    BY DEF Forest
  <2>3. Moved(typ, ent, ent', i, a, n, b, m, j)
    BY ZenonT(30), <1>2, <1>3, <1>4, <1>5, <1>6, <1>7, <1>8, <1>11 DEF Moved
  <2>2. LET R2 == replaced \cup ({j} \ {None, i})
        IN Tree(typ, ent') /\ Reached(typ, ent', R2) /\ \A k \in R2 : typ[k] = "file"
    BY ONLY ZenonT(30), <1>9, <2>1, <2>3, MoveTree
  <2> QED
    BY ZenonT(30), <1>12, <2>2
<1>14. replaced' \subseteq Nodes
  BY <1>8, <1>12 DEF Forest
<1> QED
  BY ZenonT(30), <1>11, <1>13, <1>14 DEF Forest

\* Every step.
LEMMA StepForest ==
  ASSUME TInv, Forest, NEW c \in Calls,
         \/ CallTool(c) \/ Fails(c)
         \/ Stat(c) \/ Open(c) \/ Read(c) \/ ReadToEdit(c) \/ Create(c) \/ Write(c)
         \/ Mkdir(c) \/ ReadDir(c) \/ WalkDir(c) \/ Rename(c)
  PROVE  Forest'
<1>0. call[c] \in CallRecord /\ Ready(call[c]) /\ call[c].paths \in Seq(Paths) /\ Paths \subseteq Seq(Names) \ {<<>>}
  BY ZenonT(30), Fields, ConstantsAssumption DEF TInv, TypeOK, ConstantsAssumption
<1>1. CASE UNCHANGED <<typ, ent, replaced>>
  BY <1>1 DEF Forest
<1>2. CASE Create(c)
  <2>1. Path(c) \in Seq(Names) /\ Path(c) # <<>>
    <3>1. PICK s \in Seq(Paths) : s = call[c].paths /\ s # <<>>
      BY <1>0, <1>2 DEF Create, At, Ready
    <3>2. Head(s) \in Paths
      BY SMTT(30), <3>1
    <3> QED
      BY <1>0, <3>1, <3>2 DEF Path
  <2>2. PICK p \in Seq(Names) : p = Path(c) /\ p # <<>>
    BY <2>1
  <2>3. CASE Lookup(p) = None /\ IsDir(Lookup(Dir(p))) /\ Free # {} /\ Make(p, "file") /\ replaced' = replaced
    BY <2>2, <2>3, MakeForest
  <2> QED
    BY <1>1, <1>2, <2>2, <2>3 DEF Create
<1>3. CASE Mkdir(c)
  <2>1. PICK s \in Seq(Paths) : s = call[c].paths /\ s # <<>>
    BY ZenonT(30), <1>0, <1>3 DEF Mkdir, At, Ready
  <2>2. Head(s) \in Paths
    BY SMTT(30), <2>1
  <2>3. PICK q \in Seq(Names) : q = Path(c)
    BY <1>0, <2>1, <2>2 DEF Path
  <2>4. CASE \E k \in DOMAIN q : LET p == SubSeq(q, 1, k)
               IN Lookup(p) = None /\ IsDir(Lookup(Dir(p))) /\ Free # {} /\ Make(p, "dir") /\ replaced' = replaced
    <3>1. PICK k \in DOMAIN q : LET p == SubSeq(q, 1, k)
               IN Lookup(p) = None /\ IsDir(Lookup(Dir(p))) /\ Free # {} /\ Make(p, "dir") /\ replaced' = replaced
      BY <2>4
    <3>2. k \in 1..Len(q) /\ Len(q) \in Nat
      OBVIOUS
    <3>3. SubSeq(q, 1, k) \in Seq(Names) /\ Len(SubSeq(q, 1, k)) = k
      BY <3>2
    <3>5. SubSeq(q, 1, k) # <<>>
      BY <3>2, <3>3
    <3>4. PICK p \in Seq(Names) : p = SubSeq(q, 1, k) /\ p # <<>>
      BY ZenonT(30), <3>3, <3>5
    <3> QED
      BY ZenonT(30), <3>1, <3>4, MakeForest
  <2> QED
    BY <1>1, <1>3, <2>3, <2>4 DEF Mkdir
<1>4. CASE Rename(c)
  <2>1. PICK s \in Seq(Paths) : s = call[c].paths /\ Len(s) = 2
    BY ZenonT(30), <1>0, <1>4 DEF Rename, At, Ready
  <2>2. s[1] \in Paths /\ s[2] \in Paths
    BY ONLY <2>1
  <2>3. PICK src \in Seq(Names) : src = call[c].paths[1] /\ src # <<>>
    BY <1>0, <2>1, <2>2
  <2>4. PICK dst \in Seq(Names) : dst = call[c].paths[2] /\ dst # <<>>
    BY <1>0, <2>1, <2>2
  <2>5. CASE /\ MayRename(src, dst) /\ typ' = typ
             /\ ent' = [[ent EXCEPT ![Entry(src)] = None] EXCEPT ![Entry(dst)] = Lookup(src)]
             /\ replaced' = replaced \cup ({Lookup(dst)} \ {None, Lookup(src)})
    BY ZenonT(30), <2>3, <2>4, <2>5, RenameForest
  <2> QED
    BY ZenonT(30), <1>1, <1>4, <2>3, <2>4, <2>5 DEF Rename
<1> QED
  BY ZenonT(30), <1>1, <1>2, <1>3, <1>4 DEF CallTool, Fails, Stat, Open, Read, ReadToEdit, Write, ReadDir, WalkDir

-----------------------------------------------------------------------------
(* The search *)

\* A file below the directory q is in it or below one that is.
LEMMA NextName ==
  ASSUME TInv, NEW q \in Seq(Names), NEW p \in Seq(Names), Within(q, p), IsDir(Lookup(q)), IsFile(Lookup(p))
  PROVE  \E n \in Names :
           \/ p = Append(q, n) /\ IsFile(ent[<<Lookup(q), n>>])
           \/ Within(Append(q, n), p) /\ IsDir(ent[<<Lookup(q), n>>])
<1>0. /\ Len(q) \in Nat /\ Len(p) \in Nat /\ Len(q) <= Len(p) /\ q = SubSeq(p, 1, Len(q))
      /\ SubSeq(p, 1, Len(p)) = p
  BY DEF Within
<1>1. q # p
  BY DEF IsDir, IsFile
<1>2. Len(q) < Len(p)
  BY <1>0, <1>1
<1>3. PICK k \in 1..Len(p) : k = Len(q) + 1
  BY <1>0, <1>2
<1>4. PICK n \in Names : n = p[k]
  BY <1>3
<1>5. Append(q, n) = SubSeq(p, 1, k)
  <2>1. /\ SubSeq(p, 1, k) \in Seq(Names) /\ Len(SubSeq(p, 1, k)) = k
        /\ \A j \in 1..k : SubSeq(p, 1, k)[j] = p[j]
    BY <1>0, <1>3
  <2>2. \A j \in 1..Len(q) : SubSeq(p, 1, Len(q))[j] = p[j]
    BY <1>0
  <2>3. \A j \in 1..Len(q) : q[j] = p[j]
    BY ONLY <1>0, <2>2
  <2>4. /\ Append(q, n) \in Seq(Names) /\ Len(Append(q, n)) = k /\ Append(q, n)[k] = n
        /\ \A j \in 1..Len(q) : Append(q, n)[j] = q[j]
    BY <1>3
  <2>5. \A j \in 1..k : Append(q, n)[j] = SubSeq(p, 1, k)[j]
    BY ONLY <1>0, <1>3, <1>4, <2>1, <2>3, <2>4
  <2> QED
    BY ONLY <2>1, <2>4, <2>5
<1>6. Lookup(Append(q, n)) = ent[<<Lookup(q), n>>]
  BY LookupAppend DEF Lookup, Go, IsDir
<1>7. CASE k = Len(p)
  BY ZenonT(30), <1>0, <1>5, <1>6, <1>7
<1>8. CASE k # Len(p)
  <2>0. Len(Append(q, n)) = Len(q) + 1
    OBVIOUS
  <2>4. Len(p) \in Nat
    OBVIOUS
  <2>1. k \in 0..(Len(p) - 1) /\ Len(Append(q, n)) = k
    BY ONLY <1>3, k \in 1..Len(p), <1>8, <2>0, <2>4
  <2>2. IsDir(Lookup(SubSeq(p, 1, k)))
    <3>1. LookupIn(typ, ent, p) # None
      BY ConstantsAssumption DEF IsFile, Lookup, ConstantsAssumption
    <3> QED
      BY <2>1, <3>1, OnTheWay DEF Lookup, IsDir
  <2>3. Within(Append(q, n), p)
    BY <1>3, <1>5, <2>1 DEF Within
  <2> QED
    BY ZenonT(30), <1>5, <1>6, <2>2, <2>3
<1> QED
  BY ZenonT(30), <1>7, <1>8

\* searchFiles reads a directory.
LEMMA WalkSearched ==
  ASSUME IInv, TInv, NEW c \in Calls, WalkDir(c)
  PROVE  Searched(c)'
<1>0. /\ call[c].tool = "search_files" /\ call[c].at = "readDir" /\ UNCHANGED <<typ, ent>>
      /\ call[c] \in CallRecord /\ call[c].todo \subseteq Seq(Names) /\ call[c].found \subseteq Seq(Names)
      /\ call \in [Calls -> CallRecord]
  BY ZenonT(30), Fields DEF WalkDir, At, TInv, TypeOK
<1>1. CASE \E k : Becomes(c, k) /\ k.tool # "search_files"
  BY ZenonT(30), <1>0, <1>1 DEF Becomes, Searched
<1>2. CASE \E p \in call[c].todo : \E k :
              /\ IsDir(Lookup(p)) /\ Becomes(c, k)
              /\ k.found = call[c].found \cup {Append(p, n) : n \in {n \in Names : IsFile(ent[<<Lookup(p), n>>])}}
              /\ k.todo = (call[c].todo \ {p})
                            \cup {Append(p, n) : n \in {n \in Names : IsDir(ent[<<Lookup(p), n>>])}}
              /\ k.at = IF k.todo = {} THEN "ok" ELSE "readDir"
  <2> SUFFICES ASSUME Undisturbed(c)' PROVE Searched(c)'
    BY DEF Searched
  <2>1. PICK p \in call[c].todo : \E k :
              /\ IsDir(Lookup(p)) /\ Becomes(c, k)
              /\ k.found = call[c].found \cup {Append(p, n) : n \in {n \in Names : IsFile(ent[<<Lookup(p), n>>])}}
              /\ k.todo = (call[c].todo \ {p})
                            \cup {Append(p, n) : n \in {n \in Names : IsDir(ent[<<Lookup(p), n>>])}}
              /\ k.at = IF k.todo = {} THEN "ok" ELSE "readDir"
    BY ZenonT(30), <1>2
  <2>2. PICK k :
              /\ IsDir(Lookup(p)) /\ Becomes(c, k)
              /\ k.found = call[c].found \cup {Append(p, n) : n \in {n \in Names : IsFile(ent[<<Lookup(p), n>>])}}
              /\ k.todo = (call[c].todo \ {p})
                            \cup {Append(p, n) : n \in {n \in Names : IsDir(ent[<<Lookup(p), n>>])}}
              /\ k.at = IF k.todo = {} THEN "ok" ELSE "readDir"
    BY ZenonT(30), <2>1
  <2>3. /\ call' = [call EXCEPT ![c] = k] /\ k.before = call[c].before
    BY <1>0, <2>2 DEF Becomes
  <2>4. call'[c] = k /\ \A d \in Calls \ {c} : call'[d] = call[d]
    BY <1>0, <2>3
  <2>5. Undisturbed(c)
    BY <2>3, <2>4 DEF Undisturbed
  <2>6. /\ \A q \in call[c].found : IsFile(Lookup(q))
        /\ \A q \in Seq(Names) : IsFile(Lookup(q)) =>
             q \in call[c].found \/ \E r \in call[c].todo : Within(r, q)
    BY ZenonT(30), <1>0, <2>5 DEF TInv, Searched
  <2>7. p \in Seq(Names)
    BY <1>0, <2>1
  <2>8. \A n \in Names : Lookup(Append(p, n)) = ent[<<Lookup(p), n>>]
    BY ZenonT(30), <2>2, <2>7, LookupAppend DEF Lookup, Go, IsDir
  <2>9. \A q \in k.found : IsFile(Lookup(q))
    BY ZenonT(30), <2>2, <2>6, <2>8
  <2>10. ASSUME NEW q \in Seq(Names), IsFile(Lookup(q))
         PROVE  q \in k.found \/ \E r \in k.todo : Within(r, q)
    <3>1. CASE q \in call[c].found
      BY <2>2, <3>1
    <3>2. CASE \E r \in call[c].todo \ {p} : Within(r, q)
      BY <2>2, <3>2
    <3>3. CASE Within(p, q)
      <4>1. PICK n \in Names :
              \/ q = Append(p, n) /\ IsFile(ent[<<Lookup(p), n>>])
              \/ Within(Append(p, n), q) /\ IsDir(ent[<<Lookup(p), n>>])
        BY ZenonT(30), <2>2, <2>7, <2>10, <3>3, NextName
      <4> QED
        BY ZenonT(30), <2>2, <4>1
    <3> QED
      BY ZenonT(30), <2>6, <2>10, <3>1, <3>2, <3>3
  <2>11. (\A q : Lookup(q)' = Lookup(q)) /\ (\A i : IsFile(i)' <=> IsFile(i))
    BY <1>0 DEF Lookup, IsFile
  <2>12. k.at = "ok" => k.todo = {}
    BY ZenonT(30), <2>2
  <2> QED
    BY <2>4, <2>9, <2>10, <2>11, <2>12 DEF Searched
<1> QED
  BY ZenonT(30), <1>1, <1>2, WalkBecomes DEF TInv

-----------------------------------------------------------------------------
(* All together *)

\* Every step of a tool keeps the tree, the types and what a search has found.
LEMMA StepTInv ==
  ASSUME IInv, TInv, NEW c \in Calls,
         \/ CallTool(c) \/ Fails(c)
         \/ Stat(c) \/ Open(c) \/ Read(c) \/ ReadToEdit(c) \/ Create(c) \/ Write(c)
         \/ Mkdir(c) \/ ReadDir(c) \/ WalkDir(c) \/ Rename(c),
         IInv'
  PROVE  TInv'
<1>0. TypeOK /\ Ready(call[c]) /\ Forest /\ call \in [Calls -> CallRecord]
  BY DEF TInv, TypeOK, Forest
<1>1. PICK k : Becomes(c, k) /\ (k.tool = "search_files" => k.at \notin {"readDir", "ok"} \/ CallTool(c) \/ WalkDir(c))
  BY ZenonT(30), <1>0, StepBecomes, CallToolBecomes, WalkBecomes
<1>2. call'[c] = k /\ k \in CallRecord /\ \A d \in Calls \ {c} : call'[d] = call[d]
  BY ZenonT(30), <1>0, <1>1 DEF Becomes
<1>3. Forest'
  BY <1>0, StepForest
<1>4. TypeOK'
  <2>1. call' \in [Calls -> CallRecord]
    BY ZenonT(30), <1>0, <1>1 DEF Becomes
  <2>2. data' \in [Nodes -> Text] /\ \A d \in Calls : call'[d].at \in {"read", "write"} => IsFile(call[d].node)'
    BY ZenonT(30) DEF IInv, Shape, Course
  <2> QED
    BY <1>3, <2>1, <2>2 DEF TypeOK, Forest
<1>5. \A d \in Calls : Ready(call'[d])
  BY ZenonT(30), <1>1, <1>2 DEF Becomes, TInv
<1>6. Searched(c)'
  <2>1. CASE ~(k.tool = "search_files" /\ k.at \in {"readDir", "ok"})
    BY ZenonT(30), <1>2, <2>1 DEF Searched
  <2> QED
    BY <1>1, <2>1, WalkSearched, CallToolSearched
<1>7. ASSUME NEW d \in Calls \ {c} PROVE Searched(d)'
  <2>1. CASE call[d].tool = "search_files"
    <3>1. call'[c].at # "idle" /\ call[c].at \notin {"ok", "failed"}
      BY ZenonT(30), <1>1, <1>2 DEF Becomes
    <3>2. c \notin call[d].before
      BY ZenonT(30), <3>1 DEF IInv, Ended
    <3>3. ~Undisturbed(d)'
      BY ZenonT(30), <1>2, <3>1, <3>2 DEF Undisturbed
    <3> QED
      BY <3>3 DEF Searched
  <2>2. CASE call[d].tool # "search_files"
    BY ZenonT(30), <1>2, <2>2 DEF Searched
  <2> QED
    BY ZenonT(30), <2>1, <2>2
<1> QED
  BY ZenonT(30), <1>3, <1>4, <1>5, <1>6, <1>7 DEF TInv, Forest

\* Every step keeps both invariants.
LEMMA NextTInv == IInv /\ TInv /\ [Next]_vars => TInv'
<1> SUFFICES ASSUME IInv, TInv, [Next]_vars PROVE TInv'
  OBVIOUS
<1>0. IInv'
  BY NextIInv
<1>1. CASE UNCHANGED vars
  <2>1. typ' = typ /\ ent' = ent /\ data' = data /\ replaced' = replaced /\ call' = call
    BY <1>1 DEF vars
  <2>2. TypeOK' /\ \A c \in Calls : Ready(call'[c])
    BY <2>1 DEF TInv, TypeOK, IsFile
  <2>3. /\ \A c : Undisturbed(c)' <=> Undisturbed(c)
        /\ \A q : Lookup(q)' = Lookup(q)
        /\ \A i : IsFile(i)' <=> IsFile(i)
    BY ZenonT(30), <2>1 DEF Undisturbed, Lookup, IsFile
  <2>4. ASSUME NEW c \in Calls PROVE Searched(c)'
    BY ZenonT(30), <2>1, <2>3 DEF TInv, Searched
  <2> QED
    BY <2>1, <2>2, <2>4 DEF TInv
<1>2. CASE Next
  BY <1>0, <1>2, StepTInv DEF Next
<1> QED
  BY <1>1, <1>2

\* The records of the calls stay what TypeOK says, and a call that reads or writes
\* has a file open.
THEOREM FilesystemTypes == Spec => []TypeOK
<1>1. TInv => TypeOK
  BY DEF TInv
<1> QED
  BY <1>1, InitIInv, NextIInv, InitTInv, NextTInv, PTL DEF Spec

-----------------------------------------------------------------------------
(* Theorems about the tree and about a search *)

INSTANCE FiniteSetTheorems

\* Paths that lead somewhere are not longer than there are nodes.
LEMMA ShortPath ==
  ASSUME NEW t, NEW e, Tree(t, e), NEW p \in Seq(Names), LookupIn(t, e, p) # None
  PROVE  p \in AllPaths
<1>0. Len(p) \in Nat
  OBVIOUS
<1>1. IsFiniteSet(Nodes) /\ Cardinality(Nodes) \in Nat
  BY FS_CardinalityType, ConstantsAssumption DEF ConstantsAssumption
<1> DEFINE f == [k \in 0..Len(p) |-> LookupIn(t, e, SubSeq(p, 1, k))]
<1>2. SubSeq(p, 1, Len(p)) = p
  OBVIOUS
<1>3. ASSUME NEW k \in 0..Len(p) PROVE f[k] \in Nodes /\ f[k] # None
  <2>1. CASE k = Len(p)
    BY ZenonT(30), <1>2, <2>1, LookupNode
  <2>2. CASE k # Len(p)
    <3>1. k \in 0..(Len(p) - 1)
      BY <1>0, <2>2
    <3> QED
      BY <3>1, OnTheWay, ConstantsAssumption DEF ConstantsAssumption
  <2> QED
    BY <2>1, <2>2
<1>4. \A x, y \in 0..Len(p) : f[x] = f[y] => x = y
  <2> SUFFICES ASSUME NEW x \in 0..Len(p), NEW y \in 0..Len(p), f[x] = f[y] PROVE x = y
    OBVIOUS
  <2>1. /\ SubSeq(p, 1, x) \in Seq(Names) /\ Len(SubSeq(p, 1, x)) = x
        /\ SubSeq(p, 1, y) \in Seq(Names) /\ Len(SubSeq(p, 1, y)) = y
    BY <1>0
  <2>2. SubSeq(p, 1, x) = SubSeq(p, 1, y)
    BY ZenonT(30), <1>3, <2>1, OnePath
  <2> QED
    BY <2>1, <2>2
<1>5. f \in [0..Len(p) -> Nodes]
  BY <1>3
<1> HIDE DEF f
<1>6. IsFiniteSet(0..Len(p)) /\ Cardinality(0..Len(p)) = Len(p) + 1
  BY <1>0, FS_Interval
<1>7. ~(Cardinality(Nodes) < Cardinality(0..Len(p)))
  BY <1>1, <1>4, <1>5, <1>6, FS_PigeonHole
<1>8. Len(p) \in 0..(Cardinality(Nodes) - 1)
  BY <1>0, <1>1, <1>6, <1>7
<1>9. p \in [1..Len(p) -> Names]
  OBVIOUS
<1> QED
  BY <1>8, <1>9 DEF AllPaths

\* No tool deletes: every file and directory that was made is at some path, but
\* for files that move_file replaced.
THEOREM FilesystemKeeps == Spec => []NothingDisappears
<1>1. TInv => NothingDisappears
  <2> SUFFICES ASSUME TInv, NEW i \in Nodes \ replaced, typ[i] # "free"
               PROVE  \E p \in AllPaths : Lookup(p) = i
    BY DEF NothingDisappears
  <2>1. PICK p \in Seq(Names) : LookupIn(typ, ent, p) = i
    BY ReachedByPath DEF TInv
  <2>2. p \in AllPaths
    BY <2>1, ShortPath, ConstantsAssumption DEF TInv, ConstantsAssumption
  <2> QED
    BY <2>1, <2>2 DEF Lookup
<1> QED
  BY <1>1, InitIInv, NextIInv, InitTInv, NextTInv, PTL DEF Spec

\* A search that no other call disturbs finds all files, wherever they are, and
\* nothing else.
THEOREM FilesystemSearch == Spec => []SearchExact
<1>1. TInv => SearchExact
  <2> SUFFICES ASSUME TInv, NEW c \in Calls, call[c].tool = "search_files", call[c].at = "ok",
                      \A d \in Calls \ {c} : call[d].at = "idle" \/ d \in call[c].before
               PROVE  call[c].found = {p \in AllPaths : IsFile(Lookup(p))}
    BY DEF SearchExact
  <2>1. /\ \A p \in call[c].found : IsFile(Lookup(p))
        /\ \A p \in Seq(Names) : IsFile(Lookup(p)) => p \in call[c].found
    BY ZenonT(30) DEF TInv, Searched, Undisturbed
  <2>2. call[c].found \subseteq Seq(Names)
    BY Fields DEF TInv, TypeOK
  <2>3. \A p \in Seq(Names) : IsFile(Lookup(p)) => p \in AllPaths
    BY ShortPath, ConstantsAssumption DEF TInv, IsFile, Lookup, ConstantsAssumption
  <2>4. AllPaths \subseteq Seq(Names)
    <3> SUFFICES ASSUME NEW p \in AllPaths PROVE p \in Seq(Names)
      OBVIOUS
    <3>0. Cardinality(Nodes) \in Nat
      BY FS_CardinalityType, ConstantsAssumption DEF ConstantsAssumption
    <3>1. PICK k \in 0..(Cardinality(Nodes) - 1) : p \in [1..k -> Names]
      BY DEF AllPaths
    <3>2. k \in Nat
      BY <3>0
    <3> QED
      BY ONLY <3>1, <3>2
  <2> QED
    BY <2>1, <2>2, <2>3, <2>4
<1> QED
  BY <1>1, InitIInv, NextIInv, InitTInv, NextTInv, PTL DEF Spec

=============================================================================
