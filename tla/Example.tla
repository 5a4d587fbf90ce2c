------------------------------ MODULE Example -------------------------------
(***************************************************************************)
(* The two example programs (src/example): main, the goroutine that runs   *)
(* the menus, the one that waits for an interrupt, and the goroutines that *)
(* read a line each.  A menu is a graph: at a place the program waits for  *)
(* a line ("line", "closed" for os.ErrClosed, "err") or for the client     *)
(* ("ok", "fail"), and an edge <<place, outcome, next>> says where it goes.*)
(***************************************************************************)
EXTENDS Integers, Sequences, FiniteSets

CONSTANTS
  MaxLines,  \* bound: lines typed
  None

ASSUME MaxLinesAssumption == MaxLines \in Nat

VARIABLES
  program,   \* "everything" or "filesystem"
  terminal,  \* standard input is a terminal, which is read line by line
  at,        \* where run is: a place, "stop" (c.stop is due), "ended"
  typed,     \* lines typed so far, numbered
  taken,     \* lines read from standard input so far
  reader,    \* the goroutine of the current waitStdIOInput: at "none", "reading",
             \* "err", "eof" or "line", and the line it has
  orphans,   \* whether an earlier one is still reading
  got,       \* the lines that run was given
  stdin,     \* "open", "eof" or "broken"
  signal,    \* os.Interrupt: "none", "sent" (listenInterruptSignal is to stop), "done"
  lock,      \* closeLock: None, or who is in stop
  cancelled, \* ctx
  done,      \* how often done was closed
  closed,    \* closed[who]: the flag that who sees
  cliClosed, \* whether the mcp client was closed
  main       \* "wait", "shutdown" or "exited"

vars == <<program, terminal, at, typed, taken, reader, orphans, got, stdin, signal, lock, cancelled,
          done, closed, cliClosed, main>>
input == <<typed, taken, orphans, got, stdin>>
ending == <<signal, lock, cancelled, done, closed, cliClosed, main>>

Who == {"run", "interrupt"}

\* The program has crashed: close of a closed channel.
Panicked == done > 1
Running == main # "exited" /\ ~Panicked

-----------------------------------------------------------------------------
(* The menus of example/everything *)

\* A prompt: closed leads to one place, a read error to another.
Prompt(p, nexts, onClosed, onErr) ==
  ({p} \X {"line"} \X nexts) \cup {<<p, "closed", onClosed>>, <<p, "err", onErr>>}

\* A call of the mcp client.
Request(p, oks, fail) == ({p} \X {"ok"} \X oks) \cup {<<p, "fail", fail>>}

\* Mutant: another error is looked for, as in example/filesystem.
MenuForCanceled ==
  Request("connect", {"menu"}, "stop") \cup
  Prompt("menu", {"listPrompts", "listResources", "listTools", "menu", "logs", "stop"}, "menu", "menu")

\* run; 4, and a number that is not there, lead back.
Menu ==
  Request("connect", {"menu"}, "stop") \cup
  Prompt("menu", {"listPrompts", "listResources", "listTools", "menu", "logs", "stop"}, "stop", "menu")

runPrompts ==
  Request("listPrompts", {"promptName"}, "stop") \cup
  Prompt("promptName", {"menu", "temperature", "getPrompt"}, "stop", "menu") \cup
  Request("getPrompt", {"enter"}, "menu")

\* "Press enter to continue..."
Enter == Prompt("enter", {"menu"}, "stop", "menu")

\* The line is sent off to be completed until it is one of the completions;
\* "exit" leaves the program.
runPromptAutocomplete(field, completes, next) ==
  Prompt(field, {"stop", completes}, "stop", field) \cup Request(completes, {field, next}, field)

runComplexPrompt ==
  runPromptAutocomplete("temperature", "completeTemperature", "style") \cup
  runPromptAutocomplete("style", "completeStyle", "getPrompt")

\* "next" lists again; an empty resource does not wait for enter.
runResources ==
  Request("listResources", {"resourceCommand"}, "stop") \cup
  Prompt("resourceCommand", {"menu", "listResources", "subscribe", "unsubscribe", "readResource"}, "stop", "menu") \cup
  Request("subscribe", {"menu"}, "menu") \cup Request("unsubscribe", {"menu"}, "menu") \cup
  Request("readResource", {"menu", "enter"}, "menu")

runTools ==
  Request("listTools", {"toolName"}, "stop") \cup
  Prompt("toolName", {"menu", "echo", "add", "longRunningOperation", "prompt", "callTool"}, "stop", "menu") \cup
  Request("callTool", {"enter"}, "menu")

toolEchoParams == Prompt("echo", {"callTool"}, "stop", "echo")
toolAddParams == Prompt("add", {"callTool", "add"}, "stop", "add")
toolLongRunningOperationParams ==
  Prompt("longRunningOperation", {"callTool", "longRunningOperation"}, "stop", "longRunningOperation")
toolSampleLLMParams ==
  Prompt("prompt", {"maxTokens"}, "stop", "prompt") \cup
  Prompt("maxTokens", {"callTool", "prompt"}, "stop", "prompt")

runLogs == Prompt("logs", {"menu", "setLogLevel"}, "stop", "logs") \cup Request("setLogLevel", {"menu"}, "logs")

EverythingMenus ==
  UNION {Menu, runPrompts, Enter, runComplexPrompt, runResources, runTools, toolEchoParams, toolAddParams,
         toolLongRunningOperationParams, toolSampleLLMParams, runLogs}

-----------------------------------------------------------------------------
(* The menus of example/filesystem: none of them knows os.ErrClosed *)

\* run; a wrong command, and any error, leads back to ListTools.
Run ==
  Request("connect", {"list"}, "stop") \cup Request("list", {"command"}, "stop") \cup
  Prompt("command", {"stop", "list", "enter", "readPath", "readPaths", "writePath", "editPath", "createPath",
                     "listPath", "treePath", "movePath", "pattern", "infoPath"}, "list", "list") \cup
  Prompt("enter", {"list"}, "list", "list")

\* A tool: some lines are asked for, then it is called.
Ask(p, next) == Prompt(p, {next}, "enter", "enter")
Call(p) == Request(p, {"enter"}, "enter")

callReadFile == Ask("readPath", "read") \cup Call("read")
callReadMultipleFiles == Ask("readPaths", "readMultiple") \cup Call("readMultiple")
callWriteFile == Ask("writePath", "content") \cup Ask("content", "write") \cup Call("write")

callEditFile == Ask("editPath", "edits") \cup Ask("edits", "edit") \cup Call("edit")
callCreateDirectory == Ask("createPath", "create") \cup Call("create")
callListDirectory == Ask("listPath", "listDirectory") \cup Call("listDirectory")
callDirectoryTree == Ask("treePath", "tree") \cup Call("tree")
callMoveFile == Ask("movePath", "destination") \cup Ask("destination", "move") \cup Call("move")
callSearchFiles == Ask("pattern", "excludes") \cup Ask("excludes", "search") \cup Call("search")
callGetFileInfo == Ask("infoPath", "info") \cup Call("info")

FilesystemMenus ==
  UNION {Run, callReadFile, callReadMultipleFiles, callWriteFile, callEditFile, callCreateDirectory,
         callListDirectory, callDirectoryTree, callMoveFile, callSearchFiles, callGetFileInfo}

Graph == [everything |-> EverythingMenus, filesystem |-> FilesystemMenus]
Edges == Graph[program]
Waits == \E e \in Edges : e[1] = at /\ e[2] = "line"
Goes(outcome) == \E e \in Edges : e[1] = at /\ e[2] = outcome /\ at' = e[3]

NoReader == [at |-> "none", line |-> 0]

Init ==
  /\ program \in {"everything", "filesystem"} /\ terminal \in BOOLEAN
  /\ at = "connect"
  /\ typed = 0 /\ taken = 0 /\ reader = NoReader /\ orphans = FALSE /\ got = <<>> /\ stdin = "open"
  /\ signal = "none" /\ lock = None /\ cancelled = FALSE /\ done = 0
  /\ closed = [who \in Who |-> FALSE] /\ cliClosed = FALSE /\ main = "wait"

-----------------------------------------------------------------------------
(* waitStdIOInput *)

HasLine == reader.at = "line"
Wait ==
  /\ Running /\ Waits /\ reader = NoReader
  /\ reader' = [NoReader EXCEPT !.at = "reading"]
  /\ UNCHANGED <<program, terminal, at, input, ending>>

\* A read returns what there is, from a terminal a line.  The scanner is a new
\* one every time: what it has read beyond the first line is gone.
Amounts == 1..(IF terminal THEN 1 ELSE typed - taken)

Read ==
  /\ Running /\ reader.at = "reading" /\ typed > taken
  /\ \E k \in Amounts : reader' = [at |-> "line", line |-> taken + 1] /\ taken' = taken + k
  /\ UNCHANGED <<program, terminal, at, typed, orphans, got, stdin, ending>>

\* A line that is too long (what is left of it may be the next), or an error of
\* read; at the end of the input nothing is sent at all.
ReadFails ==
  /\ Running /\ reader.at = "reading"
  /\ \/ ~terminal /\ typed > taken /\ reader' = [NoReader EXCEPT !.at = "err"] /\ taken' \in {taken, taken + 1}
     \/ typed = taken /\ stdin = "broken" /\ reader' = [NoReader EXCEPT !.at = "err"] /\ UNCHANGED taken
     \/ typed = taken /\ stdin = "eof" /\ reader' = [NoReader EXCEPT !.at = "eof"] /\ UNCHANGED taken
  /\ UNCHANGED <<program, terminal, at, typed, orphans, got, stdin, ending>>

\* One that nobody waits for takes what comes, and keeps it.
OrphanReads ==
  /\ Running /\ orphans /\ typed > taken
  /\ \E k \in Amounts : taken' = taken + k
  /\ orphans' \in BOOLEAN
  /\ UNCHANGED <<program, terminal, at, typed, reader, got, stdin, ending>>

\* Mutant: the goroutine scans on.
GivenLoop ==
  /\ Running /\ HasLine
  /\ Goes("line") /\ got' = Append(got, reader.line) /\ reader' = NoReader /\ orphans' = TRUE
  /\ UNCHANGED <<program, terminal, typed, taken, stdin, ending>>

Given ==
  /\ Running /\ HasLine
  /\ Goes("line") /\ got' = Append(got, reader.line) /\ reader' = NoReader
  /\ UNCHANGED <<program, terminal, typed, taken, orphans, stdin, ending>>

GivenErr ==
  /\ Running /\ reader.at = "err"
  /\ Goes("err") /\ reader' = NoReader
  /\ UNCHANGED <<program, terminal, input, ending>>

\* os.ErrClosed: the goroutine is left to itself.
WaitClosed ==
  /\ Running /\ reader # NoReader /\ (cancelled \/ done > 0)
  /\ Goes("closed") /\ reader' = NoReader /\ orphans' = (orphans \/ reader.at = "reading")
  /\ UNCHANGED <<program, terminal, typed, taken, got, stdin, ending>>

-----------------------------------------------------------------------------
(* The mcp client: every call returns *)

CallSucceeds ==
  /\ Running /\ Goes("ok")
  /\ UNCHANGED <<program, terminal, reader, input, ending>>

CallFails ==
  /\ Running /\ Goes("fail")
  /\ UNCHANGED <<program, terminal, reader, input, ending>>

-----------------------------------------------------------------------------
(* stop *)

Due(who) == IF who = "run" THEN at = "stop" ELSE signal = "sent"

StopLocks(who) ==
  /\ Running /\ Due(who) /\ lock = None
  /\ lock' = who /\ cancelled' = TRUE
  /\ UNCHANGED <<program, terminal, at, reader, input, signal, done, closed, cliClosed, main>>

\* Mutant: what stop is called on is everywhere a copy.
EachItsOwn(who) == {who}

\* Who sees the flag that who sets: the client of example/everything is a
\* pointer; in example/filesystem run and listenInterruptSignal have a copy each.
Shared(who) == IF program = "everything" THEN Who ELSE {who}

\* Mutant: done stays open.
StopCancelsOnly(who) ==
  /\ Running /\ lock = who /\ lock' = None
  /\ closed' = [w \in Who |-> closed[w] \/ w \in Shared(who)]
  /\ IF who = "run" THEN at' = "ended" /\ UNCHANGED signal ELSE signal' = "done" /\ UNCHANGED at
  /\ UNCHANGED <<program, terminal, reader, input, cancelled, done, cliClosed, main>>

\* The second close of done does not get to the client.
StopCloses(who) ==
  /\ Running /\ lock = who /\ lock' = None
  /\ done' = IF closed[who] THEN done ELSE done + 1
  /\ cliClosed' = (cliClosed \/ (program = "filesystem" /\ ~closed[who] /\ done = 0))
  /\ closed' = [w \in Who |-> closed[w] \/ w \in Shared(who)]
  /\ IF who = "run" THEN at' = "ended" /\ UNCHANGED signal ELSE signal' = "done" /\ UNCHANGED at
  /\ UNCHANGED <<program, terminal, reader, input, cancelled, main>>

-----------------------------------------------------------------------------
(* main and the world *)

\* cli.run(); cli.cli.Close()
CloseClient ==
  /\ Running /\ program = "everything" /\ at = "ended" /\ ~cliClosed
  /\ cliClosed' = TRUE
  /\ UNCHANGED <<program, terminal, at, reader, input, signal, lock, cancelled, done, closed, main>>

\* <-cli.done; the servers are shut down.
MainWakes ==
  /\ Running /\ main = "wait" /\ done > 0
  /\ main' = "shutdown"
  /\ UNCHANGED <<program, terminal, at, reader, input, signal, lock, cancelled, done, closed, cliClosed>>

MainExits ==
  /\ Running /\ main = "shutdown"
  /\ main' = "exited"
  /\ UNCHANGED <<program, terminal, at, reader, input, signal, lock, cancelled, done, closed, cliClosed>>

Type ==
  /\ Running /\ stdin = "open" /\ typed < MaxLines
  /\ typed' = typed + 1
  /\ UNCHANGED <<program, terminal, at, taken, reader, orphans, got, stdin, ending>>

StdinEnds ==
  /\ Running /\ stdin = "open"
  /\ stdin' \in {"eof", "broken"}
  /\ UNCHANGED <<program, terminal, at, typed, taken, reader, orphans, got, ending>>

Interrupt ==
  /\ Running /\ signal = "none"
  /\ signal' = "sent"
  /\ UNCHANGED <<program, terminal, at, reader, input, lock, cancelled, done, closed, cliClosed, main>>

-----------------------------------------------------------------------------
Next ==
  \/ Wait \/ Read \/ ReadFails \/ OrphanReads \/ Given \/ GivenErr \/ WaitClosed
  \/ CallSucceeds \/ CallFails
  \/ \E who \in Who : StopLocks(who) \/ StopCloses(who)
  \/ CloseClient \/ MainWakes \/ MainExits \/ Type \/ StdinEnds \/ Interrupt

Spec == Init /\ [][Next]_vars

\* Goroutines go on; calls of the client return (they have a timeout, or end
\* with ctx), the selects notice that ctx is done at some time, and the lock is
\* handed over.  That main exits is not needed: it has up to five seconds.
Fairness ==
  /\ WF_vars(Wait) /\ WF_vars(Read) /\ WF_vars(ReadFails) /\ WF_vars(Given) /\ WF_vars(GivenErr)
  /\ WF_vars(CallSucceeds \/ CallFails) /\ SF_vars(cancelled /\ CallFails) /\ SF_vars(WaitClosed)
  /\ \A who \in Who : SF_vars(StopLocks(who)) /\ WF_vars(StopCloses(who))
  /\ WF_vars(CloseClient) /\ WF_vars(MainWakes)
FairSpec == Spec /\ Fairness

-----------------------------------------------------------------------------
(* Properties *)

Places == {e[1] : e \in Edges} \cup {"stop", "ended"}

TypeOK ==
  /\ program \in {"everything", "filesystem"} /\ terminal \in BOOLEAN /\ at \in Places
  /\ typed \in 0..MaxLines /\ taken \in 0..typed
  /\ reader \in [at : {"none", "reading", "err", "eof", "line"}, line : 0..taken]
  /\ orphans \in BOOLEAN /\ got \in Seq(1..taken) /\ stdin \in {"open", "eof", "broken"}
  /\ signal \in {"none", "sent", "done"} /\ lock \in Who \cup {None} /\ cancelled \in BOOLEAN
  /\ done \in 0..2 /\ closed \in [Who -> BOOLEAN] /\ cliClosed \in BOOLEAN
  /\ main \in {"wait", "shutdown", "exited"}

\* Until it is stopped the program is given every line that is typed at a
\* terminal, in order: no goroutine that nobody waits for takes one away.
LinesInOrder ==
  terminal /\ ~cancelled =>
    (IF HasLine THEN Append(got, reader.line) ELSE got) = [i \in 1..taken |-> i]

\* done is closed once, whoever stops the program, except that an interrupt of
\* example/filesystem meets the end of run.
ClosedOnce == Panicked => program = "filesystem" /\ signal = "done" /\ at = "ended"

\* Wherever it is in its menus, run comes to its end when it is stopped, and
\* does not ask again and again.
RunEnds == cancelled ~> (at = "ended" \/ ~Running)

\* An interrupt, and leaving the menus, ends the program, also at the end of
\* the input.
Exits == (signal = "sent" \/ at = "stop") ~> (main # "wait" \/ Panicked)

====
