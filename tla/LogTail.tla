------------------------------- MODULE LogTail -------------------------------
(***************************************************************************)
(* Mode A of Layer 2: baseline.LogTailer inside `ccguard watch', with a    *)
(* LineParser that accepts some lines.                                     *)
(*                                                                         *)
(* A goroutine scans the log directory every two seconds and starts        *)
(* another for every *.log file it has not seen, which reads what is       *)
(* appended from then on.  Others create, append to and rename the files.  *)
(* Recording a line is one step here; Baseline has what it consists of.    *)
(***************************************************************************)
EXTENDS LineReader, FiniteSets

CONSTANTS
  Paths,       \* names in the directory that end in .log
  Files,       \* files, whatever they are called
  Absent,      \* the name or the goroutine stands for no file
  Tailers,     \* goroutines that run tailFile; bound: so many at a time
  MaxLines,    \* bound: lines begun, over all files
  MaxStarts    \* bound: runs of the daemon

ASSUME LogTailAssumption ==
  /\ Absent \notin Files /\ Absent \notin Paths
  /\ MaxLines \in Nat /\ MaxStarts \in Nat

VARIABLES
  named,       \* [Paths -> Files, or Absent]
  text,        \* [Files -> Seq(Pieces)]
  lines,       \* lines begun so far: the number of the last one
  names,       \* history: [Files -> the names a file has had]
  daemon,      \* "down", "up", "cancelled"
  starts,      \* runs of the daemon so far
  seen,        \* discover's map
  scan,        \* the entries discover has still to look at
  scanning,    \* Run's goroutine is in its loop
  tail,        \* what each tailFile does
  blind,       \* history: seen paths whose file could not be opened, or is
               \* not the one that was
  recorded,    \* history: [Files -> the lines passed to RecordAndCheck]
  skipped      \* history: lines given up: refused, or not accepted

fileVars == <<named, text, lines, names>>
runVars  == <<daemon, starts>>
vars == <<fileVars, runVars, seen, scan, scanning, tail, blind, recorded, skipped>>

Free == [pc |-> "free", path |-> Absent, file |-> Absent, from |-> 0, pos |-> 0]

TailType ==
  [pc : {"free", "open", "wait", "drain"},
   path : Paths \cup {Absent}, file : Files \cup {Absent},
   from : Nat,     \* history: the end of the file when it was opened
   pos : Nat]

(* The type invariant: no tail is past the end of its file. *)
TypeOK ==
  /\ named \in [Paths -> Files \cup {Absent}]
  /\ text \in [Files -> Seq(Pieces)]
  /\ lines \in Nat
  /\ names \in [Files -> SUBSET Paths]
  /\ daemon \in {"down", "up", "cancelled"}
  /\ starts \in Nat
  /\ seen \in SUBSET Paths /\ scan \in SUBSET Paths
  /\ scanning \in BOOLEAN
  /\ tail \in [Tailers -> TailType]
  /\ \A t \in Tailers : tail[t].pc \in {"wait", "drain"} =>
       tail[t].file \in Files /\ tail[t].pos \in tail[t].from..Len(text[tail[t].file])
  /\ blind \in SUBSET Paths
  /\ recorded \in [Files -> Seq(Nat)]
  /\ skipped \in SUBSET Nat

Init ==
  /\ named = [p \in Paths |-> Absent]
  /\ text = [f \in Files |-> <<>>] /\ lines = 0
  /\ names = [f \in Files |-> {}]
  /\ daemon = "down" /\ starts = 0
  /\ seen = {} /\ scan = {} /\ scanning = FALSE
  /\ tail = [t \in Tailers |-> Free]
  /\ blind = {}
  /\ recorded = [f \in Files |-> <<>>] /\ skipped = {}
-----------------------------------------------------------------------------
(* Whoever writes the logs.  A file is created under a name, may get        *)
(* another that also ends in .log, or one that does not, and is appended to *)
(* by one writer, who may still have it open when it has no name any more.  *)
Create(p, f) ==
  /\ named[p] = Absent /\ names[f] = {}
  /\ named' = [named EXCEPT ![p] = f]
  /\ names' = [names EXCEPT ![f] = {p}]
  /\ UNCHANGED <<text, lines, runVars, seen, scan, scanning, tail, blind,
                 recorded, skipped>>

Rename(p, q) ==
  /\ named[p] # Absent /\ named[q] = Absent
  /\ named' = [named EXCEPT ![q] = named[p], ![p] = Absent]
  /\ names' = [names EXCEPT ![named[p]] = @ \cup {q}]
  /\ blind' = blind \cup ({p, q} \cap seen)
  /\ UNCHANGED <<text, lines, runVars, seen, scan, scanning, tail, recorded, skipped>>

Remove(p) ==
  /\ named[p] # Absent
  /\ named' = [named EXCEPT ![p] = Absent]
  /\ blind' = blind \cup ({p} \cap seen)
  /\ UNCHANGED <<text, lines, names, runVars, seen, scan, scanning, tail,
                 recorded, skipped>>

Torn(f) == text[f] # <<>> /\ ~ EndsLine(text[f][Len(text[f])])

Write(f) ==
  /\ names[f] # {}
  /\ IF Torn(f)
       THEN /\ text' = [text EXCEPT ![f] =
                          Append(@, Piece(@[Len(@)].line, "rest"))]
            /\ UNCHANGED lines
       ELSE /\ lines < MaxLines
            /\ lines' = lines + 1
            /\ \E part \in {"all", "head"} :
                 text' = [text EXCEPT ![f] = Append(@, Piece(lines + 1, part))]
  /\ UNCHANGED <<named, names, runVars, seen, scan, scanning, tail, blind,
                 recorded, skipped>>
-----------------------------------------------------------------------------
(* watch starts Run in a goroutine; without the directory Run returns. *)
StartDaemon ==
  /\ daemon = "down" /\ starts < MaxStarts
  /\ daemon' = "up" /\ starts' = starts + 1
  /\ \/ scanning' = TRUE /\ scan' = {p \in Paths : named[p] # Absent}
     \/ UNCHANGED <<scanning, scan>>
  /\ UNCHANGED <<fileVars, seen, tail, blind, recorded, skipped>>

(* discover: what the directory holds now ... *)
Discover ==
  /\ scanning /\ scan = {} /\ daemon # "down"
  /\ scan' = {p \in Paths : named[p] # Absent}
  /\ scan' # {}
  /\ UNCHANGED <<fileVars, runVars, seen, scanning, tail, blind, recorded, skipped>>

(* A mutant: a path is not remembered. *)
SeenAfterNone(p) == seen

(* ... and a tailFile for every path it has not seen. *)
SeenAfter(p) == seen \cup {p}

Look(p) ==
  /\ p \in scan
  /\ scan' = scan \ {p}
  /\ IF p \in seen
       THEN UNCHANGED <<seen, tail>>
       ELSE /\ seen' = SeenAfter(p)
            /\ \E t \in Tailers :
                 /\ tail[t].pc = "free"
                 /\ tail' = [tail EXCEPT ![t] = [Free EXCEPT !.pc = "open", !.path = p]]
  /\ UNCHANGED <<fileVars, runVars, scanning, blind, recorded, skipped>>

ScanStops ==
  /\ scanning /\ scan = {} /\ daemon = "cancelled"
  /\ scanning' = FALSE
  /\ UNCHANGED <<fileVars, runVars, seen, scan, tail, blind, recorded, skipped>>
-----------------------------------------------------------------------------
(* tailFile: an open that fails ends it; the path stays in the map. *)
OpenFails(t) ==
  /\ tail[t].pc = "open"
  /\ tail' = [tail EXCEPT ![t] = Free]
  /\ blind' = blind \cup {tail[t].path}
  /\ UNCHANGED <<fileVars, runVars, seen, scan, scanning, recorded, skipped>>

(* A mutant: the file is read from its beginning. *)
StartOfFile(f) == 0

SeekEnd(f) == Len(text[f])

(* Whatever the path names now is opened, and read from where it ends when  *)
(* Seek looks.                                                              *)
Open(t) ==
  LET f == named[tail[t].path] IN
  /\ tail[t].pc = "open" /\ f # Absent
  /\ tail' = [tail EXCEPT ![t] = [@ EXCEPT !.pc = "wait", !.file = f,
                                          !.from = SeekEnd(f), !.pos = SeekEnd(f)]]
  /\ UNCHANGED <<fileVars, runVars, seen, scan, scanning, blind, recorded, skipped>>

(* The ticker of 500 ms. *)
Tick(t) ==
  /\ tail[t].pc = "wait"
  /\ tail[t].pos < Len(text[tail[t].file])
  /\ tail' = [tail EXCEPT ![t].pc = "drain"]
  /\ UNCHANGED <<fileVars, runVars, seen, scan, scanning, blind, recorded, skipped>>

(* drainLines, one ReadString: a complete line is parsed and, if the parser *)
(* accepts it, recorded; a statement that fails, as all do once the store   *)
(* is closed, costs a warning.                                              *)
Drain(t) ==
  LET f == tail[t].file
      n == LineAt(text[f], tail[t].pos) IN
  /\ tail[t].pc = "drain" /\ HasLine(text[f], tail[t].pos)
  /\ tail' = [tail EXCEPT ![t].pos = LineEnd(text[f], tail[t].pos)]
  /\ \/ recorded' = [recorded EXCEPT ![f] = Append(@, n)] /\ UNCHANGED skipped
     \/ skipped' = skipped \cup {n} /\ UNCHANGED recorded
  /\ UNCHANGED <<fileVars, runVars, seen, scan, scanning, blind>>

(* Mutants: the end of the file ends the goroutine; a newline that is not   *)
(* there yet is counted as read.                                            *)
AfterEofEnds(t) == Free
AfterEofBeyond(t) ==
  [tail[t] EXCEPT !.pc = "wait", !.pos = Len(text[tail[t].file]) + 1]

(* At the end of the file, what there is of a line is thrown away. *)
AfterEof(t) ==
  [tail[t] EXCEPT !.pc = "wait", !.pos = Len(text[tail[t].file])]

DrainEnds(t) ==
  /\ tail[t].pc = "drain" /\ ~ HasLine(text[tail[t].file], tail[t].pos)
  /\ tail' = [tail EXCEPT ![t] = AfterEof(t)]
  /\ UNCHANGED <<fileVars, runVars, seen, scan, scanning, blind, recorded, skipped>>

TailStops(t) ==
  /\ tail[t].pc = "wait" /\ daemon = "cancelled"
  /\ tail' = [tail EXCEPT ![t] = Free]
  /\ UNCHANGED <<fileVars, runVars, seen, scan, scanning, blind, recorded, skipped>>
-----------------------------------------------------------------------------
(* The context is cancelled; the process ends then, or is killed at any     *)
(* point, and nobody waits for the tails.                                   *)
Cancel ==
  /\ daemon = "up"
  /\ daemon' = "cancelled"
  /\ UNCHANGED <<fileVars, starts, seen, scan, scanning, tail, blind,
                 recorded, skipped>>

ProcessEnds ==
  /\ daemon # "down"
  /\ daemon' = "down"
  /\ seen' = {} /\ scan' = {} /\ scanning' = FALSE /\ blind' = {}
  /\ tail' = [t \in Tailers |-> Free]
  /\ UNCHANGED <<fileVars, starts, recorded, skipped>>

Environment ==
  \/ \E p \in Paths, f \in Files : Create(p, f)
  \/ \E p, q \in Paths : Rename(p, q)
  \/ \E p \in Paths : Remove(p)
  \/ \E f \in Files : Write(f)

TailNext(t) ==
  \/ OpenFails(t) \/ Open(t) \/ Tick(t)
  \/ Drain(t) \/ DrainEnds(t) \/ TailStops(t)

Next ==
  \/ Environment
  \/ StartDaemon \/ Cancel \/ ProcessEnds
  \/ Discover \/ ScanStops \/ \E p \in Paths : Look(p)
  \/ \E t \in Tailers : TailNext(t)

Spec == Init /\ [][Next]_vars
-----------------------------------------------------------------------------
(* Goroutines are started by path, the daemon may be started again, and     *)
(* files are renamed and created meanwhile, but discover remembers paths and *)
(* tailFile begins at the end (logtailer.go:86-105).  So a file that has had *)
(* one name is recorded line by line, in order and each line once ...       *)
OneName(f) == \A p, q \in names[f] : p = q

LinesInOrder ==
  \A f \in Files : OneName(f) =>
    \A i, j \in 1..Len(recorded[f]) : i < j => recorded[f][i] < recorded[f][j]

(* ... and a file renamed to another *.log has a tail for each name at most, *)
(* which is how often a line of it may be recorded.                         *)
OncePerName ==
  \A f \in Files : \A n \in 1..lines :
    Cardinality({i \in 1..Len(recorded[f]) : recorded[f][i] = n}) <= Cardinality(names[f])

(* No line that was written at once, in a file that was already open, is    *)
(* passed over (logtailer.go:122, "reads all complete newline-terminated    *)
(* lines"): only one that was torn when it was read can be.                 *)
NothingPassedOver ==
  \A t \in Tailers : tail[t].pc \in {"wait", "drain"} =>
    LET f == tail[t].file IN
    \A i \in (tail[t].from + 1)..tail[t].pos :
      text[f][i].part = "all" =>
        \/ text[f][i].line \in skipped
        \/ \E k \in 1..Len(recorded[f]) : recorded[f][k] = text[f][i].line

(* A path discover has seen is tailed, or about to be, and the tail has the  *)
(* file of that name, unless an open failed or the name has changed hands:  *)
(* those paths, and no others, are lost until the daemon is started again   *)
(* (logtailer.go:86-97).                                                    *)
SeenIsTailed ==
  \A p \in seen \ blind : daemon = "up" =>
    \E t \in Tailers :
      /\ tail[t].path = p
      /\ tail[t].pc = "open" \/ (tail[t].file = named[p] /\ tail[t].pc # "free")
=============================================================================
