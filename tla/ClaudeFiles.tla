---------------------------- MODULE ClaudeFiles ----------------------------
(***************************************************************************)
(* The world Layer 1 of ccguard watches: the sensitive files of some       *)
(* .claude directories, and the fsnotify events their changes produce.     *)
(*                                                                         *)
(* A file is a pair <<directory, name>>; its content is a value of         *)
(* Contents, or Absent.  SHA-256 is taken as injective, so a content also  *)
(* stands for its hash.  fsnotify delivers the events of the watched       *)
(* directories in order and, at its queue limit, drops them and reports an *)
(* overflow.                                                               *)
(***************************************************************************)
EXTENDS Naturals, Sequences

CONSTANTS
  Dirs,        \* the configured watch paths (.claude directories)
  Names,       \* the file names IsMonitored accepts
  Contents,    \* what a file may hold
  Absent,      \* stands for "no such file"
  MaxQueue,    \* the number of events fsnotify queues before it drops
  MaxOps       \* bound: changes to the file system plus commands run

ASSUME FilesAssumption ==
  /\ Absent \notin Contents
  /\ MaxQueue \in Nat \ {0}
  /\ MaxOps \in Nat

Files    == Dirs \X Names
DirOf(f) == f[1]

VARIABLES
  content,     \* [Files -> Contents or Absent]
  sealed,      \* the files whose mode denies ccguard the read
  dirs,        \* the directories that exist
  watched,     \* the directories that carry an inotify watch
  parents,     \* the missing directories whose parent is watched instead
  queue,       \* the fsnotify events not received yet
  overflow,    \* history: fsnotify has dropped an event
  dirty,       \* history: files changed since ccguard last read them
  blind,       \* history: files last changed where no watch could see it
  ops          \* how many changes and commands there were, for MaxOps

diskVars  == <<content, sealed, dirs, dirty>>
worldVars == <<content, sealed, dirs, dirty, ops>>
notifyVars == <<queue, overflow, watched, parents, blind>>
fileVars  == <<content, sealed, dirs, dirty, ops,
               queue, overflow, watched, parents, blind>>

Event == [name : Files \cup Dirs, chmod : BOOLEAN]

FilesTypeOK ==
  /\ content \in [Files -> Contents \cup {Absent}]
  /\ sealed \in SUBSET Files
  /\ dirs \in SUBSET Dirs
  /\ watched \in SUBSET Dirs
  /\ parents \in SUBSET Dirs
  /\ queue \in Seq(Event)
  /\ overflow \in BOOLEAN
  /\ dirty \in SUBSET Files
  /\ blind \in SUBSET Files
  /\ ops \in Nat

FilesInit ==
  /\ dirs \in SUBSET Dirs
  /\ content \in [Files -> Contents \cup {Absent}]
  /\ \A f \in Files : DirOf(f) \notin dirs => content[f] = Absent
  /\ sealed = {}
  /\ watched = {} /\ parents = {}
  /\ queue = <<>> /\ overflow = FALSE
  /\ dirty = {} /\ blind = {}
  /\ ops = 0
-----------------------------------------------------------------------------
(* fsnotify: an event is queued, or lost when the queue is at its limit. *)
Deliver(e) ==
  IF Len(queue) < MaxQueue
    THEN queue' = Append(queue, e) /\ UNCHANGED overflow
    ELSE overflow' = TRUE /\ UNCHANGED queue

Quiet == UNCHANGED <<queue, overflow>>

CountOp == ops < MaxOps /\ ops' = ops + 1

(* A program writes, replaces by rename, creates or (c = Absent) removes f. *)
(* Writing what is already there also raises an event.                      *)
Change(f, c) ==
  /\ CountOp
  /\ DirOf(f) \in dirs
  /\ ~ (c = Absent /\ content[f] = Absent)
  /\ content' = [content EXCEPT ![f] = c]
  /\ sealed' = IF c = Absent THEN sealed \ {f} ELSE sealed
  /\ dirty' = IF c # content[f] THEN dirty \cup {f} ELSE dirty
  /\ IF DirOf(f) \in watched
       THEN /\ Deliver([name |-> f, chmod |-> FALSE])
            /\ blind' = blind \ {f}
       ELSE /\ Quiet
            /\ blind' = IF c # content[f] THEN blind \cup {f} ELSE blind
  /\ UNCHANGED <<dirs, watched, parents>>

(* The mode of f changes: a pure chmod event. *)
Chmod(f) ==
  /\ CountOp
  /\ content[f] # Absent
  /\ sealed' = IF f \in sealed THEN sealed \ {f} ELSE sealed \cup {f}
  /\ IF DirOf(f) \in watched
       THEN Deliver([name |-> f, chmod |-> TRUE])
       ELSE Quiet
  /\ UNCHANGED <<content, dirs, dirty, watched, parents, blind>>

(* A .claude directory appears; its parent's watch, if any, reports it. *)
MakeDir(d) ==
  /\ CountOp
  /\ d \notin dirs
  /\ dirs' = dirs \cup {d}
  /\ IF d \in parents THEN Deliver([name |-> d, chmod |-> FALSE]) ELSE Quiet
  /\ UNCHANGED <<content, sealed, dirty, watched, parents, blind>>

(* An empty .claude directory is removed, and its watch with it. *)
RemoveDir(d) ==
  /\ CountOp
  /\ d \in dirs
  /\ \A f \in Files : DirOf(f) = d => content[f] = Absent
  /\ dirs' = dirs \ {d}
  /\ watched' = watched \ {d}
  /\ IF d \in watched \cup parents
       THEN Deliver([name |-> d, chmod |-> FALSE])
       ELSE Quiet
  /\ UNCHANGED <<content, sealed, dirty, parents, blind>>

WorldNext ==
  \/ \E f \in Files, c \in Contents \cup {Absent} : Change(f, c)
  \/ \E f \in Files : Chmod(f)
  \/ \E d \in Dirs : MakeDir(d) \/ RemoveDir(d)
=============================================================================
