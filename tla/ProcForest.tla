----------------------------- MODULE ProcForest -----------------------------
(***************************************************************************)
(* The processes Layer 4 of ccguard observes, and behavior.ProcTree, the   *)
(* set of PIDs in which it keeps the hook process forest.                  *)
(*                                                                         *)
(* The operating system forks, reparents and ends processes and uses PIDs  *)
(* again.  A `ccguard hook-wrap' sends its PID to the daemon's socket, if  *)
(* it can, and then runs its command; the daemon registers the PID as a    *)
(* root in a goroutine per connection.                                     *)
(***************************************************************************)
EXTENDS Naturals

CONSTANTS
  Pids,        \* process identifiers
  Outside,     \* a parent that is none of Pids (init, a shell)
  Gone,        \* no such process
  MaxBirths    \* bound: processes started in all

ASSUME ForestAssumption ==
  /\ Outside \notin Pids /\ Gone \notin Pids /\ Outside # Gone
  /\ MaxBirths \in Nat

VARIABLES
  parent,      \* [Pids -> Pids, Outside or Gone]
  hooked,      \* history: the live hook-wraps and all their descendants
  unsent,      \* hook-wraps that have not been through notifyDaemon yet
  notices,     \* PIDs that connections have brought and nobody registered
  tree,        \* ProcTree.pids
  tainted,     \* history: live processes whose PID the daemon already knew
               \* when they got it, those whose parent's PID was used again
               \* while a poll had the two in hand, and their descendants
  fresh,       \* history: live processes younger than the last snapshot
  births       \* processes started, and audit records written, for MaxBirths

osVars     == <<parent, hooked, unsent, tainted, fresh, births>>
forestVars == <<parent, hooked, unsent, notices, tree, tainted, fresh, births>>

Alive(p) == parent[p] # Gone
Live     == {p \in Pids : Alive(p)}

ForestTypeOK ==
  /\ parent \in [Pids -> Pids \cup {Outside, Gone}]
  /\ hooked \in SUBSET Live /\ unsent \in SUBSET hooked
  /\ notices \in SUBSET Pids /\ tree \in SUBSET Pids
  /\ tainted \in SUBSET Live /\ fresh \in SUBSET Live
  /\ births \in Nat

ForestInit ==
  /\ parent = [p \in Pids |-> Gone]
  /\ hooked = {} /\ unsent = {} /\ tainted = {} /\ fresh = {}
  /\ notices = {} /\ tree = {}
  /\ births = 0
-----------------------------------------------------------------------------
(* The process q, if it lives, and its descendants: what is in every set    *)
(* that has q and the children of its members.                              *)
Family(q) ==
  {c \in Live : \A F \in SUBSET Pids :
     q \in F /\ (\A d \in Live : parent[d] \in F => d \in F) => c \in F}

(* A process gets the PID p.  A poll may have a child and the PID of its     *)
(* parent in hand meanwhile, `held': if p is the PID of that parent, the     *)
(* child will be taken for one of the new process.                           *)
Misled(p, held) == IF p = held.ppid THEN Family(held.pid) ELSE {}

Born(p, from, held) ==
  LET misled == tainted \cup Misled(p, held) IN
  /\ births < MaxBirths /\ births' = births + 1
  /\ ~ Alive(p)
  /\ parent' = [parent EXCEPT ![p] = from]
  /\ fresh' = fresh \cup {p}
  /\ tainted' = IF p \in tree \cup notices \cup {held.pid} \/ from \in misled
                  THEN misled \cup {p} ELSE misled

SpawnOther(p, held) ==
  /\ Born(p, Outside, held)
  /\ UNCHANGED <<hooked, unsent, notices, tree>>

SpawnHook(p, held) ==
  /\ Born(p, Outside, held)
  /\ hooked' = hooked \cup {p}
  /\ unsent' = unsent \cup {p}
  /\ UNCHANGED <<notices, tree>>

(* A hook-wrap forks its command only after notifyDaemon has returned. *)
Fork(p, c, held) ==
  /\ Alive(p) /\ p \notin unsent
  /\ Born(c, p, held)
  /\ hooked' = IF p \in hooked THEN hooked \cup {c} ELSE hooked
  /\ UNCHANGED <<unsent, notices, tree>>

(* The children of a process that ends are reparented. *)
Exit(p) ==
  /\ Alive(p)
  /\ parent' = [q \in Pids |-> IF q = p THEN Gone
                               ELSE IF parent[q] = p THEN Outside ELSE parent[q]]
  /\ hooked' = hooked \ {p} /\ unsent' = unsent \ {p}
  /\ tainted' = tainted \ {p} /\ fresh' = fresh \ {p}
  /\ UNCHANGED <<notices, tree, births>>

(* notifyDaemon: sent, or silently not - no listener, or a timeout. *)
Notify(p, listening) ==
  /\ p \in unsent
  /\ unsent' = unsent \ {p}
  /\ \/ listening /\ notices' = notices \cup {p}
     \/ UNCHANGED notices
  /\ UNCHANGED <<parent, hooked, tree, tainted, fresh, births>>

SystemNext(listening, held) ==
  \/ \E p \in Pids : SpawnOther(p, held) \/ SpawnHook(p, held) \/ Exit(p)
                     \/ Notify(p, listening)
  \/ \E p, c \in Pids : Fork(p, c, held)
-----------------------------------------------------------------------------
(* handlePIDConn, whenever its goroutine gets to it. *)
AddRoot(p) ==
  /\ p \in notices
  /\ notices' = notices \ {p}
  /\ tree' = tree \cup {p}
  /\ UNCHANGED osVars

(* A mutant: any process with a parent is a child. *)
AddsAnyChild(ppid) == ppid \in Pids

(* ProcTree.AddChild: whether the child is added, and the tree after it. *)
AddsChild(ppid) == ppid \in tree
AfterAddChild(pid, ppid) == IF AddsChild(ppid) THEN tree \cup {pid} ELSE tree

(* ProcTree.Cleanup. *)
AfterCleanup == tree \cap Live
=============================================================================
