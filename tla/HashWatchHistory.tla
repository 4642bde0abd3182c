-------------------------- MODULE HashWatchHistory --------------------------
(***************************************************************************)
(* HashWatch with a history of what its files held: two things the         *)
(* documentation says of the watcher are about that history.               *)
(***************************************************************************)
EXTENDS HashWatch

VARIABLE
  taken        \* <<file, content>>: what files became while the daemon ran

historyVars == <<vars, taken>>

HInit == Init /\ taken = {}

Became == {<<f, content'[f]>> : f \in {g \in Files : content'[g] # content[g]}}

HNext == Next /\ taken' = IF phase = "up" THEN taken \cup Became ELSE {}

HSpec == HInit /\ [][HNext]_historyVars

Settled ==
  /\ phase = "up"
  /\ queue = <<>>
  /\ \A t \in Timers : timer[t].st = "free"

(* docs/THREAT_MODEL.md:51, of an edit that is then undone: "All transitions *)
(* are recorded in the audit log even when the final hash matches the        *)
(* baseline" - once nothing is left to do, nothing was dropped, unreadable   *)
(* or out of the watcher's sight and no statement has failed, each content   *)
(* has its row.                                                              *)
EveryTransitionRecorded ==
  Settled /\ ~ overflow /\ warned = {} /\ refused = {} /\ blind = {} =>
    \A x \in taken : \E row \in audit : row.file = x[1] /\ row.hash = x[2]

(* init.go:61, of monitored files that do not exist yet: "they will be       *)
(* detected on first change"; watcher.go:81 watches the parent "so we catch  *)
(* creation of the .claude dir later".                                       *)
FirstChangeDetected ==
  phase = "up" =>
    \A f \in dirty : DirOf(f) \in parents /\ <<f, content[f]>> \in taken =>
                       WillRead(f) \/ f \in warned \/ overflow
=============================================================================
