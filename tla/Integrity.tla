------------------------------ MODULE Integrity ------------------------------
(***************************************************************************)
(* What Layer 1 promises of the files it watches, without timers, queues   *)
(* or a debounce window.  A change it can see makes it owe the file a look *)
(* from then on; only a look at what the file holds, or a warning,         *)
(* discharges that while it runs.  What a look found is judged once, by    *)
(* the approvals of one moment, and the judgement is told, or it cannot be *)
(* judged and a warning is; nothing else is ever alerted or recorded.      *)
(***************************************************************************)
CONSTANTS
  Files, Contents, Absent,
  KnownBad     \* the contents an indicator matches

VARIABLES
  disk,        \* what each file holds
  approved,    \* pairs of a file and a content
  view,        \* the files whose changes are seen
  lossy,       \* some change in view was not noticed, and that was reported
  running,     \* changes are being noticed
  owed,        \* the files that will be looked at
  held,        \* what looks have found and nobody was told yet
  warned,      \* the files of which only a warning was given
  alerts,      \* what was alerted
  rows,        \* what was recorded of changes
  refused      \* what could not be recorded

integrityVars ==
  <<disk, approved, view, lossy, running, owed, held, warned, alerts, rows,
    refused>>

Row(f, h, k) == [file |-> f, hash |-> h, kind |-> k]

(* What a look finds, and what becomes of it. *)
Finding(f) == [file |-> f, hash |-> disk[f], verdict |-> "none"]

RightVerdict(x) ==
  IF <<x.file, x.hash>> \in approved THEN "approved-change"
  ELSE IF x.hash \in KnownBad THEN "ioc-match"
  ELSE "unapproved-change"

Judged(x) == [x EXCEPT !.verdict = RightVerdict(x)]

Init ==
  /\ disk \in [Files -> Contents \cup {Absent}]
  /\ view = {} /\ lossy = FALSE /\ running = FALSE
  /\ owed = {} /\ held = {} /\ warned = {}
  /\ approved = {} /\ alerts = {} /\ rows = {} /\ refused = {}
-----------------------------------------------------------------------------
(* More may be owed than has to be: a write that changed nothing. *)
Noticed == owed \subseteq owed' /\ (lossy => lossy')

Change(f) ==
  /\ \E c \in Contents \cup {Absent} : disk' = [disk EXCEPT ![f] = c]
  /\ Noticed
  /\ running /\ f \in view => f \in owed' \/ lossy'
  /\ UNCHANGED <<approved, view, running, held, warned, alerts, rows, refused>>

(* Modes, directories and watches change. *)
Stir ==
  /\ Noticed
  /\ UNCHANGED <<disk, approved, running, held, warned, alerts, rows, refused>>

Command ==
  /\ approved' \in SUBSET (Files \X Contents)
  /\ UNCHANGED <<disk, view, lossy, running, owed, held, warned, alerts, rows,
                 refused>>
-----------------------------------------------------------------------------
(* f may still be owed another look. *)
Discharged(f) ==
  /\ f \in owed
  /\ owed \ {f} \subseteq owed' /\ owed' \subseteq owed

(* The same may have been found twice. *)
Released(x) ==
  /\ x \in held
  /\ held \ {x} \subseteq held' /\ held' \subseteq held

(* The store takes the row, or refuses it, and nobody is told of that. *)
Recorded(row) ==
  \/ rows' = rows \cup {row} /\ UNCHANGED refused
  \/ refused' = refused \cup {row} /\ UNCHANGED rows

Look(f) ==
  /\ disk[f] # Absent
  /\ Discharged(f)
  /\ held' = held \cup {Finding(f)}
  /\ warned' = warned \ {f}
  /\ UNCHANGED <<disk, approved, view, lossy, running, alerts, rows, refused>>

LookInVain(f) ==
  /\ disk[f] = Absent
  /\ Discharged(f)
  /\ alerts' = alerts \cup {Row(f, Absent, "removed")}
  /\ Recorded(Row(f, Absent, "removed"))
  /\ warned' = warned \ {f}
  /\ UNCHANGED <<disk, approved, view, lossy, running, held>>

GiveUp(f) ==
  /\ Discharged(f)
  /\ warned' = warned \cup {f}
  /\ UNCHANGED <<disk, approved, view, lossy, running, held, alerts, rows, refused>>

Judge(x) ==
  /\ x \in held /\ x.verdict = "none"
  /\ Judged(x) \in held'
  /\ held \ {x} \subseteq held' /\ held' \subseteq held \cup {Judged(x)}
  /\ UNCHANGED <<disk, approved, view, lossy, running, owed, warned, alerts,
                 rows, refused>>

Tell(x) ==
  /\ x.verdict # "none"
  /\ Released(x)
  /\ Recorded(Row(x.file, x.hash, x.verdict))
  /\ alerts' = IF x.verdict = "approved-change" THEN alerts
               ELSE alerts \cup {Row(x.file, x.hash, x.verdict)}
  /\ UNCHANGED <<disk, approved, view, lossy, running, owed, warned>>
-----------------------------------------------------------------------------
Start ==
  /\ ~ running /\ running'
  /\ Noticed
  /\ UNCHANGED <<disk, approved, held, warned, alerts, rows, refused>>

(* Shutting down: what is owed may be forgotten, what is held may not. *)
Leave ==
  /\ ~ running'
  /\ owed' \subseteq owed
  /\ UNCHANGED <<disk, approved, lossy, held, warned, alerts, rows, refused>>

(* No judgement can be had: what is held is given up, with a warning. *)
Abandon(x) ==
  /\ x.verdict = "none"
  /\ Released(x)
  /\ warned' = warned \cup {x.file}
  /\ UNCHANGED <<disk, approved, view, lossy, running, owed, alerts, rows, refused>>

End ==
  /\ ~ running'
  /\ owed' = {} /\ held' = {} /\ warned' = {} /\ refused' = {}
  /\ UNCHANGED <<disk, approved, alerts, rows>>

Next ==
  \/ Stir \/ Command \/ Start \/ Leave \/ End
  \/ \E f \in Files : Change(f) \/ Look(f) \/ LookInVain(f) \/ GiveUp(f)
  \/ \E x \in held : Judge(x) \/ Tell(x) \/ Abandon(x)

Spec == Init /\ [][Next]_integrityVars
=============================================================================
