------------------------------- MODULE IocDB -------------------------------
(***************************************************************************)
(* The IOC database of ccguard: which indicators match a file.             *)
(*                                                                         *)
(* A path is a sequence of components.  What filepath.Match does within a  *)
(* component is reduced to a literal and to Star, which matches any one    *)
(* component; "**" is AnyDepth.                                            *)
(***************************************************************************)
EXTENDS Lists

CONSTANTS Star, AnyDepth

(* filepath.Match of one component. *)
PartMatches(pattern, part) == pattern = Star \/ pattern = part

(* A mutant: ** stands for at least one component. *)
SplitsNonEmpty(j, path) == j + 1..Len(path) + 1

(* Where what follows a ** may begin: "try each split point". *)
Splits(j, path) == j..Len(path) + 1

(* globMatchParts: the places in the path from which on it matches the       *)
(* pattern from i on.                                                        *)
GlobMatch(pat, path) ==
  LET matches[i \in 1..Len(pat) + 1] ==
        IF i > Len(pat) THEN {Len(path) + 1}
        ELSE LET rest == matches[i + 1] IN
             IF pat[i] = AnyDepth
               THEN {j \in 1..Len(path) + 1 : \E k \in Splits(j, path) : k \in rest}
               ELSE {j \in 1..Len(path) : PartMatches(pat[i], path[j]) /\ j + 1 \in rest}
  IN 1 \in matches[1]

(* matchIndicator; an indicator of a kind it does not know matches nothing. *)
MatchIndicator(ind, path, sha256) ==
  \/ ind.kind = "file_sha256" /\ \E v \in ind.values : v = sha256
  \/ ind.kind = "file_path_glob" /\ \E v \in ind.values : GlobMatch(v, path)

(* DB.Match: every indicator that matches, in the order they were loaded. *)
Match(db, path, sha256) ==
  Chosen(db, {i \in 1..Len(db) : MatchIndicator(db[i], path, sha256)})
-----------------------------------------------------------------------------
(* A mutant: the walk ends at the first file that does not parse. *)
EndsAtBroken(entry) == entry.visit # "ok" \/ ~ entry.parses

(* LoadDir: what ends the walk is an entry that cannot be visited, a         *)
(* directory that is gone meanwhile or may not be read.                      *)
EndsWalk(entry) == entry.visit # "ok"

LoadedUpTo(dir) ==
  CHOOSE n \in 0..Len(dir) :
    /\ \A i \in 1..n : ~ EndsWalk(dir[i])
    /\ n < Len(dir) => EndsWalk(dir[n + 1])

(* Malformed files and other files are skipped; a walk that ended because    *)
(* something no longer exists is no error.                                   *)
LoadIndicators(dir) ==
  LET n == LoadedUpTo(dir)
      Wanted(entry) == entry.ext = ".yaml" /\ entry.parses
  IN [indicators |-> FlattenSeq([i \in 1..n |->
                       IF Wanted(dir[i]) THEN dir[i].indicators ELSE <<>>]),
      err |-> n < Len(dir) /\ dir[n + 1].visit # "gone"]
-----------------------------------------------------------------------------
(* What docs/IOC_FORMAT.md:48-51 promises of a glob: the path can be cut    *)
(* into as many pieces as the pattern has parts, each ** taking zero or     *)
(* more components and every other part exactly the one it matches.         *)
Covers(pat, path) ==
  \E cut \in [0..Len(pat) -> 0..Len(path)] :
    /\ cut[0] = 0 /\ cut[Len(pat)] = Len(path)
    /\ \A i \in 1..Len(pat) :
         IF pat[i] = AnyDepth
           THEN cut[i - 1] <= cut[i]
           ELSE /\ cut[i] = cut[i - 1] + 1
                /\ PartMatches(pat[i], path[cut[i]])
=============================================================================
