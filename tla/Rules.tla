------------------------------- MODULE Rules -------------------------------
(***************************************************************************)
(* The pure parts of ccguard's rule sets, as calls: an input is chosen     *)
(* among bounded ones and the function answers.                            *)
(***************************************************************************)
EXTENDS IocDB, PolicyDB, FiniteSets

CONSTANTS
  Parts,       \* bound: the components of paths
  MaxPattern,  \* bound: the parts of a glob
  MaxPath,     \* bound: the components of a path
  MaxFiles     \* bound: the entries of the policy directory

ASSUME RulesAssumption ==
  MaxPattern \in Nat /\ MaxPath \in Nat /\ MaxFiles \in Nat

VARIABLES input, answer

vars == <<input, answer>>

SeqsUpTo(S, n) == UNION {[1..k -> S] : k \in 0..n}

Globs == SeqsUpTo(Parts \cup {Star, AnyDepth}, MaxPattern)
Paths == SeqsUpTo(Parts, MaxPath)

(* A policy that is valid, and one for each thing that makes it invalid. *)
Good  == [syscall |-> "execve", action |-> "warn"]
Kinds == {Good, [Good EXCEPT !.syscall = "ptrace"], [Good EXCEPT !.action = "block"]}

Entries == [visitable : BOOLEAN, ext : {".yaml", ".yml", ".txt"},
            parses : BOOLEAN, policies : SeqsUpTo(Kinds, 2)]

(* The policies of a directory are told apart by their id: where they are. *)
Named(i, kinds) ==
  [j \in DOMAIN kinds |-> [id |-> <<i, j>>, syscall |-> kinds[j].syscall,
                           action |-> kinds[j].action]]

PolicyDirs == {[i \in DOMAIN d |-> [d[i] EXCEPT !.policies = Named(i, @)]] :
                d \in SeqsUpTo(Entries, MaxFiles)}

(* Files are told apart by what they hold: one indicator of their own. *)
IocDirs == {[i \in DOMAIN d |-> [visit |-> d[i].visit, ext |-> d[i].ext,
                                 parses |-> d[i].parses, indicators |-> <<i>>]] :
             d \in SeqsUpTo([visit : {"ok", "gone", "denied"}, ext : {".yaml", ".txt"},
                             parses : BOOLEAN], MaxFiles + 1)}

Unanswered == [call |-> "none"]

Init ==
  /\ answer = Unanswered
  /\ \/ input \in [call : {"glob"}, pat : Globs, path : Paths]
     \/ input \in [call : {"load"}, dir : PolicyDirs]
     \/ \E dir \in PolicyDirs : \E at \in DOMAIN dir :
          input = [call |-> "check", dir |-> dir, at |-> at]
     \/ input \in [call : {"iocs"}, dir : IocDirs]

CallMatch ==
  /\ answer = Unanswered /\ input.call = "glob"
  /\ LET ind == [kind |-> "file_path_glob", values |-> {input.pat}] IN
       answer' = [call |-> "glob", result |-> Match(<<ind>>, input.path, "") # <<>>]
  /\ UNCHANGED input

CallLoad ==
  /\ answer = Unanswered /\ input.call = "load"
  /\ answer' = [call |-> "load", result |-> LoadWithFallback(input.dir)]
  /\ UNCHANGED input

CallCheck ==
  /\ answer = Unanswered /\ input.call = "check"
  /\ answer' = [call |-> "check", result |-> LoadFile(input.dir[input.at])]
  /\ UNCHANGED input

CallLoadIocs ==
  /\ answer = Unanswered /\ input.call = "iocs"
  /\ answer' = [call |-> "iocs", result |-> LoadIndicators(input.dir)]
  /\ UNCHANGED input

Next == CallMatch \/ CallLoad \/ CallCheck \/ CallLoadIocs

Spec == Init /\ [][Next]_vars
-----------------------------------------------------------------------------
(* The backtracking of globMatchParts (ioc.go:162-185) finds a cover of the *)
(* path by the pattern exactly when there is one.                           *)
GlobFindsCover ==
  answer.call = "glob" => answer.result = Covers(input.pat, input.path)

(* What is loaded is every valid policy of every readable YAML file, each   *)
(* once, however the broken ones are strewn among them; and a directory     *)
(* without YAML files leaves the daemon with the built-in policies and never*)
(* without any (policy.go:81-85, 109-171).                                  *)
IsYaml(file) == file.ext # ".txt"

Usable == {x \in (1..Len(input.dir)) \X (1..2) :
             LET file == input.dir[x[1]] IN
             /\ IsYaml(file) /\ file.parses
             /\ x[2] <= Len(file.policies)
             /\ file.policies[x[2]].syscall = Good.syscall
             /\ file.policies[x[2]].action = Good.action}

Loaded == {answer.result.policies[n].id : n \in 1..Len(answer.result.policies)}

NoPolicyLost ==
  answer.call = "load" /\ ~ answer.result.err =>
    /\ Usable # {} => /\ Loaded = Usable
                      /\ Len(answer.result.policies) = Cardinality(Usable)
    /\ (\A i \in 1..Len(input.dir) : ~ IsYaml(input.dir[i])) =>
         answer.result.policies = Defaults

(* `policy check' speaks for the daemon (policy_cmd.go:70-71): it finds no    *)
(* error in a YAML file exactly when `watch' will run with every policy in   *)
(* it, whatever else the directory holds, although the two validate it in    *)
(* loops of their own (policy.go:132-138 and 182-188) and only one knows     *)
(* what is a YAML file.  A walk that ended before the file is excepted.      *)
CheckedIsLoaded ==
  answer.call = "check" =>
    LET file == input.dir[input.at]
        db   == LoadWithFallback(input.dir).policies
    IN IsYaml(file) /\ (\A i \in 1..input.at : input.dir[i].visitable) =>
         (answer.result.errs = 0
            <=> /\ file.parses
                /\ \A j \in 1..Len(file.policies) :
                     \E n \in 1..Len(db) : db[n] = file.policies[j])

(* "One malformed file cannot block the rest" (ioc.go:72-74): without an     *)
(* error every indicator of every well-formed file is loaded, unless a       *)
(* directory vanished during the walk, and then what came before it.         *)
WellFormed(dir) ==
  {i \in 1..Len(dir) : dir[i].visit = "ok" /\ dir[i].ext = ".yaml" /\ dir[i].parses}

NoIndicatorLost ==
  answer.call = "iocs" =>
    LET vanished == {i \in 1..Len(input.dir) : input.dir[i].visit = "gone"}
        loaded   == {answer.result.indicators[k] : k \in DOMAIN answer.result.indicators}
    IN /\ ~ answer.result.err /\ vanished = {} => loaded = WellFormed(input.dir)
       /\ \A i \in WellFormed(input.dir) \ loaded :
            \E j \in 1..(i - 1) : input.dir[j].visit # "ok"
=============================================================================
