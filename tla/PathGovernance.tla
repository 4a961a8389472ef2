--------------------------- MODULE PathGovernance ---------------------------
(***************************************************************************)
(* Which profile may write a path: path_governance_check.py.               *)
(*                                                                         *)
(* Data abstraction.  A path is the sequence of its names; a doubled or a  *)
(* trailing slash is an empty name, and `/` is the path of no names.  A    *)
(* pattern is a directory, alone or followed by `/**`, the two forms the   *)
(* configuration uses.  fnmatch lets `*` stand for any text, slashes and   *)
(* nothing included: `/**` is any depth below, and matches `/` as well.    *)
(* Names keep their number of characters, because rules are chosen by the  *)
(* length of the pattern's text.  A rule is a record of                    *)
(*   match      its patterns                                               *)
(*   owner      owner_profile                                              *)
(*   allowed    allowed_profiles, empty when the key is missing            *)
(*   delegate   delegate_profile, or None                                  *)
(*   warn       decision = "warn"                                          *)
(***************************************************************************)
EXTENDS Integers, Sequences, SequencesExt, FiniteSetsExt

CONSTANTS
  Profiles,    \* profile and expert ids, numbered in the order of the names
  Characters,  \* name |-> its number of characters
  None

ASSUME ProfilesAssumption == Profiles \subseteq Nat /\ None \notin Profiles

ASSUME CharactersAssumption == \A n \in DOMAIN Characters : Characters[n] \in Nat

Patterns == [dir : Seq(DOMAIN Characters), below : BOOLEAN]

Rules == [match : SUBSET Patterns, owner : Profiles, allowed : SUBSET Profiles,
          delegate : Profiles \union {None}, warn : BOOLEAN]

\* The violations of one check: each is the delegate it names, or None.
Delegates == Profiles \union {None}

normalize_path(path) == SelectSeq(path, LAMBDA name : name # "")

\* fnmatch.fnmatch(path, pattern).
FnMatch(path, pattern) ==
  IF pattern.below
  THEN IsPrefix(pattern.dir, path) /\ (path = <<>> \/ path # pattern.dir)
  ELSE path = pattern.dir

\* The characters after the names: `/**`, nothing, or the `/` of no names.
Ending(pattern) ==
  IF pattern.below THEN 3 ELSE IF pattern.dir = <<>> THEN 1 ELSE 0

\* len(normalized_pattern): a slash before every name, and the ending.
Length(pattern) ==
  FoldLeft(LAMBDA n, name : n + 1 + Characters[name], Ending(pattern), pattern.dir)

\* The pairs best_rule_for_path sorts, as <<length, number of the rule>>.
Candidates(path, rules) ==
  UNION {{<<Length(pattern), i>> : pattern \in
            {q \in rules[i].match : FnMatch(path, q)}} : i \in DOMAIN rules}

\* Fault: the sort is not reversed.
best_rule_for_path_Shortest(path, rules) ==
  IF Candidates(path, rules) = {} THEN None
  ELSE LET shortest == Min({c[1] : c \in Candidates(path, rules)})
       IN  Min({c[2] : c \in {d \in Candidates(path, rules) : d[1] = shortest}})

\* The number of the rule with the longest pattern; the sort is stable, so
\* the first of them.
best_rule_for_path(path, rules) ==
  IF Candidates(path, rules) = {} THEN None
  ELSE LET longest == Max({c[1] : c \in Candidates(path, rules)})
       IN  Min({c[2] : c \in {d \in Candidates(path, rules) : d[1] = longest}})

Allowed(rule) == IF rule.allowed = {} THEN {rule.owner} ELSE rule.allowed

Delegate(rule) == IF rule.delegate = None THEN rule.owner ELSE rule.delegate

\* status = "violation" for this path.
Violates(actor, path, rules, strict) ==
  LET best == best_rule_for_path(normalize_path(path), rules)
  IN  IF best = None THEN strict
      ELSE actor \notin Allowed(rules[best]) /\ ~rules[best].warn

\* The delegate_profile of a violation; an unowned path has none.
DelegateOf(path, rules) ==
  LET best == best_rule_for_path(normalize_path(path), rules)
  IN  IF best = None THEN None ELSE Delegate(rules[best])

\* check_paths: ok is that no path is a violation.
Violations(actor, paths, rules, strict) ==
  {path \in paths : Violates(actor, path, rules, strict)}

check_paths(actor, paths, rules, strict) ==
  LET bad == Violations(actor, paths, rules, strict)
  IN  [ok |-> bad = {}, delegates |-> {DelegateOf(path, rules) : path \in bad}]
=============================================================================
