-------------------------------- MODULE Glob --------------------------------
(***************************************************************************)
(* The ignore patterns: which relative paths the matcher matches, and what *)
(* those who walk a tree make of it.  They leave out an ignored entry with *)
(* all that is below it, while the events of what is below it come with    *)
(* paths of their own.                                                     *)
(*                                                                         *)
(* Names and patterns are sequences of characters; of the pattern syntax,  *)
(* "*" and "?" are modelled, and of classes only that an open one is       *)
(* refused.                                                                *)
(***************************************************************************)
EXTENDS Integers, Sequences, SequencesExt

HasSlash(pattern) == "/" \in Range(pattern)

(***************************************************************************)
(* filepath.Match: each token of the pattern takes its share of the name.  *)
(***************************************************************************)
BadPattern(pattern) == "[" \in Range(pattern)

Takes(token, share) ==
    CASE token = "*" -> "/" \notin Range(share)
      [] token = "?" -> Len(share) = 1 /\ share[1] # "/"
      [] OTHER       -> share = <<token>>

Match(pattern, name) ==
    \E cut \in [0..Len(pattern) -> 0..Len(name)] :
      /\ cut[0] = 0 /\ cut[Len(pattern)] = Len(name)
      /\ \A i \in 1..Len(pattern) :
           /\ cut[i - 1] <= cut[i]
           /\ Takes(pattern[i], SubSeq(name, cut[i - 1] + 1, cut[i]))

(***************************************************************************)
(* NewGlob and Matches; a path is the sequence of its names.               *)
(***************************************************************************)
Joined(path) == FoldLeft(LAMBDA rel, name : rel \o <<"/">> \o name, path[1], Tail(path))

NewGlobFails(patterns) == \E p \in patterns : BadPattern(p)

\* Slip: only the last component is looked at.
MatchesLast(patterns, path) ==
    \E p \in patterns :
      IF HasSlash(p) THEN Match(p, Joined(path)) ELSE Match(p, Last(path))

Matches(patterns, path) ==
    \E p \in patterns :
      IF HasSlash(p) THEN Match(p, Joined(path))
                     ELSE \E i \in DOMAIN path : Match(p, path[i])

\* walkSource, cleanupTarget and sweep leave the path out, or a directory above it.
Pruned(patterns, path) == \E i \in DOMAIN path : Matches(patterns, SubSeq(path, 1, i))

(***************************************************************************)
(* Parse: the user's patterns and the built-in one.                        *)
(***************************************************************************)
builtinIgnores == {<<".", ".", "*">>}

\* Slip: the built-in pattern is the flag's default value.
IgnoreDefault(user) == IF user = {} THEN builtinIgnores ELSE user

Ignore(user) == user \cup builtinIgnores

(***************************************************************************)
(* Bounded patterns and paths.                                             *)
(***************************************************************************)
BoundedSeqs(S, n) == UNION {[1..k -> S] : k \in 1..n}

NamesUpTo(letters, n) == BoundedSeqs(letters, n) \ {<<".">>, <<".", ".">>}
=============================================================================
