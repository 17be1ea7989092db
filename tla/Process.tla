------------------------------ MODULE Process ------------------------------
(***************************************************************************)
(* The process: Parse, the container with its lazily built singletons, the *)
(* signals, the watcher's run, and the deferred cleanup.  The watcher      *)
(* itself is module Watcher, of which only the way it returns is seen.     *)
(*                                                                         *)
(* Every getter builds its object on the first call and caches it; a root  *)
(* is opened by the first of its users, and can fail to open.              *)
(***************************************************************************)
EXTENDS Overrides, Glob

CONSTANTS
    MaxRoots,     \* bound: descriptors opened for one side
    ModeArgs,     \* the numbers given for a mode
    IdArgs,       \* the numbers given for an id
    Letters,      \* the characters of names
    MaxPattern,   \* bound: the length of the user's pattern
    MaxName,      \* bound: the length of a name
    MaxDepth      \* bound: the names in a path

ASSUME BoundAssumption ==
    /\ {MaxRoots, MaxPattern, MaxName, MaxDepth} \subseteq Nat \ {0}
    /\ ModeArgs \subseteq Nat /\ IdArgs \subseteq Nat
    /\ {"*", "?", "/", "["} \cap Letters = {}

Sides == {"source", "target"}

ModeFlags  == {Unset, Malformed} \cup {Given(m) : m \in ModeArgs}
OwnerFlags == {Unset, Malformed} \cup {Given(o) : o \in [uid : IdArgs, gid : IdArgs]}
UserPatterns == BoundedSeqs(Letters \cup {"*", "?", "/", "["}, MaxPattern)

\* What of the command line decides about the start, or about the target: the
\* flags that stop or shape the start, those that override metadata, and the
\* ignore patterns, each with all their values.
Starting ==
    [parsed : {"ok", "help", "error"}, version : BOOLEAN, roots : BOOLEAN, log : BOOLEAN,
     interval : {"negative", "zero", "positive"},
     fileMode : {Unset}, dirMode : {Unset}, owner : {Unset}, ignore : {{}}]
Overriding ==
    [parsed : {"ok"}, version : {FALSE}, roots : {TRUE}, log : {TRUE}, interval : {"zero"},
     fileMode : ModeFlags, dirMode : ModeFlags, owner : OwnerFlags, ignore : {{}}]
Ignoring ==
    [parsed : {"ok"}, version : {FALSE}, roots : {TRUE}, log : {TRUE}, interval : {"zero"},
     fileMode : {Unset}, dirMode : {Unset}, owner : {Unset}, ignore : {{p} : p \in UserPatterns}]

CommandLine == Starting \cup Overriding \cup Ignoring

VARIABLES
    args,
    cfg,       \* what Parse made of it, or Refused
    step,      \* where run() is: "parse", "notify", "wire", "watch" or "cleanup",
               \* and in the end "exited" or "killed"
    calls,     \* the getters still to be called on the way to the watcher
    matcher,   \* the matcher is cached
    root,      \* the cached root of each side: a descriptor, or 0 for nil
    uses,      \* the descriptors that the adapters and event sources were built on
    polled,    \* the symlink poller is among the event sources
    fds,       \* the open descriptors of each side
    signals,   \* of SIGINT and SIGTERM: "default" action, "caught", "delivered"
    code       \* the exit code

container == <<calls, matcher, root, uses, polled, fds>>
processVars == <<args, cfg, step, calls, matcher, root, uses, polled, fds, signals, code>>

Nil == 0
None == 255   \* no exit code yet

ProcessInit ==
    /\ args \in CommandLine
    /\ cfg = Refused
    /\ step = "parse" /\ calls = <<>>
    /\ matcher = FALSE /\ polled = FALSE
    /\ root = [s \in Sides |-> Nil]
    /\ uses = [s \in Sides |-> {}] /\ fds = [s \in Sides |-> {}]
    /\ signals = "default" /\ code = None

Exit(c) == code' = c /\ step' = "exited"

\* Slip: the mandatory flags are asked for before --version is seen.
VerdictInOrder ==
    IF args.parsed = "help" THEN 0
    ELSE IF args.parsed = "error" \/ ~args.roots THEN 2
    ELSE IF args.version THEN 0
    ELSE IF ~args.log \/ args.interval = "negative" \/ parseOverrides(args) = Refused THEN 2
    ELSE None

\* The exit code that Parse leads to, or none.
Verdict ==
    IF args.parsed = "help" THEN 0
    ELSE IF args.parsed = "error" THEN 2
    ELSE IF args.version THEN 0
    ELSE IF \/ ~args.roots \/ ~args.log \/ args.interval = "negative"
            \/ parseOverrides(args) = Refused THEN 2
    ELSE None

\* The Config of an accepted command line.
Config ==
    [overrides |-> parseOverrides(args), ignore |-> Ignore(args.ignore),
     polls |-> args.interval = "positive"]

\* The matcher and the roots in the order in which GetWatcher comes upon them:
\* for the use cases, whose ports are cached, and for the event sources.
UsecasePorts == <<"matcher", "source", "target">>

\* Slip: the event sources are cached before the poller is added.
SourcesCachedEarly == <<"source", "target">>

EventSourcePorts ==
    <<"source", "target">> \o (IF cfg.polls THEN <<"matcher">> ELSE <<>>)

Wiring == UsecasePorts \o EventSourcePorts

Parse ==
    /\ step = "parse"
    /\ IF Verdict = None
       THEN step' = "notify" /\ cfg' = Config /\ UNCHANGED code
       ELSE Exit(Verdict) /\ UNCHANGED cfg
    /\ UNCHANGED <<args, container, signals>>

NotifyContext ==
    /\ step = "notify"
    /\ signals' = "caught"
    /\ step' = "wire" /\ calls' = Wiring
    /\ UNCHANGED <<args, cfg, matcher, root, uses, polled, fds, code>>

(***************************************************************************)
(* The container.                                                          *)
(***************************************************************************)
GetMatcher ==
    /\ step = "wire" /\ calls # <<>> /\ Head(calls) = "matcher"
    /\ ~NewGlobFails(cfg.ignore)
    /\ matcher' = TRUE
    /\ polled' = matcher          \* the second call is the poller's
    /\ calls' = Tail(calls)
    /\ UNCHANGED <<args, cfg, step, root, uses, fds, signals, code>>

\* Slip: every user opens a root of its own.
OpenRootAgain(s) ==
    /\ step = "wire" /\ calls # <<>> /\ Head(calls) = s
    /\ \E fd \in (1..MaxRoots) \ fds[s] :
         /\ root' = [root EXCEPT ![s] = fd]
         /\ fds' = [fds EXCEPT ![s] = @ \cup {fd}]
         /\ uses' = [uses EXCEPT ![s] = @ \cup {fd}]
    /\ calls' = Tail(calls)
    /\ UNCHANGED <<args, cfg, step, matcher, polled, signals, code>>

GetRoot(s) ==
    /\ step = "wire" /\ calls # <<>> /\ Head(calls) = s
    /\ \E fd \in 1..MaxRoots :
         /\ fd \notin fds[s] \/ fd = root[s]
         /\ root[s] # Nil => fd = root[s]
         /\ root' = [root EXCEPT ![s] = fd]
         /\ fds' = [fds EXCEPT ![s] = @ \cup {fd}]
         /\ uses' = [uses EXCEPT ![s] = @ \cup {fd}]
    /\ calls' = Tail(calls)
    /\ UNCHANGED <<args, cfg, step, matcher, polled, signals, code>>

GetSourceRoot == GetRoot("source")
GetTargetRoot == GetRoot("target")

\* A pattern is malformed or a root does not open: every getter up to GetWatcher
\* returns the error.
WiringFails ==
    /\ step = "wire" /\ calls # <<>>
    /\ IF Head(calls) = "matcher" THEN NewGlobFails(cfg.ignore) ELSE root[Head(calls)] = Nil
    /\ code' = 1 /\ step' = "cleanup"
    /\ UNCHANGED <<args, cfg, container, signals>>

(***************************************************************************)
(* run.                                                                    *)
(***************************************************************************)
Wired ==
    /\ step = "wire" /\ calls = <<>>
    /\ step' = "watch"
    /\ UNCHANGED <<args, cfg, container, signals, code>>

\* The watcher returns nil only when it was cancelled, and then always returns.
WatcherStops ==
    /\ step = "watch" /\ signals = "delivered"
    /\ code' = 0 /\ step' = "cleanup"
    /\ UNCHANGED <<args, cfg, container, signals>>

WatcherFails ==
    /\ step = "watch"
    /\ code' = 1 /\ step' = "cleanup"
    /\ UNCHANGED <<args, cfg, container, signals>>

\* stop, then Close: whatever was opened, and only that.
Cleanup ==
    /\ step = "cleanup"
    /\ fds' = [s \in Sides |-> fds[s] \ {root[s]}]
    /\ root' = [s \in Sides |-> Nil]
    /\ step' = "exited"
    /\ signals' = "default"
    /\ UNCHANGED <<args, cfg, calls, matcher, uses, polled, code>>

Run ==
    \/ Parse \/ NotifyContext \/ Wired \/ WatcherStops \/ Cleanup
    \/ GetMatcher \/ GetSourceRoot \/ GetTargetRoot

(***************************************************************************)
(* Signals: before NotifyContext and after stop the process just dies.     *)
(***************************************************************************)
Signal ==
    /\ step \notin {"exited", "killed"}
    /\ \/ /\ signals = "default"
          /\ step' = "killed"
          /\ UNCHANGED signals
       \/ /\ signals = "caught"
          /\ signals' = "delivered"
          /\ UNCHANGED step
    /\ UNCHANGED <<args, cfg, container, code>>

ProcessNext == Run \/ WiringFails \/ WatcherFails \/ Signal

ProcessSpec == ProcessInit /\ [][ProcessNext]_processVars

(***************************************************************************)
(* Properties.                                                             *)
(***************************************************************************)

\* Whichever step failed, an orderly exit leaves no descriptor open.
ReleasesAll == step = "exited" => \A s \in Sides : fds[s] = {}

\* The watcher runs with what the command line asked for: adapters and event
\* sources of a side on the same root, which stays open, the poller exactly if the
\* interval asks for it, and no pattern that could not be understood.
RunsAsConfigured ==
    step = "watch" =>
      /\ \A s \in Sides : uses[s] = {root[s]} /\ fds[s] = uses[s]
      /\ polled = (args.interval = "positive")
      /\ args.parsed = "ok" /\ args.roots /\ args.log /\ ~args.version
      /\ \A p \in args.ignore : ~BadPattern(p)

\* Zero says that usage or version was asked for and printed, whatever else the
\* command line lacks, or that a signal stopped the agent; two, that the command
\* line is to blame, and then nothing was opened.
ExitTells ==
    /\ args.parsed = "help" \/ (args.parsed = "ok" /\ args.version) => code \in {None, 0}
    /\ code = 2 => cfg = Refused /\ \A s \in Sides : uses[s] = {}

\* What the flags say about an entry, read off the command line.
Promised(kind, source) ==
    LET mode == IF kind = "dir" THEN args.dirMode ELSE args.fileMode
    IN  [mode |-> IF mode = Unset THEN source.mode ELSE mode.value,
         uid  |-> IF args.owner = Unset THEN source.uid ELSE args.owner.value.uid,
         gid  |-> IF args.owner = Unset THEN source.gid ELSE args.owner.value.gid]

\* Whatever command line was accepted, one reconciliation enforces every flag that
\* was given, zero included, and preserves what no flag was given for, and the
\* next one finds nothing to do: no accepted value is one that chmod or chown
\* would not keep, but for Keep, the largest id, which chown takes for -1: it is
\* accepted, changes nothing and is told as a change again each time.
Enforced ==
    step = "watch" =>
      \A kind \in {"file", "dir"}, source \in Attributes, target \in Attributes :
        LET promised == Promised(kind, source)
            synced   == syncMetadata(cfg.overrides, kind, source, target)
        IN  /\ \A f \in {"mode", "uid", "gid"} :
                 synced.attrs[f] = promised[f] \/ (f # "mode" /\ promised[f] = Keep)
            /\ syncMetadata(cfg.overrides, kind, source, synced.attrs).event
                 => Keep \in {promised.uid, promised.gid}

BoundedPaths == BoundedSeqs(NamesUpTo(Letters, MaxName), MaxDepth)

\* What the walks leave out is exactly what an event would not reconcile either and
\* all that is below a match of a pattern with a slash, which events do reconcile: a
\* pattern without a slash is inherited by every path below, one with a slash by none.
PruningIsIgnoring ==
    step = "watch" =>
      \A path \in BoundedPaths :
        Pruned(cfg.ignore, path) <=>
          \/ Matches(cfg.ignore, path)
          \/ \E p \in cfg.ignore, i \in DOMAIN path :
               /\ i < Len(path)
               /\ HasSlash(p) /\ Match(p, Joined(SubSeq(path, 1, i)))

\* The plumbing of atomic publishers and all that is below it is ignored, whatever
\* patterns the user gives.
PlumbingIgnored ==
    step = "watch" =>
      \A path \in BoundedPaths :
        (\E i \in DOMAIN path : Len(path[i]) >= 2 /\ path[i][1] = "." /\ path[i][2] = ".")
          => Matches(cfg.ignore, path)
=============================================================================
