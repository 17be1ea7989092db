----------------------------- MODULE Overrides -----------------------------
(***************************************************************************)
(* --file-mode, --dir-mode and --owner: from the command line to the       *)
(* attributes of an entry of the target.  An unset flag preserves what the *)
(* source has; zero is a value like any other.                             *)
(*                                                                         *)
(* The call-by-call reconciliation is module SyncPath's; what matters here *)
(* is what of a number survives parsing, chmod and chown.                  *)
(***************************************************************************)
EXTENDS Naturals

CONSTANTS
    PermLimit,  \* 8^3: the modes below have permission bits only
    IdLimit     \* 2^32: ids are smaller; the largest, -1, is nobody's

ASSUME OverridesAssumption == PermLimit \in Nat \ {0} /\ IdLimit \in Nat \ {0, 1}

Unset     == [set |-> FALSE]     \* the flag is not given; a nil pointer
Malformed == [set |-> TRUE]      \* a value that is not a number, or no uid:gid
Given(v)  == [set |-> TRUE, value |-> v]
Owner(u, g) == [uid |-> u, gid |-> g]

Refused == [error |-> "ErrInvalidConfig"]

(***************************************************************************)
(* Parse.                                                                  *)
(***************************************************************************)
\* Slip: zero stands for an unset flag.
parseModeNonZero(arg) ==
    CASE arg \in {Unset, Given(0)} -> Unset
      [] arg = Malformed           -> Refused
      [] OTHER                     -> IF arg.value < PermLimit THEN arg ELSE Refused

parseMode(arg) ==
    CASE arg = Unset     -> Unset
      [] arg = Malformed -> Refused
      [] OTHER           -> IF arg.value < PermLimit THEN arg ELSE Refused

parseOwner(arg) ==
    CASE arg = Unset     -> Unset
      [] arg = Malformed -> Refused
      [] OTHER           -> IF arg.value.uid < IdLimit /\ arg.value.gid < IdLimit
                            THEN arg ELSE Refused

parseOverrides(flags) ==
    LET parsed == [fileMode |-> parseMode(flags.fileMode),
                   dirMode  |-> parseMode(flags.dirMode),
                   owner    |-> parseOwner(flags.owner)]
    IN  IF \E f \in DOMAIN parsed : parsed[f] = Refused THEN Refused ELSE parsed

(***************************************************************************)
(* metadataOverrides and apply.                                            *)
(***************************************************************************)
Override(option, preserved) == IF option.set THEN option.value ELSE preserved

apply(overrides, kind, node) ==
    LET owner == Override(overrides.owner, Owner(node.uid, node.gid))
        mode  == IF kind = "dir" THEN overrides.dirMode ELSE overrides.fileMode
    IN  [mode |-> Override(mode, node.mode), uid |-> owner.uid, gid |-> owner.gid]

(***************************************************************************)
(* syncMetadata, with what chmod and chown leave of their arguments: the   *)
(* attributes of the target, and whether a call was made that the watch on *)
(* the target reports.                                                     *)
(***************************************************************************)
Keep == IdLimit - 1
Chowned(id, old) == IF id = Keep THEN old ELSE id

syncMetadata(overrides, kind, source, target) ==
    LET src   == apply(overrides, kind, source)
        chmod == src.mode # target.mode
        chown == src.uid # target.uid \/ src.gid # target.gid
    IN  [attrs |-> [mode |-> IF chmod THEN src.mode % PermLimit ELSE target.mode,
                    uid  |-> IF chown THEN Chowned(src.uid, target.uid) ELSE target.uid,
                    gid  |-> IF chown THEN Chowned(src.gid, target.gid) ELSE target.gid],
         event |-> chmod \/ (chown /\ {src.uid, src.gid} # {Keep})]

Attributes == [mode : 0..(PermLimit - 1), uid : 0..(IdLimit - 2), gid : 0..(IdLimit - 2)]
=============================================================================
