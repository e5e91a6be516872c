----------------------------- MODULE StoragePaths -----------------------------
(***************************************************************************)
(* Paths and capabilities (pubky-common/src/{storage_path,capabilities}.rs): *)
(* pure operators.  A path is the sequence of the segments that follow its   *)
(* leading slash: "/" is <<"">>, "/a/b" is <<"a", "b">>, "/a/" is <<"a", "">>.*)
(***************************************************************************)
EXTENDS Naturals, Sequences, SequencesExt, FiniteSets, Values

CONSTANTS
  Decoded,       \* percent-encoded segment -> the segments it decodes to, several if it
                 \* holds an encoded slash; Failed if it is not UTF-8
  BadSegments,   \* segments with a control character, a backslash or too long
  BlankSegments, \* segments that end in whitespace
  MaxSegments    \* the total length, in segments

Root        == <<"">>
PublicRoot  == <<"pub", "">>
PrivateRoot == <<"priv", "">>

IsDirectory(p) == Last(p) = ""
IsFile(p)      == ~IsDirectory(p)

\* The text of p starts with the text of the directory d.
StartsWith(p, d) == Len(p) >= Len(d) /\ SubSeq(p, 1, Len(d) - 1) = Front(d)

ValidSegment(s) == s \notin BadSegments

\* validate_total_length and validate_trailing_whitespace
ValidWhole(p) == Len(p) <= MaxSegments /\ Last(p) \notin BlankSegments

\* StoragePath::new accepts a path in canonical form only.
IsCanonical(p) ==
  /\ p # <<>> /\ ValidWhole(p)
  /\ \A i \in 1..Len(p) : /\ p[i] = "" => i = Len(p)
                          /\ p[i] \notin {".", ".."} /\ ValidSegment(p[i])

\* StoragePath::normalize drops empty and dot segments, and resolves "..".
Normalize(raw) ==
  LET Push(segs, s) ==
        IF segs = Failed THEN Failed
        ELSE CASE s \in {"", "."} -> segs
               [] s = ".." -> IF segs = <<>> THEN Failed ELSE Front(segs)
               [] OTHER -> IF ValidSegment(s) THEN Append(segs, s) ELSE Failed
      segs == FoldLeft(Push, <<>>, raw)
      path == IF segs = <<>> THEN Root
              ELSE IF Last(raw) \in {"", ".", ".."} THEN Append(segs, "") ELSE segs
  IN IF segs = Failed THEN Failed ELSE IF ValidWhole(path) THEN path ELSE Failed

\* The path is decoded as a whole, before it is split at its slashes.
DecodeSegment(s) == IF s \in DOMAIN Decoded THEN Decoded[s] ELSE <<s>>
Decode(raw) ==
  IF \E i \in 1..Len(raw) : DecodeSegment(raw[i]) = Failed THEN Failed
  ELSE FlattenSeq([i \in 1..Len(raw) |-> DecodeSegment(raw[i])])

CoversPath(scope, p) == scope = p \/ (IsDirectory(scope) /\ StartsWith(p, scope))

------------------------------------------------------------------------------
(* Capabilities: a scope and a set of actions.  The text has one colon       *)
(* between them; the scope is in canonical form and holds no delimiter.      *)

Actions  == {"r", "w", "e"}
RootCap  == [scope |-> Root, acts |-> {"r", "w"}]

ParseScope(scope) == IF scope # <<>> /\ ~(\E i \in 1..Len(scope) : scope[i] = ",")
                        /\ IsCanonical(scope)
                     THEN scope ELSE Failed

\* Capability::from_str, text being [scope, colons, acts].
ParseCapability(text) ==
  IF \/ text.colons # 1 \/ text.acts = {} \/ ~(text.acts \subseteq Actions)
     \/ ParseScope(text.scope) = Failed
  THEN Failed ELSE [scope |-> text.scope, acts |-> text.acts]

\* The first entry that does not parse fails the list; no text is no capability.
ParseCapabilities(texts) ==
  LET caps == [i \in 1..Len(texts) |-> ParseCapability(texts[i])] IN
  IF \E i \in 1..Len(texts) : caps[i] = Failed THEN Failed ELSE caps

Permits(caps, p, act) ==
  \E i \in 1..Len(caps) : CoversPath(caps[i].scope, p) /\ act \in caps[i].acts

\* Fault: a capability covers another one of a narrower scope.
CapCoversByScope(c, other) == CoversPath(c.scope, other.scope)

CapCovers(c, other) == CoversPath(c.scope, other.scope) /\ other.acts \subseteq c.acts

\* normalize: capabilities of one scope are merged where the first one is, and
\* a capability that another covers is dropped.
MergeScopes(caps) ==
  LET Add(merged, c) ==
        IF \E i \in 1..Len(merged) : merged[i].scope = c.scope
        THEN [i \in 1..Len(merged) |->
                IF merged[i].scope = c.scope
                THEN [merged[i] EXCEPT !.acts = @ \cup c.acts] ELSE merged[i]]
        ELSE Append(merged, c)
  IN FoldLeft(Add, <<>>, caps)

NormalizeCaps(caps) ==
  LET Keep(kept, c) ==
        IF \E i \in 1..Len(kept) : CapCovers(kept[i], c) THEN kept
        ELSE Append(SelectSeq(kept, LAMBDA k : ~CapCovers(c, k)), c)
  IN FoldLeft(Keep, <<>>, MergeScopes(caps))
===============================================================================
