------------------------------ MODULE Globbing ------------------------------
(***************************************************************************)
(* Globber.Glob, with which RoleManager compares a host with the patterns  *)
(* of the role file.  A value and a pattern are sequences of characters;   *)
(* "?" stands for one character and "*" for any number of them.            *)
(***************************************************************************)
EXTENDS Naturals, Sequences, FiniteSetsExt

CONSTANTS
    Characters,
    Upper           \* char.ToUpper, of the characters that are not themselves

ToUpper(ch) == IF ch \in DOMAIN Upper THEN Upper[ch] ELSE ch
SameLetter(a, b) == ToUpper(a) = ToUpper(b)

\* Glob answers "yes" or "no", or "throws".  GlobStep is the answer from position
\* v of the value and p of the pattern on, rest[i] the one from i and p + 1 on.  A
\* question mark is not tested for the end of the value: v passes it, and a letter
\* is then looked up beyond the end.  A star tries the shortest remainder of the
\* value first.
GlobStep(value, pattern, p, v, rest) ==
    IF p = Len(pattern) THEN IF v = Len(value) THEN "yes" ELSE "no"
    ELSE CASE pattern[p + 1] = "?" -> rest[v + 1]
           [] pattern[p + 1] = "*" ->
                LET tried == {i \in v..Len(value) : rest[i] # "no"}
                IN  IF tried = {} THEN "no" ELSE rest[Max(tried)]
           [] OTHER ->
                IF v = Len(value) THEN "no"
                ELSE IF v > Len(value) THEN "throws"
                ELSE IF SameLetter(pattern[p + 1], value[v + 1]) THEN rest[v + 1]
                ELSE "no"

Glob(value, pattern) ==
    LET at[p \in 0..Len(pattern)] ==
            [v \in Nat |-> GlobStep(value, pattern, p, v, at[p + 1])]
    IN  at[0][0]

\* What is meant: the value can be cut into one stretch for each character of
\* the pattern.
IsStretch(value, pattern, k, from, to) ==
    IF pattern[k] = "*" THEN from <= to
    ELSE /\ to = from + 1
         /\ pattern[k] = "?" \/ ToUpper(pattern[k]) = ToUpper(value[to])

Matches(value, pattern) ==
    \E cut \in [0..Len(pattern) -> 0..Len(value)] :
        /\ cut[0] = 0 /\ cut[Len(pattern)] = Len(value)
        /\ \A k \in 1..Len(pattern) : IsStretch(value, pattern, k, cut[k - 1], cut[k])
=============================================================================
