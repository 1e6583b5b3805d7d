------------------------------- MODULE ExpUtil -------------------------------
(***************************************************************************)
(* The parsers of basic-sim (exp-util.cc).  A piece of text that a parser  *)
(* reads as a number is a token: <<>> when it is none, else <<n, k>>, the  *)
(* k-th way of writing n ("7", "07", "+7"), so that two different texts    *)
(* may denote one number.  A parameter value is a record [form, items]:    *)
(* form is "set", "list" or "map" when the text is encased that way and    *)
(* "plain" otherwise, items are what stands between the separators.  Every *)
(* parser P comes as a predicate IsP (it does not throw) and its value P.  *)
(***************************************************************************)
EXTENDS Integers, Sequences, FiniteSets, Functions

Token == {<<>>} \cup (Int \X Nat)

IsInt64(t)    == t # <<>>
Int64(t)      == t[1]
IsPositive(t) == IsInt64(t) /\ Int64(t) >= 0
IsGeqOne(t)   == IsPositive(t) /\ Int64(t) >= 1

(* Doubles are in units of a hundredth where they must be at most 1.         *)
IsBetweenZeroAndOne(t) == IsInt64(t) /\ Int64(t) \in 0 .. 100

IsBoolean(s) == s \in {"true", "1", "false", "0"}
Boolean(s)   == s \in {"true", "1"}

(* set(a, b, ...): no text twice, and no number twice.                       *)
IsSetString(v) == v.form = "set" /\ IsInjective(v.items)

IsSetPositiveInt64(v) ==
  /\ IsSetString(v)
  /\ \A t \in Range(v.items) : IsPositive(t)
  /\ Cardinality({Int64(t) : t \in Range(v.items)}) = Cardinality(Range(v.items))

SetPositiveInt64(v) == {Int64(t) : t \in Range(v.items)}

(* A text split on "-", "->" or ":" into exactly two parts.                  *)
IsSplitInTwo(s) == Len(s) = 2

IsPair(s) == IsSplitInTwo(s) /\ IsPositive(s[1]) /\ IsPositive(s[2])
Pair(s)   == <<Int64(s[1]), Int64(s[2])>>

(* set(a->b, ...)                                                            *)
IsSetDirectedPair(v) ==
  /\ IsSetString(v)
  /\ \A s \in Range(v.items) : IsPair(s) /\ Pair(s)[1] # Pair(s)[2]
  /\ Cardinality({Pair(s) : s \in Range(v.items)}) = Cardinality(Range(v.items))

SetDirectedPair(v) == {Pair(s) : s \in Range(v.items)}

(* list(a, b, ...): duplicates are fine.                                     *)
IsListPositiveInt64(v) == v.form = "list" /\ \A t \in Range(v.items) : IsPositive(t)
ListPositiveInt64(v)   == [i \in DOMAIN v.items |-> Int64(v.items[i])]

(* map(key: value, ...): no key text twice.                                  *)
IsMapString(v) ==
  /\ v.form = "map"
  /\ \A s \in Range(v.items) : IsSplitInTwo(s)
  /\ IsInjective([i \in DOMAIN v.items |-> v.items[i][1]])

AllItemsAreLessThan(S, n) == \A x \in S : x < n

(* Lines of a .properties file: [kind |-> "skip"] for blanks and comments,   *)
(* a pair when "=" splits the line in two, "other" when it does not.         *)
Pairs(lines) == SelectSeq(lines, LAMBDA l : l.kind = "pair")

IsConfig(lines) ==
  /\ \A l \in Range(lines) : l.kind # "other"
  /\ IsInjective([i \in DOMAIN Pairs(lines) |-> Pairs(lines)[i].key])

ConfigOf(lines) ==
  [k \in {l.key : l \in Range(Pairs(lines))} |->
     (CHOOSE l \in Range(Pairs(lines)) : l.key = k).value]

HasParam(config, key) == key \in DOMAIN config
ParamOrDefault(config, key, default) == IF HasParam(config, key) THEN config[key] ELSE default
==============================================================================
