------------------------ MODULE ExperimenTeX_proofs -------------------------
(***************************************************************************)
(* For every set of root classes, names and explines and documents of any  *)
(* length: what a name inherits is settled where it is declared, the       *)
(* interpreter computes exactly that, and it generates every instance      *)
(* once.                                                                   *)
(***************************************************************************)
EXTENDS ExperimenTeX, SequenceTheorems, TLAPS

-----------------------------------------------------------------------------
(* Sequences that list something once.                                     *)

(* Reading a sequence backwards lists the same elements (to_visit takes a   *)
(* name's children in reverse).                                            *)
LEMMA ReverseLists ==
    ASSUME NEW S, NEW s \in Seq(S), IsInjective(s)
    PROVE  Reverse(s) \in Seq(S) /\ ToSet(Reverse(s)) = ToSet(s) /\ IsInjective(Reverse(s))
<1>1. /\ Len(s) \in Nat /\ DOMAIN s = 1 .. Len(s)
      /\ \A i \in 1 .. Len(s) : s[i] \in S /\ (Len(s) - i) + 1 \in 1 .. Len(s)
    OBVIOUS
<1>2. Reverse(s) \in Seq(S) /\ DOMAIN Reverse(s) = 1 .. Len(s)
    BY <1>1 DEF Reverse
<1>3. \A i \in 1 .. Len(s) : Reverse(s)[i] = s[(Len(s) - i) + 1]
    BY DEF Reverse
<1>4. ToSet(Reverse(s)) = ToSet(s)
    <2>1. \A i \in 1 .. Len(s) : s[i] = Reverse(s)[(Len(s) - i) + 1]
        <3> TAKE i \in 1 .. Len(s)
        <3>1. (Len(s) - i) + 1 \in 1 .. Len(s) /\ (Len(s) - ((Len(s) - i) + 1)) + 1 = i
            BY <1>1
        <3> QED BY <1>3, <3>1
    <2> QED BY <1>1, <1>2, <1>3, <2>1 DEF ToSet
<1>5. IsInjective(Reverse(s))
    <2> SUFFICES ASSUME NEW i \in 1 .. Len(s), NEW j \in 1 .. Len(s),
                        Reverse(s)[i] = Reverse(s)[j]
                 PROVE  i = j
        BY <1>2 DEF IsInjective
    <2>1. (Len(s) - i) + 1 = (Len(s) - j) + 1
        BY <1>1, <1>3 DEF IsInjective
    <2> QED BY <1>1, <2>1
<1> QED BY <1>2, <1>4, <1>5

(* Putting a sequence in front of another that shares nothing with it.     *)
LEMMA ConcatLists ==
    ASSUME NEW S, NEW s \in Seq(S), NEW t \in Seq(S), IsInjective(s), IsInjective(t),
           \A x \in ToSet(s) : x \notin ToSet(t)
    PROVE  /\ s \o t \in Seq(S) /\ IsInjective(s \o t)
           /\ ToSet(s \o t) = ToSet(s) \cup ToSet(t)
<1> DEFINE u == s \o t
<1>1. /\ Len(s) \in Nat /\ Len(t) \in Nat
      /\ DOMAIN s = 1 .. Len(s) /\ DOMAIN t = 1 .. Len(t)
    OBVIOUS
<1>2. /\ u \in Seq(S) /\ DOMAIN u = 1 .. Len(s) + Len(t)
      /\ \A i \in 1 .. Len(s) : u[i] = s[i]
      /\ \A i \in 1 .. Len(t) : u[Len(s) + i] = t[i]
    OBVIOUS
<1> HIDE DEF u
<1>3. \A i \in DOMAIN u : \/ i \in 1 .. Len(s) /\ u[i] = s[i]
                          \/ i - Len(s) \in 1 .. Len(t) /\ u[i] = t[i - Len(s)]
    <2> TAKE i \in DOMAIN u
    <2>1. CASE i <= Len(s)
        BY <1>1, <1>2, <2>1
    <2>2. CASE i > Len(s)
        <3>1. i - Len(s) \in 1 .. Len(t) /\ Len(s) + (i - Len(s)) = i
            BY <1>1, <1>2, <2>2
        <3> QED BY <1>2, <3>1
    <2> QED BY <1>1, <1>2, <2>1, <2>2
<1>4. \A i \in 1 .. Len(s) : i \in DOMAIN u
    BY <1>1, <1>2
<1>5. \A i \in 1 .. Len(t) : Len(s) + i \in DOMAIN u
    BY <1>1, <1>2
<1>6. ToSet(u) = ToSet(s) \cup ToSet(t)
    <2>1. \A x \in ToSet(u) : x \in ToSet(s) \/ x \in ToSet(t)
        BY <1>1, <1>3 DEF ToSet
    <2>2. \A x \in ToSet(s) : x \in ToSet(u)
        BY <1>1, <1>2, <1>4 DEF ToSet
    <2>3. \A x \in ToSet(t) : x \in ToSet(u)
        BY <1>1, <1>2, <1>5 DEF ToSet
    <2> QED BY <2>1, <2>2, <2>3
<1>7. IsInjective(u)
    <2> SUFFICES ASSUME NEW i \in DOMAIN u, NEW j \in DOMAIN u, u[i] = u[j]
                 PROVE  i = j
        BY DEF IsInjective
    <2>0. i \in Int /\ j \in Int
        BY <1>2
    <2>1. CASE i \in 1 .. Len(s) /\ j \in 1 .. Len(s)
        BY <1>1, <1>2, <2>1 DEF IsInjective
    <2>2. CASE i - Len(s) \in 1 .. Len(t) /\ j - Len(s) \in 1 .. Len(t)
                 /\ u[i] = t[i - Len(s)] /\ u[j] = t[j - Len(s)]
        <3>1. i - Len(s) = j - Len(s)
            BY <1>1, <2>2 DEF IsInjective
        <3> QED BY <1>1, <2>0, <3>1
    <2>3. ASSUME NEW k \in 1 .. Len(s), NEW l \in 1 .. Len(t) PROVE s[k] # t[l]
        BY <1>1 DEF ToSet
    <2> QED BY <1>3, <2>1, <2>2, <2>3
<1> QED BY <1>2, <1>6, <1>7 DEF u

(* The front of a sequence is what its rest leaves out.                    *)
LEMMA TailLists ==
    ASSUME NEW S, NEW s \in Seq(S), IsInjective(s), s # <<>>
    PROVE  /\ Head(s) \in ToSet(s) /\ Head(s) \in S
           /\ Tail(s) \in Seq(S) /\ IsInjective(Tail(s))
           /\ ToSet(Tail(s)) = ToSet(s) \ {Head(s)}
<1>1. /\ Len(s) \in Nat \ {0} /\ DOMAIN s = 1 .. Len(s) /\ Head(s) = s[1]
      /\ Tail(s) \in Seq(S) /\ DOMAIN Tail(s) = 1 .. Len(s) - 1
    OBVIOUS
<1>2. \A i \in 1 .. Len(s) - 1 : Tail(s)[i] = s[i + 1] /\ i + 1 \in 1 .. Len(s) /\ i + 1 # 1
    BY <1>1
<1>3. \A i \in 1 .. Len(s) : i # 1 => i - 1 \in 1 .. Len(s) - 1 /\ s[i] = Tail(s)[i - 1]
    BY <1>1
<1>4. 1 \in DOMAIN s /\ Head(s) \in S
    BY <1>1
<1>5. Head(s) \in ToSet(s)
    BY <1>1, <1>4 DEF ToSet
<1>6. IsInjective(Tail(s))
    <2> SUFFICES ASSUME NEW i \in 1 .. Len(s) - 1, NEW j \in 1 .. Len(s) - 1,
                        Tail(s)[i] = Tail(s)[j]
                 PROVE  i = j
        BY <1>1 DEF IsInjective
    <2>1. i + 1 = j + 1
        BY <1>1, <1>2 DEF IsInjective
    <2> QED BY <1>1, <2>1
<1>7. ToSet(Tail(s)) = ToSet(s) \ {Head(s)}
    <2>1. \A i \in 1 .. Len(s) - 1 : Tail(s)[i] # Head(s)
        BY <1>1, <1>2, <1>4 DEF IsInjective
    <2>2. \A x \in ToSet(Tail(s)) : x \in ToSet(s) /\ x # Head(s)
        BY <1>1, <1>2, <2>1 DEF ToSet
    <2>3. ASSUME NEW x \in ToSet(s), x # Head(s) PROVE x \in ToSet(Tail(s))
        <3>1. PICK i \in 1 .. Len(s) : x = s[i]
            BY <1>1 DEF ToSet
        <3> QED BY <1>1, <1>3, <2>3, <3>1 DEF ToSet
    <2> QED BY <2>2, <2>3
<1> QED BY <1>1, <1>4, <1>5, <1>6, <1>7

LEMMA AppendLists ==
    ASSUME NEW S, NEW s \in Seq(S), NEW e \in S
    PROVE  /\ Append(s, e) \in Seq(S) /\ ToSet(Append(s, e)) = ToSet(s) \cup {e}
           /\ IsInjective(s) /\ e \notin ToSet(s) => IsInjective(Append(s, e))
<1> DEFINE u == Append(s, e)
<1>1. /\ Len(s) \in Nat /\ DOMAIN s = 1 .. Len(s)
      /\ u \in Seq(S) /\ DOMAIN u = 1 .. Len(s) + 1 /\ u[Len(s) + 1] = e
      /\ \A i \in 1 .. Len(s) : u[i] = s[i]
    OBVIOUS
<1> HIDE DEF u
<1>2. DOMAIN u = DOMAIN s \cup {Len(s) + 1} /\ Len(s) + 1 \notin DOMAIN s
    BY <1>1
<1>3. ToSet(u) = ToSet(s) \cup {e}
    BY <1>1, <1>2 DEF ToSet
<1>4. IsInjective(s) /\ e \notin ToSet(s) => IsInjective(u)
    BY <1>1, <1>2 DEF IsInjective, ToSet
<1> QED BY <1>1, <1>3, <1>4 DEF u

-----------------------------------------------------------------------------
(* The tables of the parser.                                               *)

(* A property of the root classes that subclasses and instances inherit is  *)
(* a property of every name: the tables are a forest under the roots.       *)
Grounded ==
    \A S \in SUBSET Declared :
        (\A m \in Declared : parent[m] \in Roots \cup S => m \in S) => S = Declared

(* A superclass is a root or on record as extended, and what is on record   *)
(* has been extended.                                                      *)
ExtendedExact ==
    /\ \A n \in Declared : parent[n] \in Roots \cup extended
    /\ \A c \in extended : \E n \in Declared : parent[n] = c

TablesSound == ExtendedExact /\ InheritanceStable /\ Grounded

(* What a declaration does to each table, whichever of the two kinds.      *)
LEMMA DeclareEffect ==
    ASSUME TypeOK, NEW n \in Name, NEW super \in Name, Declare(n, super)
    PROVE  /\ n \in TexName \ Declared /\ super \in Roots \cup classes /\ super # n
           /\ DOMAIN explines' = DOMAIN explines \cup {n}
           /\ explines'[n] = <<>> /\ \A m \in DOMAIN explines : explines'[m] = explines[m]
           /\ DOMAIN parent' = Declared \cup {n}
           /\ parent'[n] = super /\ \A m \in Declared : parent'[m] = parent[m]
           /\ DOMAIN atBirth' = Declared \cup {n}
           /\ atBirth'[n] = explines[super] /\ \A m \in Declared : atBirth'[m] = atBirth[m]
           /\ DOMAIN children' = DOMAIN children \cup {n}
           /\ children'[n] = <<>> /\ children'[super] = Append(children[super], n)
           /\ \A m \in DOMAIN children : m # super => children'[m] = children[m]
<1>1. /\ n \in TexName \ Declared /\ n \notin Roots
      /\ super \in Roots \cup classes /\ super \in Roots \cup Declared /\ super # n
    BY DEF Declare, Name, Declared
<1>2. /\ DOMAIN explines = Roots \cup Declared /\ DOMAIN children = Roots \cup Declared
      /\ DOMAIN parent = Declared /\ DOMAIN atBirth = Declared
    BY DEF TypeOK
<1>3. explines' = Put(explines, n, <<>>)
    BY DEF Declare
<1>4. parent' = Put(parent, n, super)
    BY DEF Declare
<1>5. children' = Put([children EXCEPT ![super] = Append(@, n)], n, <<>>)
    BY DEF Declare
<1>6. atBirth' = Put(atBirth, n, explines[super])
    BY DEF Declare
<1>7. /\ DOMAIN explines' = DOMAIN explines \cup {n}
      /\ explines'[n] = <<>> /\ \A m \in DOMAIN explines : explines'[m] = explines[m]
    BY <1>1, <1>2, <1>3 DEF Put
<1>8. /\ DOMAIN parent' = Declared \cup {n}
      /\ parent'[n] = super /\ \A m \in Declared : parent'[m] = parent[m]
    BY <1>1, <1>2, <1>4 DEF Put
<1>9. /\ DOMAIN atBirth' = Declared \cup {n}
      /\ atBirth'[n] = explines[super] /\ \A m \in Declared : atBirth'[m] = atBirth[m]
    BY <1>1, <1>2, <1>6 DEF Put
<1>10. /\ DOMAIN children' = DOMAIN children \cup {n}
       /\ children'[n] = <<>> /\ children'[super] = Append(children[super], n)
       /\ \A m \in DOMAIN children : m # super => children'[m] = children[m]
    BY <1>1, <1>2, <1>5 DEF Put
<1> QED BY <1>1, <1>7, <1>8, <1>9, <1>10

ChildrenTyped ==
    \A n \in DOMAIN children : children[n] \in Seq(Declared) /\ IsInjective(children[n])

LEMMA DeclareKeepsTables ==
    ASSUME TypeOK, ChildrenTyped, NEW n \in Name, NEW super \in Name, Declare(n, super),
           Declared' = Declared \cup {n}
    PROVE  /\ DOMAIN explines' = (Roots \cup Declared)'
           /\ \A m \in DOMAIN explines' : explines'[m] \in Seq(Line)
           /\ DOMAIN parent' = Declared'
           /\ \A m \in Declared' : parent'[m] \in Roots \cup classes
           /\ DOMAIN children' = (Roots \cup Declared)'
           /\ \A m \in DOMAIN children' :
                /\ ToSet(children'[m]) = {k \in Declared' : parent'[k] = m}
                /\ IsInjective(children'[m]) /\ children'[m] \in Seq(Declared')
           /\ DOMAIN atBirth' = Declared'
<1> DEFINE D == Declared \cup {n}
<1>1. /\ n \in TexName \ Declared /\ n \notin Roots
      /\ super \in Roots \cup classes /\ super \in Roots \cup Declared /\ super # n
    BY DeclareEffect DEF Declare, Declared
<1>2. /\ DOMAIN explines = Roots \cup Declared /\ DOMAIN children = Roots \cup Declared
      /\ DOMAIN parent = Declared /\ Roots' = Roots
      /\ \A m \in Declared : parent[m] \in Roots \cup classes /\ m \in Roots \cup Declared
    BY DEF TypeOK, Roots
<1>a. /\ DOMAIN explines' = DOMAIN explines \cup {n}
      /\ explines'[n] = <<>> /\ \A m \in DOMAIN explines : explines'[m] = explines[m]
    BY DeclareEffect
<1>b. /\ DOMAIN parent' = D
      /\ parent'[n] = super /\ \A m \in Declared : parent'[m] = parent[m]
    BY DeclareEffect
<1>c. /\ DOMAIN children' = DOMAIN children \cup {n}
      /\ children'[n] = <<>> /\ children'[super] = Append(children[super], n)
      /\ \A m \in DOMAIN children : m # super => children'[m] = children[m]
    BY DeclareEffect
<1>3. /\ DOMAIN explines' = (Roots \cup Declared)'
      /\ \A m \in DOMAIN explines' : explines'[m] \in Seq(Line)
    <2>1. \A m \in DOMAIN explines : explines[m] \in Seq(Line)
        BY DEF TypeOK
    <2>2. <<>> \in Seq(Line)
        OBVIOUS
    <2> QED BY <1>2, <1>a, <2>1, <2>2
<1>4. DOMAIN parent' = D /\ \A m \in D : parent'[m] \in Roots \cup classes
    BY <1>1, <1>2, <1>b
<1>5. DOMAIN children' = Roots \cup D /\ DOMAIN atBirth' = D
    BY <1>2, <1>c, DeclareEffect
<1>6. ASSUME NEW m \in Roots \cup D
      PROVE  /\ ToSet(children'[m]) = {k \in D : parent'[k] = m}
             /\ IsInjective(children'[m]) /\ children'[m] \in Seq(D)
    <2>1. /\ parent'[n] = super
          /\ \A k \in Declared : parent'[k] = parent[k]
        BY <1>b
    <2>2. CASE m = n
        <3>1. children'[m] = <<>>
            BY <1>c, <2>2
        <3>2. \A k \in D : parent'[k] # n
            BY <1>1, <1>2, <2>1 DEF TypeOK, Declared
        <3> QED BY <2>2, <3>1, <3>2 DEF ToSet, IsInjective
    <2>3. CASE m # n
        <3>1. /\ m \in DOMAIN children /\ children[m] \in Seq(D) /\ IsInjective(children[m])
              /\ ToSet(children[m]) = {k \in Declared : parent[k] = m}
            BY <1>2, <2>3 DEF TypeOK, ChildrenTyped
        <3>2. CASE m = super
            <4>1. children'[m] = Append(children[m], n)
                BY <1>c, <3>2
            <4>2. n \notin ToSet(children[m])
                BY <1>1, <3>1
            <4>3. /\ children'[m] \in Seq(D) /\ ToSet(children'[m]) = ToSet(children[m]) \cup {n}
                  /\ IsInjective(children'[m])
                BY <3>1, <4>1, <4>2, AppendLists
            <4> QED BY <2>1, <3>1, <3>2, <4>3
        <3>3. CASE m # super
            <4>1. children'[m] = children[m]
                BY <1>c, <3>1, <3>3
            <4> QED BY <2>1, <3>1, <3>3, <4>1
        <3> QED BY <3>2, <3>3
    <2> QED BY <2>2, <2>3
<1> QED BY <1>2, <1>3, <1>4, <1>5, <1>6, <1>b

Typed == TypeOK /\ ChildrenTyped

LEMMA TypedInit == Init => Typed
<1> SUFFICES ASSUME Init PROVE Typed
    OBVIOUS
<1>1. /\ Declared = {} /\ DOMAIN parent = {} /\ DOMAIN atBirth = {} /\ DOMAIN data = {}
      /\ toVisit \in Seq(Declared) /\ generated \in Seq(Declared)
    BY DEF Init, Declared
<1>2. /\ DOMAIN explines = Roots /\ DOMAIN children = Roots
      /\ \A r \in Roots : explines[r] = <<>> /\ children[r] = <<>>
    BY DEF Init
<1>3. \A r \in Roots : /\ ToSet(children[r]) = {} /\ IsInjective(children[r])
                       /\ children[r] \in Seq(Declared) /\ explines[r] \in Seq(Line)
    <2>1. ToSet(<<>>) = {} /\ IsInjective(<<>>)
        BY DEF ToSet, IsInjective
    <2>2. <<>> \in Seq(Declared) /\ <<>> \in Seq(Line)
        OBVIOUS
    <2> QED BY <1>2, <2>1, <2>2
<1>4. /\ phase = "parse" /\ commands \in 0 .. MaxCommands /\ roots \in Seq(Roots)
      /\ classes = {} /\ instances = {} /\ extended = {} /\ included = {}
    BY NamesAssumption DEF Init
<1> QED BY <1>1, <1>2, <1>3, <1>4 DEF Typed, TypeOK, ChildrenTyped

LEMMA TypedNext == Typed /\ [Next]_vars => Typed'
<1> SUFFICES ASSUME TypeOK, ChildrenTyped, [Next]_vars PROVE TypeOK' /\ ChildrenTyped'
    BY DEF Typed
<1>0. /\ Roots' = Roots /\ Name' = Name /\ MaxCommands \in Nat
    BY NamesAssumption DEF Roots, Name
<1>1. ASSUME NEW n \in Name, NEW line \in Line, Expline(n, line) PROVE TypeOK' /\ ChildrenTyped'
    <2>1. /\ DOMAIN explines' = DOMAIN explines
          /\ \A m \in DOMAIN explines : explines'[m] = explines[m]
                                        \/ explines'[m] = Append(explines[m], line)
        BY <1>1 DEF Expline
    <2>2. \A m \in DOMAIN explines : explines'[m] \in Seq(Line)
        <3>1. \A m \in DOMAIN explines : explines[m] \in Seq(Line)
            BY DEF TypeOK
        <3>2. \A e \in Seq(Line) : Append(e, line) \in Seq(Line)
            OBVIOUS
        <3> QED BY <2>1, <3>1, <3>2
    <2>3. commands' \in 0 .. MaxCommands
        BY <1>0, <1>1 DEF Expline, Command, TypeOK
    <2>4. /\ UNCHANGED <<phase, classes, instances, extended, parent, children, included, atBirth>>
          /\ UNCHANGED <<roots, toVisit, data, generated>>
        BY <1>1 DEF Expline, walk
    <2>5. Declared' = Declared
        BY <2>4 DEF Declared
    <2> QED BY <1>0, <2>1, <2>2, <2>3, <2>4, <2>5 DEF TypeOK, ChildrenTyped
<1>2. ASSUME NEW n \in Name, NEW super \in Name, Declare(n, super),
             \/ classes' = classes \cup {n} /\ instances' = instances
             \/ instances' = instances \cup {n} /\ classes' = classes
      PROVE  TypeOK' /\ ChildrenTyped'
    <2>1. Declared' = Declared \cup {n} /\ n \in TexName \ Declared
        BY <1>2, DeclareEffect DEF Declared
    <2>2. /\ classes' \subseteq TexName /\ instances' \subseteq TexName
          /\ classes' \cap instances' = {} /\ classes \subseteq classes'
        BY <1>2, <2>1 DEF TypeOK, Declared
    <2>3. extended' \subseteq classes'
        BY <1>2, <2>2 DEF Declare, ExtendedBy, TypeOK
    <2>4. commands' \in 0 .. MaxCommands
        BY <1>0, <1>2 DEF Declare, Command, TypeOK
    <2>5. UNCHANGED <<phase, included, roots, toVisit, data, generated>>
        BY <1>2 DEF Declare, walk
    <2>6. /\ toVisit' \in Seq(Declared') /\ generated' \in Seq(Declared')
          /\ DOMAIN data' \subseteq Roots \cup Declared'
        BY <2>1, <2>5 DEF TypeOK
    <2>7. /\ DOMAIN explines' = (Roots \cup Declared)'
          /\ \A m \in DOMAIN explines' : explines'[m] \in Seq(Line)
          /\ DOMAIN parent' = Declared'
          /\ \A m \in Declared' : parent'[m] \in Roots \cup classes
          /\ DOMAIN children' = (Roots \cup Declared)'
          /\ \A m \in DOMAIN children' :
               /\ ToSet(children'[m]) = {k \in Declared' : parent'[k] = m}
               /\ IsInjective(children'[m]) /\ children'[m] \in Seq(Declared')
          /\ DOMAIN atBirth' = Declared'
        BY <1>2, <2>1, DeclareKeepsTables
    <2> QED BY <1>0, <2>2, <2>3, <2>4, <2>5, <2>6, <2>7 DEF TypeOK, ChildrenTyped
<1>3. ASSUME NEW n \in Name, ExpInclude(n) PROVE TypeOK' /\ ChildrenTyped'
    <2>1. /\ included' \subseteq Name /\ commands' \in 0 .. MaxCommands
          /\ UNCHANGED <<phase, classes, instances, extended, explines, parent, children, atBirth>>
          /\ UNCHANGED <<roots, toVisit, data, generated>>
        BY <1>0, <1>3 DEF ExpInclude, Command, TypeOK, walk
    <2>2. Declared' = Declared
        BY <2>1 DEF Declared
    <2> QED BY <1>0, <2>1, <2>2 DEF TypeOK, ChildrenTyped
<1>4. ASSUME UNCHANGED tables, phase' \in {"parse", "interpret", "done", "rejected"},
             commands' \in 0 .. MaxCommands, roots' \in Seq(Roots), toVisit' \in Seq(Declared),
             DOMAIN data' \subseteq Roots \cup Declared, generated' \in Seq(Declared)
      PROVE  TypeOK' /\ ChildrenTyped'
    <2>1. /\ UNCHANGED <<classes, instances, extended, explines, parent, children>>
          /\ UNCHANGED <<included, atBirth>>
        BY <1>4 DEF tables
    <2>2. Declared' = Declared
        BY <2>1 DEF Declared
    <2> QED BY <1>0, <1>4, <2>1, <2>2 DEF TypeOK, ChildrenTyped
<1>5. CASE Rejected
    BY <1>0, <1>4, <1>5 DEF Rejected, Command, TypeOK, walk
<1>6. CASE EndOfDocument
    BY <1>4, <1>6, NamesAssumption DEF EndOfDocument, TypeOK
<1>7. CASE StartRoot
    <2>1. Head(roots) \in Roots /\ Head(roots) \in DOMAIN children
        BY <1>7 DEF StartRoot, TypeOK
    <2>2. DOMAIN data' = {Head(roots)} /\ toVisit' \in Seq(Declared)
        BY <1>7, <2>1 DEF StartRoot, ChildrenTyped
    <2> QED BY <1>4, <1>7, <2>1, <2>2 DEF StartRoot, TypeOK
<1>8. CASE Visit
    <2> DEFINE n == Head(toVisit)
    <2>1. /\ toVisit # <<>> /\ n \in Declared /\ Tail(toVisit) \in Seq(Declared)
        BY <1>8 DEF Visit, TypeOK
    <2>2. n \in DOMAIN children
        BY <2>1 DEF TypeOK
    <2>3. Reverse(children[n]) \in Seq(Declared)
        BY <2>2, ReverseLists DEF ChildrenTyped
    <2>4. toVisit' \in Seq(Declared)
        BY <1>8, <2>1, <2>3 DEF Visit
    <2>5. generated' \in Seq(Declared)
        BY <1>8, <2>1 DEF Visit, TypeOK
    <2>6. DOMAIN data' \subseteq Roots \cup Declared
        BY <1>8, <2>1 DEF Visit, Inherit, Put, TypeOK
    <2> QED BY <1>4, <1>8, <2>4, <2>5, <2>6 DEF Visit, TypeOK
<1>9. CASE RootDone
    <2>1. Tail(roots) \in Seq(Roots)
        BY <1>9 DEF RootDone, TypeOK
    <2> QED BY <1>4, <1>9, <2>1 DEF RootDone, TypeOK
<1>10. CASE UNCHANGED vars
    BY <1>4, <1>10 DEF vars, walk, TypeOK
<1> QED BY <1>1, <1>2, <1>3, <1>5, <1>6, <1>7, <1>8, <1>9, <1>10
        DEF Next, ExpClass, ExpInstance

(* Every table of the parser and of the interpreter keeps its type; the     *)
(* lists of children mirror the parents (parser.py, interpret.py).          *)
THEOREM TypeCorrect == Spec => []TypeOK
<1>1. Spec => []Typed
    BY TypedInit, TypedNext, PTL DEF Spec
<1>2. Typed => TypeOK
    BY DEF Typed
<1> QED BY <1>1, <1>2, PTL

-----------------------------------------------------------------------------
(* The parser keeps its tables sound.                                      *)

LEMMA DeclareKeepsSound ==
    ASSUME Typed, TablesSound, NEW n \in Name, NEW super \in Name, Declare(n, super),
           Declared' = Declared \cup {n}, Roots' = Roots
    PROVE  TablesSound'
<1>1. /\ n \notin Declared /\ n \notin Roots /\ super # n
      /\ super \in Roots \cup Declared
      /\ extended' = extended \cup ({super} \ Roots)
      /\ DOMAIN explines = Roots \cup Declared
      /\ \A m \in Declared : parent[m] \in Roots \cup Declared
    <2>1. n \in TexName \ Declared /\ super \in Roots \cup classes /\ super # n
        BY DEF Declare, Name, Declared, Typed, TypeOK
    <2>2. extended' = extended \cup ({super} \ Roots)
        BY DEF Declare, ExtendedBy
    <2> QED BY <2>1, <2>2, NamesAssumption DEF Typed, TypeOK, Declared
<1>2. /\ explines'[n] = <<>> /\ \A m \in DOMAIN explines : explines'[m] = explines[m]
      /\ parent'[n] = super /\ \A m \in Declared : parent'[m] = parent[m]
      /\ atBirth'[n] = explines[super] /\ \A m \in Declared : atBirth'[m] = atBirth[m]
    BY DeclareEffect DEF Typed
<1>3. ExtendedExact'
    BY <1>1, <1>2 DEF TablesSound, ExtendedExact
<1>4. InheritanceStable'
    BY <1>1, <1>2 DEF TablesSound, InheritanceStable
<1>5. Grounded'
    <2> SUFFICES ASSUME NEW S \in SUBSET (Declared \cup {n}),
                        \A m \in Declared \cup {n} : parent'[m] \in Roots \cup S => m \in S
                 PROVE  S = Declared \cup {n}
        BY DEF Grounded
    <2> DEFINE T == S \ {n}
    <2>1. \A m \in Declared : parent[m] \in Roots \cup T => m \in T
        BY <1>1, <1>2
    <2>2. T \in SUBSET Declared
        OBVIOUS
    <2>3. T = Declared
        BY <2>1, <2>2 DEF TablesSound, Grounded
    <2> QED BY <1>1, <1>2, <2>3
<1> QED BY <1>3, <1>4, <1>5 DEF TablesSound

LEMMA SoundNext == Typed /\ TablesSound /\ [Next]_vars => TablesSound'
<1> SUFFICES ASSUME Typed, TablesSound, [Next]_vars PROVE TablesSound'
    OBVIOUS
<1>0. Roots' = Roots
    BY DEF Roots
<1>1. ASSUME NEW n \in Name, NEW line \in Line, Expline(n, line) PROVE TablesSound'
    <2>1. /\ n \in Declared \ extended /\ n \in TexName
          /\ UNCHANGED <<classes, instances, extended, parent, atBirth>>
        BY <1>1 DEF Expline, MayExplain, Typed, TypeOK, Declared
    <2>2. Declared' = Declared
        BY <2>1 DEF Declared
    <2>3. \A m \in DOMAIN explines : m # n => explines'[m] = explines[m]
        BY <1>1 DEF Expline
    <2>4. \A m \in Declared : parent[m] # n /\ parent[m] \in DOMAIN explines
        BY <2>1, NamesAssumption DEF TablesSound, ExtendedExact, Typed, TypeOK, Declared
    <2>5. InheritanceStable'
        BY <2>1, <2>2, <2>3, <2>4 DEF TablesSound, InheritanceStable
    <2> QED BY <1>0, <2>1, <2>2, <2>5 DEF TablesSound, ExtendedExact, Grounded
<1>2. ASSUME NEW n \in Name, NEW super \in Name, ExpClass(n, super) \/ ExpInstance(n, super)
      PROVE  TablesSound'
    <2>1. Declare(n, super) /\ Declared' = Declared \cup {n}
        BY <1>2 DEF ExpClass, ExpInstance, Declared
    <2> QED BY <1>0, <2>1, DeclareKeepsSound
<1>3. ASSUME UNCHANGED <<classes, instances, extended, explines, parent, atBirth>>
      PROVE  TablesSound'
    <2>1. Declared' = Declared
        BY <1>3 DEF Declared
    <2> QED BY <1>0, <1>3, <2>1 DEF TablesSound, ExtendedExact, InheritanceStable, Grounded
<1>4. ASSUME NEW n \in Name, ExpInclude(n) PROVE TablesSound'
    BY <1>3, <1>4 DEF ExpInclude
<1>5. CASE Rejected \/ EndOfDocument \/ StartRoot \/ Visit \/ RootDone \/ UNCHANGED vars
    <2>1. UNCHANGED tables
        BY <1>5 DEF Rejected, EndOfDocument, StartRoot, Visit, RootDone, vars
    <2> QED BY <1>3, <2>1 DEF tables
<1> QED BY <1>1, <1>2, <1>4, <1>5 DEF Next

LEMMA SoundInit == Init => TablesSound
<1> SUFFICES ASSUME Init PROVE TablesSound
    OBVIOUS
<1>1. Declared = {} /\ extended = {}
    BY DEF Init, Declared
<1> QED BY <1>1 DEF TablesSound, ExtendedExact, InheritanceStable, Grounded

(* The document can be read top to bottom: no command changes what a name   *)
(* declared before it inherits (parser.py 484-491).                         *)
THEOREM InheritanceSettled == Spec => []InheritanceStable
<1>1. Typed /\ TablesSound => InheritanceStable
    BY DEF TablesSound
<1>2. Spec => [](Typed /\ TablesSound)
    BY TypedInit, TypedNext, SoundInit, SoundNext, PTL DEF Spec
<1> QED BY <1>1, <1>2, PTL

-----------------------------------------------------------------------------
(* The walk of the interpreter.                                            *)

\* The names of the root class that is being walked that have been visited.
Current == IF roots # <<>> /\ Head(roots) \in DOMAIN data THEN DOMAIN data ELSE {}

\* S are the names under the root classes that are done.
Walked(S) ==
    /\ S \subseteq Declared /\ S \cap Current = {}
    /\ \A m \in Declared : m \in S <=> parent[m] \in S \cup (Roots \ ToSet(roots))
    /\ \A n \in Current : IF n \in Roots THEN n = Head(roots) ELSE parent[n] \in Current
    /\ \A m \in Declared : parent[m] \in Current => m \in Current \cup ToSet(toVisit)
    /\ \A n \in ToSet(toVisit) : n \in Declared \ Current /\ parent[n] \in Current
    /\ IsInjective(roots) /\ IsInjective(toVisit) /\ IsInjective(generated)
    /\ ToSet(generated) = instances \cap (S \cup Current)

WalkSound ==
    /\ phase \in {"parse", "rejected"} => data = <<>> /\ toVisit = <<>> /\ generated = <<>>
    /\ phase \in {"interpret", "done"} => classes = extended /\ \E S : Walked(S)
    /\ phase = "done" => roots = <<>>
    /\ DataIsInherited

Sound == Typed /\ TablesSound /\ WalkSound

LEMMA NothingListed == ToSet(<<>>) = {} /\ IsInjective(<<>>) /\ DOMAIN <<>> = {}
BY DEF ToSet, IsInjective

LEMMA ListedUnlessEmpty ==
    ASSUME NEW S, NEW s \in Seq(S)
    PROVE  ToSet(s) = {} <=> s = <<>>
<1>1. ASSUME s # <<>> PROVE s[1] \in ToSet(s)
    <2>1. 1 \in DOMAIN s
        BY <1>1
    <2> QED BY <2>1 DEF ToSet
<1> QED BY <1>1, NothingListed

LEMMA NamesApart ==
    ASSUME Typed
    PROVE  /\ Declared \cap Roots = {} /\ classes \cap instances = {}
           /\ DOMAIN children = Roots \cup Declared /\ DOMAIN data \subseteq Roots \cup Declared
           /\ Declared = classes \cup instances
           /\ \A n \in Declared : parent[n] \in Roots \cup classes
           /\ \A n \in Roots \cup Declared :
                /\ children[n] \in Seq(Declared) /\ IsInjective(children[n])
                /\ ToSet(children[n]) = {m \in Declared : parent[m] = n}
BY NamesAssumption DEF Typed, TypeOK, ChildrenTyped, Declared

LEMMA VisitWalked ==
    ASSUME Typed, ExtendedExact, classes = extended, NEW S, Walked(S), Visit
    PROVE  Walked(S)'
<1> DEFINE n == Head(toVisit)
<1>1. /\ n \in ToSet(toVisit) /\ toVisit # <<>> /\ Tail(toVisit) \in Seq(Declared)
      /\ IsInjective(Tail(toVisit)) /\ ToSet(Tail(toVisit)) = ToSet(toVisit) \ {n}
    BY TailLists DEF Visit, Walked, Typed, TypeOK
<1>2. n \in Declared \ Current /\ parent[n] \in Current /\ n \notin Roots
    BY <1>1, NamesApart DEF Walked
<1>3. Current = DOMAIN data /\ roots # <<>> /\ Head(roots) \in DOMAIN data
    BY <1>2 DEF Current
<1>4. UNCHANGED <<roots, classes, instances, parent, children>> /\ Roots' = Roots
    BY DEF Visit, tables, Roots
<1>5. Declared' = Declared
    BY <1>4 DEF Declared
<1>6. DOMAIN data' = DOMAIN data \cup {n}
    BY DEF Visit, Inherit, Put
<1>7. Current' = Current \cup {n}
    BY <1>3, <1>4, <1>6 DEF Current
<1>8. /\ children[n] \in Seq(Declared) /\ IsInjective(children[n])
      /\ ToSet(children[n]) = {m \in Declared : parent[m] = n}
    BY <1>2, NamesApart
<1>9. \A x \in ToSet(children[n]) : x \notin Current /\ x # n /\ x \notin ToSet(Tail(toVisit))
    BY <1>1, <1>2, <1>8, NamesApart DEF Walked
<1>10. /\ toVisit' \in Seq(Declared) /\ IsInjective(toVisit')
       /\ ToSet(toVisit') = ToSet(children[n]) \cup (ToSet(toVisit) \ {n})
    <2>1. /\ Reverse(children[n]) \in Seq(Declared) /\ IsInjective(Reverse(children[n]))
          /\ ToSet(Reverse(children[n])) = ToSet(children[n])
        BY <1>8, ReverseLists
    <2>2. toVisit' = Reverse(children[n]) \o Tail(toVisit)
        BY DEF Visit
    <2> DEFINE front == Reverse(children[n])
               rest == Tail(toVisit)
    <2>3. \A x \in ToSet(front) : x \notin ToSet(rest)
        BY <1>9, <2>1
    <2>4. /\ front \in Seq(Declared) /\ IsInjective(front)
          /\ rest \in Seq(Declared) /\ IsInjective(rest)
        BY <1>1, <2>1
    <2> HIDE DEF front, rest
    <2>5. /\ front \o rest \in Seq(Declared) /\ IsInjective(front \o rest)
          /\ ToSet(front \o rest) = ToSet(front) \cup ToSet(rest)
        BY <2>3, <2>4, ConcatLists
    <2> QED BY <1>1, <2>1, <2>2, <2>5 DEF front, rest
<1>11. n \notin S
    <2>1. ASSUME n \in S PROVE FALSE
        <3>1. parent[n] \in S \cup (Roots \ ToSet(roots))
            BY <1>2, <2>1 DEF Walked
        <3>2. parent[n] \in Roots => parent[n] = Head(roots)
            BY <1>2 DEF Walked
        <3>3. Head(roots) \in ToSet(roots)
            BY <1>3, TailLists DEF Walked, Typed, TypeOK
        <3> QED BY <1>2, <3>1, <3>2, <3>3 DEF Walked
    <2> QED BY <2>1
<1>12. children[n] = <<>> <=> n \in instances
    <2>1. n \in instances => ToSet(children[n]) = {}
        BY <1>8, NamesApart
    <2>2. n \notin instances => n \in extended
        BY <1>2, NamesApart
    <2>3. n \notin instances => ToSet(children[n]) # {}
        BY <1>8, <2>2 DEF ExtendedExact
    <2> QED BY <1>8, <2>1, <2>3, ListedUnlessEmpty
<1>13. IsInjective(generated') /\ ToSet(generated') = instances \cap (S \cup Current')
    <2>1. /\ generated \in Seq(Declared) /\ n \in Declared /\ IsInjective(generated)
          /\ ToSet(generated) = instances \cap (S \cup Current)
        BY <1>2 DEF Walked, Typed, TypeOK
    <2>2. CASE n \in instances
        <3>1. generated' = Append(generated, n) /\ n \notin ToSet(generated)
            BY <1>2, <1>11, <1>12, <2>1, <2>2 DEF Visit
        <3>2. IsInjective(generated') /\ ToSet(generated') = ToSet(generated) \cup {n}
            BY <2>1, <3>1, AppendLists
        <3> QED BY <1>7, <2>1, <2>2, <3>2
    <2>3. CASE n \notin instances
        <3>1. generated' = generated
            BY <1>12, <2>3 DEF Visit
        <3> QED BY <1>7, <2>1, <2>3, <3>1
    <2> QED BY <2>2, <2>3
<1>14. \A m \in Declared : m \in S <=> parent[m] \in S \cup (Roots \ ToSet(roots))
    BY DEF Walked
<1>15. \A x \in Current' : IF x \in Roots THEN x = Head(roots) ELSE parent[x] \in Current'
    BY <1>2, <1>7 DEF Walked
<1>16. \A m \in Declared : parent[m] \in Current' => m \in Current' \cup ToSet(toVisit')
    BY <1>7, <1>8, <1>10 DEF Walked
<1>17. \A x \in ToSet(toVisit') : x \in Declared \ Current' /\ parent[x] \in Current'
    BY <1>7, <1>8, <1>9, <1>10 DEF Walked
<1>18. S \subseteq Declared /\ S \cap Current' = {} /\ IsInjective(roots)
    BY <1>7, <1>11 DEF Walked
<1> QED BY <1>4, <1>5, <1>10, <1>13, <1>14, <1>15, <1>16, <1>17, <1>18 DEF Walked

LEMMA StartRootWalked ==
    ASSUME Typed, NEW S, Walked(S), StartRoot
    PROVE  Walked(S)'
<1> DEFINE r == Head(roots)
<1>1. /\ UNCHANGED <<roots, classes, instances, parent, generated>> /\ Roots' = Roots
      /\ roots # <<>> /\ r \notin DOMAIN data /\ DOMAIN data' = {r} /\ toVisit' = children[r]
    BY DEF StartRoot, tables, Roots
<1>2. Declared' = Declared
    BY <1>1 DEF Declared
<1>3. Current = {} /\ Current' = {r}
    BY <1>1 DEF Current
<1>4. r \in Roots /\ r \in ToSet(roots)
    BY <1>1, TailLists DEF Walked, Typed, TypeOK
<1>5. /\ IsInjective(children[r]) /\ ToSet(children[r]) = {m \in Declared : parent[m] = r}
      /\ r \notin Declared
    BY <1>4, NamesApart
<1>6. instances \subseteq Declared
    BY DEF Declared
<1>7. /\ S \subseteq Declared /\ S \cap Current' = {}
      /\ IsInjective(roots) /\ IsInjective(generated)
      /\ \A m \in Declared : m \in S <=> parent[m] \in S \cup (Roots \ ToSet(roots))
    BY <1>3, <1>5 DEF Walked
<1>8. ToSet(generated) = instances \cap (S \cup Current')
    BY <1>3, <1>5, <1>6 DEF Walked
<1> QED BY <1>1, <1>2, <1>3, <1>4, <1>5, <1>7, <1>8 DEF Walked

\* The root class that is done takes the names walked under it along.
LEMMA RootDoneWalked ==
    ASSUME Typed, NEW S, Walked(S), RootDone, NEW T, T = S \cup (Current \ Roots)
    PROVE  Walked(T)'
<1> DEFINE r == Head(roots)
<1>1. /\ UNCHANGED <<toVisit, data, classes, instances, parent, generated>> /\ Roots' = Roots
      /\ roots # <<>> /\ toVisit = <<>> /\ r \in DOMAIN data /\ roots' = Tail(roots)
    BY DEF RootDone, tables, Roots
<1>2. Declared' = Declared
    BY <1>1 DEF Declared
<1>3. Current = DOMAIN data
    BY <1>1 DEF Current
<1>4. /\ r \in Roots /\ r \in ToSet(roots) /\ roots' \in Seq(Roots) /\ IsInjective(roots')
      /\ ToSet(roots') = ToSet(roots) \ {r} /\ ToSet(roots) \subseteq Roots
    <2>1. ToSet(roots) \subseteq Roots
        BY DEF ToSet, Typed, TypeOK
    <2> QED BY <1>1, <2>1, TailLists DEF Walked, Typed, TypeOK
<1>5. Current' = {}
    <2>1. ASSUME roots' # <<>> PROVE Head(roots') \notin DOMAIN data
        <3>1. Head(roots') \in ToSet(roots')
            BY <1>4, <2>1, TailLists
        <3>2. Head(roots') \in Roots /\ Head(roots') # r
            BY <1>4, <3>1
        <3> QED BY <1>3, <3>2 DEF Walked
    <2> QED BY <1>1, <2>1 DEF Current
<1>6. /\ Current \subseteq Roots \cup Declared /\ Declared \cap Roots = {}
      /\ instances \subseteq Declared
    BY <1>3, NamesApart
<1>7. T \subseteq Declared
    BY <1>6 DEF Walked
<1>8. ToSet(toVisit) = {}
    BY <1>1, NothingListed
<1>9. ASSUME NEW m \in Declared
      PROVE  m \in T <=> parent[m] \in T \cup (Roots \ ToSet(roots'))
    <2>1. Roots \ ToSet(roots') = (Roots \ ToSet(roots)) \cup {r}
        BY <1>4
    <2>2. m \in S <=> parent[m] \in S \cup (Roots \ ToSet(roots))
        BY DEF Walked
    <2>3. m \in Current <=> parent[m] \in Current
        BY <1>6, <1>8 DEF Walked
    <2>4. m \notin Roots
        BY <1>6
    <2>5. \A x \in Current : x \in Roots <=> x = r
        BY <1>4 DEF Walked
    <2>6. r \in Current
        BY <1>1, <1>3
    <2> QED BY <2>1, <2>2, <2>3, <2>4, <2>5, <2>6
<1>10. ToSet(generated) = instances \cap (T \cup Current')
    BY <1>5, <1>6 DEF Walked
<1>11. IsInjective(toVisit) /\ IsInjective(generated)
    BY DEF Walked
<1> QED BY <1>1, <1>2, <1>4, <1>5, <1>7, <1>8, <1>9, <1>10, <1>11 DEF Walked

LEMMA EndOfDocumentWalked ==
    ASSUME Typed, WalkSound, EndOfDocument, phase' = "interpret"
    PROVE  Walked({})'
<1>1. /\ UNCHANGED <<toVisit, data, classes, instances, parent, generated>>
      /\ phase = "parse" /\ roots' = Root /\ Roots' = Roots
    BY DEF EndOfDocument, tables, Roots
<1>2. Declared' = Declared
    BY <1>1 DEF Declared
<1>3. data' = <<>> /\ toVisit' = <<>> /\ generated' = <<>>
    BY <1>1 DEF WalkSound
<1>4. Current' = {}
    BY <1>3, NothingListed DEF Current
<1>5. IsInjective(roots') /\ Roots \ ToSet(roots') = {}
    BY <1>1, NamesAssumption DEF Roots, ToSet
<1> QED BY <1>1, <1>2, <1>3, <1>4, <1>5, NothingListed DEF Walked

LEMMA VisitInherits ==
    ASSUME Typed, DataIsInherited, NEW S, Walked(S), Visit
    PROVE  DataIsInherited'
<1> DEFINE n == Head(toVisit)
<1>1. n \in ToSet(toVisit)
    BY TailLists DEF Visit, Walked, Typed, TypeOK
<1>2. n \in Declared \ Current /\ parent[n] \in Current /\ n \notin Roots
    BY <1>1, NamesApart DEF Walked
<1>3. Current = DOMAIN data
    BY <1>2 DEF Current
<1>4. UNCHANGED <<parent, explines>> /\ Roots' = Roots
    BY DEF Visit, tables, Roots
<1>5. /\ DOMAIN data' = DOMAIN data \cup {n}
      /\ data'[n] = data[parent[n]] \o explines[n]
      /\ \A m \in DOMAIN data : data'[m] = data[m]
    BY <1>2, <1>3 DEF Visit, Inherit, Put
<1> QED BY <1>2, <1>3, <1>4, <1>5 DEF DataIsInherited

LEMMA WalkNext == Sound /\ [Next]_vars => WalkSound'
<1> SUFFICES ASSUME Typed, TablesSound, WalkSound, [Next]_vars PROVE WalkSound'
    BY DEF Sound
<1>0. Roots' = Roots
    BY DEF Roots
<1>1. ASSUME phase = "parse", phase' \in {"parse", "rejected"}, UNCHANGED <<toVisit, data, generated>>
      PROVE  WalkSound'
    <2>1. data' = <<>> /\ toVisit' = <<>> /\ generated' = <<>>
        BY <1>1 DEF WalkSound
    <2>2. DataIsInherited'
        BY <2>1, NothingListed DEF DataIsInherited
    <2> QED BY <1>1, <2>1, <2>2 DEF WalkSound
<1>2. ASSUME NEW n \in Name, NEW line \in Line, Expline(n, line) PROVE WalkSound'
    BY <1>1, <1>2 DEF Expline, Command, walk
<1>3. ASSUME NEW n \in Name, NEW super \in Name, ExpClass(n, super) \/ ExpInstance(n, super)
      PROVE  WalkSound'
    BY <1>1, <1>3 DEF ExpClass, ExpInstance, Declare, Command, walk
<1>4. ASSUME NEW n \in Name, ExpInclude(n) PROVE WalkSound'
    BY <1>1, <1>4 DEF ExpInclude, Command, walk
<1>5. CASE Rejected
    BY <1>1, <1>5 DEF Rejected, Command, walk
<1>6. CASE EndOfDocument
    <2>1. CASE Complete
        <3>1. /\ phase' = "interpret" /\ classes' = extended'
              /\ data' = <<>> /\ DataIsInherited'
            <4>1. phase' = "interpret" /\ UNCHANGED <<classes, extended, data>> /\ classes = extended
                BY <1>6, <2>1 DEF EndOfDocument, Complete, tables
            <4>2. data' = <<>>
                BY <1>6, <4>1 DEF EndOfDocument, WalkSound
            <4> QED BY <4>1, <4>2, NothingListed DEF DataIsInherited
        <3>2. Walked({})'
            BY <1>6, <3>1, EndOfDocumentWalked
        <3> QED BY <3>1, <3>2 DEF WalkSound
    <2>2. CASE ~Complete
        BY <1>1, <1>6, <2>2 DEF EndOfDocument
    <2> QED BY <2>1, <2>2
<1>7. ASSUME phase = "interpret" PROVE classes = extended /\ \E S : Walked(S)
    BY <1>7 DEF WalkSound
<1>8. CASE StartRoot
    <2>1. phase = "interpret" /\ phase' = "interpret" /\ UNCHANGED <<classes, extended>>
        BY <1>8 DEF StartRoot, tables
    <2>2. PICK S : Walked(S)
        BY <1>7, <2>1
    <2>3. Walked(S)'
        BY <1>8, <2>2, StartRootWalked
    <2>4. DataIsInherited'
        <3>1. /\ DOMAIN data' = {Head(roots)} /\ data'[Head(roots)] = <<>>
            BY <1>8 DEF StartRoot
        <3>2. Head(roots) \in Roots
            BY <1>8 DEF StartRoot, Typed, TypeOK
        <3> QED BY <1>0, <3>1, <3>2 DEF DataIsInherited
    <2> QED BY <1>7, <2>1, <2>3, <2>4 DEF WalkSound
<1>9. CASE Visit
    <2>1. phase = "interpret" /\ phase' = "interpret" /\ UNCHANGED <<classes, extended>>
        BY <1>9 DEF Visit, tables
    <2>2. PICK S : Walked(S)
        BY <1>7, <2>1
    <2>3. Walked(S)'
        BY <1>7, <1>9, <2>1, <2>2, VisitWalked DEF TablesSound
    <2>4. DataIsInherited'
        BY <1>9, <2>2, VisitInherits DEF WalkSound
    <2> QED BY <1>7, <2>1, <2>3, <2>4 DEF WalkSound
<1>10. CASE RootDone
    <2>1. /\ phase = "interpret" /\ phase' \in {"interpret", "done"}
          /\ phase' = "done" => roots' = <<>>
          /\ UNCHANGED <<classes, extended, data, parent, explines>>
        BY <1>10 DEF RootDone, tables
    <2>2. PICK S : Walked(S)
        BY <1>7, <2>1
    <2>3. \E T : Walked(T)'
        BY <1>10, <2>2, RootDoneWalked
    <2>4. DataIsInherited'
        BY <1>0, <2>1 DEF WalkSound, DataIsInherited
    <2> QED BY <1>7, <2>1, <2>3, <2>4 DEF WalkSound
<1>11. CASE UNCHANGED vars
    <2>1. /\ UNCHANGED <<phase, classes, instances, extended, explines, parent, children>>
          /\ UNCHANGED <<roots, toVisit, data, generated>>
        BY <1>11 DEF vars, tables, walk
    <2>2. Declared' = Declared /\ Current' = Current
        BY <2>1 DEF Declared, Current
    <2>3. \A S : Walked(S) => Walked(S)'
        BY <1>0, <2>1, <2>2 DEF Walked
    <2>4. DataIsInherited'
        BY <1>0, <2>1 DEF WalkSound, DataIsInherited
    <2> QED BY <2>1, <2>3, <2>4 DEF WalkSound
<1> QED BY <1>2, <1>3, <1>4, <1>5, <1>6, <1>8, <1>9, <1>10, <1>11 DEF Next

LEMMA SoundAlways == Spec => []Sound
<1>1. Init => WalkSound
    BY NothingListed DEF Init, WalkSound, DataIsInherited
<1>2. Init => Sound
    BY <1>1, TypedInit, SoundInit DEF Sound
<1>3. Sound /\ [Next]_vars => Sound'
    BY TypedNext, SoundNext, WalkNext DEF Sound
<1> QED BY <1>2, <1>3, PTL DEF Spec

(* Explines reach exactly the descendants of the name they belong to, in    *)
(* whatever order the walk goes (interpret.py 66-100).                      *)
THEOREM DataInherited == Spec => []DataIsInherited
<1>1. Sound => DataIsInherited
    BY DEF Sound, WalkSound
<1> QED BY <1>1, SoundAlways, PTL

(* The walk generates no instance twice and nothing but instances, and when *)
(* it is over it has generated all of them (interpret.py 66-100).           *)
THEOREM InstancesInterpretedOnce == Spec => []EveryInstanceInterpretedOnce
<1>1. Sound => EveryInstanceInterpretedOnce
    <2> SUFFICES ASSUME Typed, TablesSound, WalkSound PROVE EveryInstanceInterpretedOnce
        BY DEF Sound
    <2>1. CASE phase \in {"parse", "rejected"}
        BY <2>1, NothingListed DEF WalkSound, EveryInstanceInterpretedOnce
    <2>2. CASE phase \in {"interpret", "done"}
        <3>1. PICK S : Walked(S)
            BY <2>2 DEF WalkSound
        <3>2. IsInjective(generated) /\ ToSet(generated) \subseteq instances
            BY <3>1 DEF Walked
        <3>3. ASSUME phase = "done" PROVE ToSet(generated) = instances
            <4>1. roots = <<>> /\ ToSet(roots) = {}
                BY <3>3, NothingListed DEF WalkSound
            <4>2. \A m \in Declared : parent[m] \in Roots \cup S => m \in S
                BY <3>1, <4>1 DEF Walked
            <4>3. S = Declared
                BY <3>1, <4>2 DEF Walked, TablesSound, Grounded
            <4> QED BY <3>1, <4>3 DEF Walked, Declared
        <3> QED BY <3>2, <3>3 DEF EveryInstanceInterpretedOnce
    <2>3. phase \in {"parse", "interpret", "done", "rejected"}
        BY DEF Typed, TypeOK
    <2> QED BY <2>1, <2>2, <2>3
<1> QED BY <1>1, SoundAlways, PTL
=============================================================================
