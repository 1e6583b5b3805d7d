---------------------------- MODULE ExperimenTeX ----------------------------
(***************************************************************************)
(* The inheritance of ExperimenTeX: the parser (experimentex/parser.py,    *)
(* process_inheritance) reads the commands of the document one after the   *)
(* other into its tables, checks them at the end, and the interpreter      *)
(* (experimentex/interpret.py) walks the tables depth first, every name    *)
(* starting from a copy of its parent's data structure, and generates run  *)
(* directories at the leaves.  A data structure is the sequence of the     *)
(* explines that made it.                                                  *)
(***************************************************************************)
EXTENDS Naturals, SequencesExt

CONSTANTS
    Root,         \* the root classes, in the order of rootclasses.py
    TexName,      \* the names the document may use for classes and instances
    Line,         \* expline texts (with their identifier)
    MaxCommands   \* bound on the commands of a document

Roots == {Root[k] : k \in DOMAIN Root}
Name == Roots \cup TexName

ASSUME NamesAssumption ==
    /\ Root \in Seq(Roots) /\ IsInjective(Root)
    /\ Roots \cap TexName = {}
    /\ MaxCommands \in Nat

VARIABLES
    phase,      \* "parse", "interpret", "done" or "rejected"
    commands,   \* commands read so far
    classes,    \* tex_parsed_class_names
    instances,  \* instance_names
    extended,   \* tex_parsed_class_names_which_have_been_extended
    explines,   \* name_to_list_identifier_with_expline
    parent,     \* name_to_parent_class_name
    children,   \* name_to_child_names
    included,   \* the names some expinclude asks a plot for
    atBirth,    \* history: the superclass's explines when a name was declared
    roots,      \* root classes still to interpret, the current one first
    toVisit,    \* to_visit
    data,       \* name_to_data_structure of the current root class
    generated   \* the names run directories were generated for, in order

tables == <<classes, instances, extended, explines, parent, children, included, atBirth>>
walk == <<roots, toVisit, data, generated>>
vars == <<phase, commands, tables, walk>>

Declared == classes \cup instances

\* The dictionary assignment table[key] = value, for a new key or a known one.
Put(table, key, value) ==
    [k \in DOMAIN table \cup {key} |-> IF k = key THEN value ELSE table[k]]

TypeOK ==
    /\ phase \in {"parse", "interpret", "done", "rejected"}
    /\ commands \in 0 .. MaxCommands
    /\ classes \subseteq TexName /\ instances \subseteq TexName /\ classes \cap instances = {}
    /\ extended \subseteq classes
    /\ DOMAIN explines = Roots \cup Declared
    /\ \A n \in DOMAIN explines : explines[n] \in Seq(Line)
    /\ DOMAIN parent = Declared /\ \A n \in Declared : parent[n] \in Roots \cup classes
    /\ DOMAIN children = Roots \cup Declared
    /\ \A n \in DOMAIN children :
            ToSet(children[n]) = {m \in Declared : parent[m] = n} /\ IsInjective(children[n])
    /\ included \subseteq Name
    /\ DOMAIN atBirth = Declared
    /\ roots \in Seq(Roots) /\ toVisit \in Seq(Declared)
    /\ DOMAIN data \subseteq Roots \cup Declared
    /\ generated \in Seq(Declared)

Init ==
    /\ phase = "parse" /\ commands = 0
    /\ classes = {} /\ instances = {} /\ extended = {} /\ included = {}
    /\ explines = [r \in Roots |-> <<>>] /\ children = [r \in Roots |-> <<>>]
    /\ parent = <<>> /\ atBirth = <<>>
    /\ roots = Root /\ toVisit = <<>> /\ data = <<>> /\ generated = <<>>

-----------------------------------------------------------------------------
(* The parser: one action per command, and the errors each can raise.      *)

Command == phase = "parse" /\ commands < MaxCommands /\ commands' = commands + 1

\* mutant: a class that has already been extended still takes explines
MayExplainLate(n) == n \in Declared

MayExplain(n) == n \in Declared \ extended

Expline(n, line) ==
    /\ Command
    /\ MayExplain(n)
    /\ explines' = [explines EXCEPT ![n] = Append(@, line)]
    /\ UNCHANGED <<phase, classes, instances, extended, parent, children, included, atBirth, walk>>

ExtendedBy(super) == extended \cup ({super} \ Roots)

\* What expclass and expinstance share: a new name under a known class.
Declare(n, super) ==
    /\ Command
    /\ n \notin Roots \cup Declared
    /\ super \in Roots \cup classes
    /\ extended' = ExtendedBy(super)
    /\ explines' = Put(explines, n, <<>>)
    /\ parent' = Put(parent, n, super)
    /\ children' = Put([children EXCEPT ![super] = Append(@, n)], n, <<>>)
    /\ atBirth' = Put(atBirth, n, explines[super])
    /\ UNCHANGED <<phase, included, walk>>

ExpClass(n, super) == Declare(n, super) /\ classes' = classes \cup {n} /\ UNCHANGED instances

ExpInstance(n, super) == Declare(n, super) /\ instances' = instances \cup {n} /\ UNCHANGED classes

\* An expinclude may come before the instance it is for.
ExpInclude(n) ==
    /\ Command
    /\ included' = included \cup {n}
    /\ UNCHANGED <<phase, classes, instances, extended, explines, parent, children, atBirth, walk>>

Rejected ==
    /\ Command
    /\ \/ \E n \in Name : ~MayExplain(n)                               \* expline
       \/ \E n \in Name : n \in Roots \cup Declared                    \* either declaration
       \/ \E super \in Name : super \notin Roots \cup classes          \* either declaration
    /\ phase' = "rejected"
    /\ UNCHANGED <<tables, walk>>

\* The checks at the end of the document.
\* mutant: a class that nothing extends is accepted
CompleteWithBareClasses == included \subseteq instances

Complete == classes = extended /\ included \subseteq instances

EndOfDocument ==
    /\ phase = "parse"
    /\ IF Complete THEN phase' = "interpret" /\ roots' = Root
                   ELSE phase' = "rejected" /\ UNCHANGED roots
    /\ UNCHANGED <<commands, tables, toVisit, data, generated>>

-----------------------------------------------------------------------------
(* The interpreter.                                                        *)

\* The next root class: an empty data structure and all its children to visit.
StartRoot ==
    /\ phase = "interpret" /\ roots # <<>> /\ toVisit = <<>> /\ Head(roots) \notin DOMAIN data
    /\ data' = [r \in {Head(roots)} |-> <<>>]
    /\ toVisit' = children[Head(roots)]
    /\ UNCHANGED <<phase, commands, tables, roots, generated>>

\* mutant: the child shares its parent's data structure instead of copying it
InheritAliased(n) ==
    LET own == data[parent[n]] \o explines[n] IN Put(Put(data, parent[n], own), n, own)

Inherit(n) == Put(data, n, data[parent[n]] \o explines[n])

\* Pop a name: copy, extend, and generate (a leaf) or descend.  A child goes in
\* front of what is left, so siblings are visited last to first.
Visit ==
    /\ phase = "interpret" /\ toVisit # <<>>
    /\ LET n == Head(toVisit)
       IN  /\ data' = Inherit(n)
           /\ toVisit' = Reverse(children[n]) \o Tail(toVisit)
           /\ generated' = IF children[n] = <<>> THEN Append(generated, n) ELSE generated
    /\ UNCHANGED <<phase, commands, tables, roots>>

RootDone ==
    /\ phase = "interpret" /\ roots # <<>> /\ toVisit = <<>> /\ Head(roots) \in DOMAIN data
    /\ roots' = Tail(roots)
    /\ phase' = IF Tail(roots) = <<>> THEN "done" ELSE "interpret"
    /\ UNCHANGED <<commands, tables, toVisit, data, generated>>

Next ==
    \/ \E n \in Name, line \in Line : Expline(n, line)
    \/ \E n, super \in Name : ExpClass(n, super) \/ ExpInstance(n, super)
    \/ \E n \in Name : ExpInclude(n)
    \/ Rejected \/ EndOfDocument
    \/ StartRoot \/ Visit \/ RootDone

Spec == Init /\ [][Next]_vars

-----------------------------------------------------------------------------
(* Properties.                                                             *)

(* Run directories are generated for every instance of the document, once,  *)
(* and for nothing else: a name without children is an instance, as the     *)
(* comment of interpret.py 92-93 relies on, because the parser lets no class *)
(* through that nothing extends.                                            *)
EveryInstanceInterpretedOnce ==
    /\ IsInjective(generated) /\ ToSet(generated) \subseteq instances
    /\ phase = "done" => ToSet(generated) = instances

(* A data structure holds its parent's explines followed by its own and     *)
(* nothing of a sibling's or of a descendant's, also after those have been  *)
(* visited (the deep copy of interpret.py 79).                              *)
DataIsInherited ==
    \A n \in DOMAIN data :
        IF n \in Roots THEN data[n] = <<>>
        ELSE parent[n] \in DOMAIN data /\ data[n] = data[parent[n]] \o explines[n]

(* What a name inherits is settled where the document declares it: no later *)
(* command changes the explines of a superclass, so the document can be     *)
(* read top to bottom (parser.py 484-491).                                  *)
InheritanceStable == \A n \in Declared : atBirth[n] = explines[parent[n]]
=============================================================================
