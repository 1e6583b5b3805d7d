-------------------------------- MODULE Mmfa --------------------------------
(***************************************************************************)
(* The max-min fair allocation solver of frameworks/mmfa/solve_mmfa.py:    *)
(* progressive filling.  Each iteration takes the link that is tightest,   *)
(* fixes every flow on it that is not fixed yet at the tightness of the    *)
(* link, and maps anew the links those flows cross.  Rates are whole       *)
(* multiples of a unit small enough for every division to be exact, where  *)
(* the code computes with floating-point numbers: Grain says how small.     *)
(***************************************************************************)
EXTENDS Naturals, SequencesExt

CONSTANTS
    Link,         \* directed edges of the graph, pairs of node numbers
    Capacity,     \* the capacities a link may have
    Flow,         \* flow identifiers
    FlowPath,     \* the paths a flow may take, sequences of nodes
    Grain         \* what rates are multiples of while so many flows are not fixed

ASSUME InputAssumption ==
    /\ Link \subseteq Nat \X Nat
    /\ Capacity \subseteq Nat \ {0}
    /\ IsFiniteSet(Flow)
    /\ FlowPath \subseteq Seq(Nat)
    /\ \A p \in FlowPath :
          /\ Len(p) >= 2
          /\ \A i \in 1 .. Len(p) - 1 :
                /\ <<p[i], p[i + 1]>> \in Link
                /\ \A j \in 1 .. i - 1 : <<p[j], p[j + 1]>> # <<p[i], p[i + 1]>>

Multiple(a, b) == \E q \in 0 .. a : a = q * b

\* A capacity can be divided once for every flow that the solver fixes, each
\* time by any number of flows there can be then: true of some Grain for any
\* number of flows, when the unit of rates is small enough.
ASSUME GrainAssumption ==
    /\ Grain \in [0 .. Cardinality(Flow) -> Nat \ {0}]
    /\ \A u \in 1 .. Cardinality(Flow) : \A v \in 0 .. u - 1 : \A j \in 1 .. u :
          Multiple(Grain[u], j * Grain[v])
    /\ \A c \in Capacity : Multiple(c, Grain[Cardinality(Flow)])

VARIABLES
    capacity,     \* of each link
    path,         \* of each flow
    remainder,    \* link_to_remainder_capacity
    numFixed,     \* link_to_num_fixed_flows
    tightness,    \* link_tightness_ordered, as a function on the links listed
    allocation    \* flow_id_to_allocation, on the flows fixed

input == <<capacity, path>>
solution == <<input, remainder, numFixed, tightness, allocation>>

Hops(f, l) == {i \in 1 .. Len(path[f]) - 1 : <<path[f][i], path[f][i + 1]>> = l}

Crosses(f, l) == Hops(f, l) # {}

Present(l) == {f \in Flow : Crosses(f, l)}

Tightness(left, present, fixed) == left \div (present - fixed)

SolverInit ==
    /\ capacity \in [Link -> Capacity]
    /\ path \in [Flow -> FlowPath]
    /\ remainder = capacity
    /\ numFixed = [l \in Link |-> 0]
    /\ tightness = [l \in {m \in Link : Present(m) # {}} |->
                        Tightness(capacity[l], Cardinality(Present(l)), 0)]
    /\ allocation = <<>>

\* The order of sorted(): by tightness, then by link.
Precedes(l, m) ==
    \/ tightness[l] < tightness[m]
    \/ tightness[l] = tightness[m] /\ (l[1] < m[1] \/ (l[1] = m[1] /\ l[2] <= m[2]))

\* mutant: the list is read from the wrong end
LowestLoosest(l) == \A m \in DOMAIN tightness : Precedes(m, l)

Lowest(l) == \A m \in DOMAIN tightness : Precedes(l, m)

\* The flows an iteration fixes when its link is l.
ToFix(l) == Present(l) \ DOMAIN allocation

\* mutant: the links that the fixed flows also cross keep their old tightness
RetightenOwn(l) ==
    [m \in {k \in DOMAIN tightness : numFixed'[k] # Cardinality(Present(k))} |->
        IF m = l THEN Tightness(remainder'[m], Cardinality(Present(m)), numFixed'[m])
                 ELSE tightness[m]]

\* Every link a fixed flow crosses is taken out and, while it has flows that
\* are not fixed, put back with its new tightness.
Retighten(l) ==
    [m \in {k \in DOMAIN tightness : numFixed'[k] # Cardinality(Present(k))} |->
        IF \E f \in ToFix(l) : Crosses(f, m)
            THEN Tightness(remainder'[m], Cardinality(Present(m)), numFixed'[m])
            ELSE tightness[m]]

\* How often the flows just fixed cross link m: one count and one deduction
\* for every hop.
FixedHops(l, m) == SumFunctionOnSet([f \in ToFix(l) |-> Cardinality(Hops(f, m))], ToFix(l))

\* mutant: the capacity that the fixed flows take is not deducted
DeductNothing(l) == remainder

Deduct(l) == [m \in Link |-> remainder[m] - tightness[l] * FixedHops(l, m)]

FixFlowsOf(l) ==
    /\ numFixed' = [m \in Link |-> numFixed[m] + FixedHops(l, m)]
    /\ remainder' = Deduct(l)
    /\ tightness' = Retighten(l)
    /\ allocation' = [f \in DOMAIN allocation \cup ToFix(l) |->
                        IF f \in ToFix(l) THEN tightness[l] ELSE allocation[f]]
    /\ UNCHANGED input

FixTightest == \E l \in DOMAIN tightness : Lowest(l) /\ FixFlowsOf(l)

SolverSpec == SolverInit /\ [][FixTightest]_solution

-----------------------------------------------------------------------------
(* Properties.                                                             *)

Load(l) == SumFunctionOnSet(allocation, Present(l) \cap DOMAIN allocation)

Done == DOMAIN tightness = {}

(* After every iteration each link's remainder is its capacity less what     *)
(* the fixed flows take of it, it is never negative, and as long as the     *)
(* link has flows to fix something is left for them: calculate_tightness    *)
(* (solve_mmfa.py 151-169) never raises.                                    *)
RemainderExact ==
    \A l \in Link :
        /\ remainder[l] + Load(l) = capacity[l] /\ remainder[l] \in Nat
        /\ l \in DOMAIN tightness =>
              /\ tightness[l] > 0
              /\ tightness[l] * (Cardinality(Present(l)) - numFixed[l]) = remainder[l]

(* The result is the max-min fair allocation: every flow is fixed (the      *)
(* solver's last assertion) and crosses a link that is full and on which    *)
(* no flow has more than it has.                                            *)
MaxMinFair ==
    Done =>
        /\ DOMAIN allocation = Flow
        /\ \A f \in Flow : \E l \in Link :
              /\ Crosses(f, l)
              /\ Load(l) = capacity[l]
              /\ \A g \in Present(l) : allocation[g] <= allocation[f]
=============================================================================
