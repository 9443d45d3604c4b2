-------------------------------- MODULE NumaBind -------------------------------
(* ll::numa::bind_thread_to_node (include/ll/linux_numa.hpp) called again and      *)
(* again by one thread, over a model of the libnuma calls that it makes. Node n of *)
(* a machine has the CPUs machine[n + 1], perhaps none; nodes and CPUs are         *)
(* numbered from 0.                                                                *)
EXTENDS Integers, Sequences

CONSTANTS
  Machines,     \* the machines it may run on: each a sequence of sets of CPUs
  Library       \* the values that numa_available() != -1 may have on them

VARIABLES
  machine, available,
  affinity,     \* the CPUs that the thread may run on
  preferred,    \* the node that its memory comes from, or Local
  answer        \* the last call: its node, and what it returned

vars == <<machine, available, affinity, preferred, answer>>

Local == -1
Nodes == 0 .. Len(machine) - 1
NodeToCpus(node) == machine[node + 1]
Cpus == UNION {NodeToCpus(n) : n \in Nodes}

Init ==
  /\ machine \in Machines
  /\ available \in Library
  /\ affinity = Cpus
  /\ preferred = Local
  /\ answer = [node |-> Local, bound |-> FALSE]

\* numa_run_on_node_mask takes a set of nodes: the CPUs of all of them that exist
\* become the thread's, unless there are none, which the kernel refuses.
RunOnNodes(mask) == UNION {NodeToCpus(n) : n \in mask \intersect Nodes}

Answer(node, bound) == answer' = [node |-> node, bound |-> bound]

\* No libnuma, no such node, no memory for the mask, or no list of the node's CPUs.
BindRefused(node) ==
  /\ Answer(node, FALSE)
  /\ UNCHANGED <<machine, available, affinity, preferred>>

\* numa_node_to_cpus fills a set of CPUs, and numa_run_on_node_mask is given that
\* set; the preference is set without a verdict, and the kernel may refuse it.
Bind(node) ==
  LET cpus == NodeToCpus(node) IN
  /\ available /\ node \in Nodes
  /\ RunOnNodes(cpus) # {}
  /\ affinity' = RunOnNodes(cpus)
  /\ preferred' \in {node, preferred}
  /\ Answer(node, TRUE)
  /\ UNCHANGED <<machine, available>>

\* numa_run_on_node_mask returns -1 and the thread stays where it was.
BindNowhere(node) ==
  LET cpus == NodeToCpus(node) IN
  /\ available /\ node \in Nodes
  /\ RunOnNodes(cpus) = {}
  /\ Answer(node, FALSE)
  /\ UNCHANGED <<machine, available, affinity, preferred>>

Next ==
  \E node \in Local .. Len(machine) :
    BindRefused(node) \/ Bind(node) \/ BindNowhere(node)

Spec == Init /\ [][Next]_vars

--------------------------------------------------------------------------------
(* Properties *)

\* linux_numa.hpp:52 on bind_thread_to_node: "Bind current thread CPU affinity +
\* memory policy to a single NUMA node.", whose CPUs are then the only ones it
\* runs on.
BoundToNode ==
  answer.bound => affinity = NodeToCpus(answer.node)

================================================================================
