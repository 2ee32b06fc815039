--------------------------- MODULE MCComparisonBench ---------------------------
EXTENDS ComparisonBench

Machine(core, unreadable, garbled, denied) ==
  [core |-> core, unreadable |-> unreadable, garbled |-> garbled, denied |-> denied]
Bench(program, P, C, base) == [program |-> program, P |-> P, C |-> C, base |-> base]

FiveCores == Machine(<<0, 1, 2, 3, 4>>, {}, {}, {})

\* Two threads per core in both numberings, too few cores, no CPU count, an
\* unreadable file, one without a number, and a CPU that cannot be pinned to.
OtherMachines ==
  {Machine(c, {}, {}, {}) : c \in {<<0, 0, 1, 1, 2, 2>>, <<0, 1, 2, 0, 1, 2>>, <<0, 0, 1, 1>>, <<0, 0>>, <<>>}}
  \cup {Machine(<<0, 0, 1, 1, 2, 2>>, {5}, {}, {}), Machine(<<0, 0, 1, 1>>, {}, {1}, {}),
        Machine(<<0, 1, 2>>, {}, {}, {1})}

AllConfigs ==
  {<<FiveCores, Bench("lock", 2, 0, 1), 1, "astra", w>> : w \in {-1, 0, 2, 4}}
  \cup {<<FiveCores, Bench("lock", 3, 0, 1), 1, k, 1>> : k \in {"astra", "ttas", "mutex"}}
  \cup {<<FiveCores, Bench("index", t, 0, 5), 1, "mutex", 0>> : t \in {2, 3}}
  \cup {<<FiveCores, Bench("throughput", 2, 2, 5), 1, "mutex", 0>>}
  \cup {<<m, Bench("throughput", 1, 1, 3), x, "mutex", 0>> : m \in {FiveCores} \cup OtherMachines, x \in {1, 2, 11}}
===============================================================================
