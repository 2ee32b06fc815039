------------------------------ MODULE MCPoolBench ------------------------------
EXTENDS PoolBench

Table(kind, pools, h, l) == [kind |-> kind, pools |-> pools, hangs |-> h, late |-> l]
Burst(h, l) == Table("burst", <<2, 1>>, h, l)
Wake(k, h, l) == Table("wake", <<k>>, h, l)

\* All well; tables that miss their deadlines; a competitor that hangs in either table.
AllTables ==
  {<<Burst(FALSE, FALSE), Wake(2, FALSE, FALSE), Wake(1, FALSE, FALSE)>>,
   <<Burst(FALSE, TRUE), Wake(1, FALSE, TRUE)>>,
   <<Burst(FALSE, FALSE), Wake(2, TRUE, TRUE)>>, <<Burst(TRUE, TRUE)>>}
===============================================================================
