---------------------------- MODULE MCConsoleOutput ----------------------------
EXTENDS ConsoleOutput, TLC
CONSTANTS a, b, x

\* Messages while a Timer is started or read and writes; then a Timer alone, started
\* and read again and again, at every pace.
AllConfigs ==
  {<<a :> 2 @@ b :> 1 @@ x :> 1, {3}>>, <<a :> 0 @@ b :> 0 @@ x :> 4, {0, 1, 2, 5, 7, 8}>>}
===============================================================================
