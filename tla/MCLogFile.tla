----------------------------- MODULE MCLogFile -----------------------------
(***************************************************************************)
(* LogFile with configurations in which each section is present, missing   *)
(* or bad, with limits of 0 (by overflow too), 2 and 4 bytes.              *)
(***************************************************************************)
EXTENDS LogFile

S(n, size)     == [num |-> n, size |-> size, dir |-> TRUE]
NoDir(n, size) == [num |-> n, size |-> size, dir |-> FALSE]

MCConfigs ==
  { <<Missing, S(1, 2), S(1, 2)>>,
    <<S(1, 1), Missing, S(2, 2)>>,
    <<S(1, 1), S(2, 1), Missing>>,
    <<S(2, 2), S(1, 1), S(0, 1)>>,
    <<S(1, 8), Missing, Missing>>,
    <<S(Bad, 1), Missing, Missing>>,
    <<S(1, 1), S(2, Bad), Missing>>,
    <<S(1, 2), NoDir(0, 1), S(2, 1)>> }
=============================================================================
