--------------------------- MODULE MCConfiguration ---------------------------
(***************************************************************************)
(* Small instances of Configuration for the model checker: all files of at *)
(* most two lines, from lines that set, reset, spoil and repeat items.     *)
(***************************************************************************)
EXTENDS Configuration

MCName == {"input", "config-in", "output", "config-out", "filein", "fileout"}
MCValue == {"", "null", "yes", "50001", "50002", "10.0.0.2:50003", "10.0.0.2:"}
\* stoi() needs a digit in front; setHost() needs one after a colon only.
MCPortText == MCValue \ {"", "null", "yes"}
MCHostText == MCValue \ {"", "null", "10.0.0.2:"}

MCLines ==
  {Skipped, Corrupt,
   ItemLine("input", "50001"), ItemLine("input", "50002"), ItemLine("input", "yes"),
   ItemLine("config-in", "50001"), ItemLine("config-in", "yes"),
   ItemLine("output", "10.0.0.2:50003"), ItemLine("output", "null"),
   ItemLine("output", "10.0.0.2:"), ItemLine("config-out", "yes"), ItemLine("filein", "yes")}
MCFile ==
  [isConfiguration : BOOLEAN, lines : UNION {[1 .. k -> MCLines] : k \in 0 .. 2},
   terminated : BOOLEAN]
=============================================================================
