--------------------------- MODULE MCGambitClient ---------------------------
(***************************************************************************)
(* Model values for GambitClient.                                          *)
(***************************************************************************)
EXTENDS GambitClient

\* A call without stop strings behaves like one in which none is found, so with
\* the process of its own one configuration is enough.
const_AllConfigs ==
    {[multiprocess |-> TRUE, stop_strings |-> TRUE]}
        \cup [multiprocess : {FALSE}, stop_strings : BOOLEAN]

const_InprocConfigs == {[multiprocess |-> FALSE, stop_strings |-> TRUE]}
=============================================================================
