------------------------------ MODULE MCServer --------------------------------
(***************************************************************************)
(* Instances of Server for TLC.  Weights in twentieths, from the lowest to *)
(* the highest the code adds up to.                                        *)
(***************************************************************************)
EXTENDS Server

Technical == {-12, 0, 3, 12}
News == {-10, 0, 10}
Consensus == {-3, 3}
=============================================================================
