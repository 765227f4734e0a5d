----------------------------- MODULE MCClients -----------------------------
(***************************************************************************)
(* Instances of Clients for TLC: a catalog of two files, one of one chunk, *)
(* one of two.                                                             *)
(***************************************************************************)
EXTENDS Clients

MCSizes == <<1, 2>>

MCRequests == [IRM |-> 3, Window |-> 3, ShotNoise |-> 1]

\* One class of two contents that has a state; two classes of which the first has
\* one; two classes without, the first because it is ON for exactly as long as the
\* simulation, the second because it comes after it.
MCCatalogs == {
  << [ton |-> 1, weight |-> <<2, 1>>] >>,
  << [ton |-> 1, weight |-> <<1>>], [ton |-> 4, weight |-> <<1>>] >>,
  << [ton |-> 3, weight |-> <<1>>], [ton |-> 1, weight |-> <<1>>] >> }
=============================================================================
