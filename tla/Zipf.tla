-------------------------------- MODULE Zipf --------------------------------
(***************************************************************************)
(* The two ways a content is drawn from a Zipf distribution: by a binary   *)
(* search in its cumulative distribution (src/content/zipf.cc), and by     *)
(* rejection, whose law is out of scope: it can draw every content of the  *)
(* catalog (src/content/zipf_sampled.cc).                                  *)
(*                                                                         *)
(* The probability of a content is a whole number of some unit.  Since the *)
(* code adds doubles, the last value of the distribution may stay below 1: *)
(* here a draw p may exceed the last value by Rounding.                    *)
(***************************************************************************)
EXTENDS Integers, Sequences

CONSTANTS
  Word,     \* unsigned int counts modulo this
  Rounding  \* bound: what the sum of the probabilities may miss

ASSUME ZipfAssumption ==
  /\ Word \in Nat \ {0}
  /\ Rounding \in Nat

\* sample: the contents of a catalog of so many, whatever the rejections.
Sample(numberOfElements) == 1 .. numberOfElements

\* zipf_initialize: the cumulative distribution of the given probabilities, from
\* index 0, which no draw can reach.
Cdf(weight) ==
  LET sum[i \in 0 .. Len(weight)] == IF i = 0 THEN 0 ELSE sum[i - 1] + weight[i]
  IN [i \in 0 .. Len(weight) |-> IF i = 0 THEN -1 ELSE sum[i]]

\* The numbers dblrand can draw.
Draws(cdf, last) == 0 .. cdf[last] + Rounding

\* Mutant of AtLeast: the value itself is taken to lie below p.
Above(x, p) == x > p

\* The test of the search.
AtLeast(x, p) == x >= p

\* value: the binary search over unsigned indices, where lower = -1 is Word - 1.
\* It stops when it tries the same index twice.
Value(cdf, last, p) ==
  LET search[s \in Nat \X Nat \X Nat] ==
        LET lower == s[1]
            upper == s[2]
            atry  == ((lower + upper + 1) % Word) \div 2
        IN  IF atry = s[3] THEN upper
            ELSE IF AtLeast(cdf[atry], p) THEN search[<<lower, atry, atry>>]
            ELSE search[<<(atry - 1) % Word, upper, atry>>]
  IN search[<<Word - 1, last, Word - 1>>]

\* y is the p-quantile of the distribution: the first content whose cumulative
\* probability is at least p, or the last content if p exceeds them all.
IsQuantile(y, cdf, last, p) ==
  /\ y \in 1 .. last
  /\ cdf[y - 1] < p
  /\ cdf[y] >= p \/ y = last
=============================================================================
