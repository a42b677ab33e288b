-------------------------------- MODULE Rates --------------------------------
(***************************************************************************)
(* What coins are worth (internal/handlers/handlers.go): a table of rates  *)
(* maps a denomination to megabytes.                                       *)
(***************************************************************************)
EXTENDS Integers, FiniteSetsExt

\* loadRates leaves out every denomination that is no positive number.
IsTable(rates) ==
  IsFiniteSet(DOMAIN rates) /\ DOMAIN rates \subseteq Nat \ {0} /\ rates \in [DOMAIN rates -> Int]

\* The table without a rates.json that can be read.
DefaultRates == [amt \in {1, 5, 10} |-> CASE amt = 1 -> 24 [] amt = 5 -> 128 [] amt = 10 -> 1024]

\* One denomination: as many coins as fit.
Take(acc, rates, amt) ==
  [mb |-> acc.mb + (acc.left \div amt) * rates[amt], left |-> acc.left % amt]

\* Mutant: the keys are sorted but not reversed.
LastAscending(S) == Max(S)

\* The keys are sorted in descending order: the last one of some is the least.
LastKey(S) == Min(S)

\* AmountToMB: as many of the largest denomination as fit, then of the next; a remainder
\* below the smallest one is lost.
AmountToMB(rates, peso) ==
  LET taken[S \in SUBSET DOMAIN rates] ==
        IF S = {} THEN [mb |-> 0, left |-> peso]
        ELSE Take(taken[S \ {LastKey(S)}], rates, LastKey(S))
  IN  taken[DOMAIN rates].mb

\* Reference: the largest coin that fits is taken, again and again.
GreedyMB(rates, peso) ==
  LET Fits(n) == {amt \in DOMAIN rates : amt <= n}
      worth[n \in 0..peso] ==
        IF Fits(n) = {} THEN 0 ELSE rates[Max(Fits(n))] + worth[n - Max(Fits(n))]
  IN  worth[peso]
=============================================================================
