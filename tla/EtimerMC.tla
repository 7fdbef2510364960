------------------------------- MODULE EtimerMC -------------------------------
EXTENDS Etimer, TLC

\* Neither timers nor processes are told apart.
Symmetry == Permutations(Timer) \union Permutations(Proc)

\* etimer_adjust makes timers earlier only.
Advance == {-1}
=============================================================================
