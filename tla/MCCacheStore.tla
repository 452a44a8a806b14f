----------------------------- MODULE MCCacheStore -----------------------------
\* The instance of CacheStore that TLC checks.
EXTENDS CacheStore, TLC
MCLength == <<1, 2, 3>>
MCSymmetry == Permutations(Keys) \cup Permutations(Inodes) \cup Permutations(Workers)
=============================================================================
