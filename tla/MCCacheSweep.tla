----------------------------- MODULE MCCacheSweep -----------------------------
\* The instance of CacheSweep that TLC checks: a file is <<data, metadata>>.
EXTENDS CacheSweep
MCFiles == {<<1, 1>>, <<3, 1>>}
MCData(f) == f[1]
MCMetadata(f) == f[2]
=============================================================================
