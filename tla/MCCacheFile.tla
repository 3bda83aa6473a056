---------------------------- MODULE MCCacheFile ----------------------------
(* Instances of CacheFile for TLC.                                          *)
EXTENDS CacheFile, TLC
CONSTANTS s1, s2, s3, v1, v2, i1, i2, i3, i4
=============================================================================
