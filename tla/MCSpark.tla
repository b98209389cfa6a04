------------------------------- MODULE MCSpark -------------------------------
(***************************************************************************)
(* Small clusters for the control scripts.                                 *)
(***************************************************************************)
EXTENDS SparkProperties

\* conf/workers of a cluster of two, one of them named twice.
TwiceListed == <<"work1", "work2", "work1">>
Both == <<"work1", "work2">>
WorkAndHub == <<"work1", "master">>
\* No conf/workers, as in the image: workers.sh falls back to localhost (83).
Localhost == <<"master">>
=============================================================================
