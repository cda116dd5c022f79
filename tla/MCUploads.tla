------------------------------ MODULE MCUploads ------------------------------
EXTENDS Uploads

\* Pupil p hands in x twice (Singles), or x with y, and x (Names); a session in
\* a directory of its own.
TwoSessions == [s \in Sessions |-> IF s = "s1" THEN "d1" ELSE "d2"]
IntoFirst == [u \in Uploads |-> IF u = "u3" THEN "s2" ELSE "s1"]
SamePupil == [u \in Uploads |-> IF u = "u3" THEN "q" ELSE "p"]
Names == [u \in Uploads |-> IF u = "u1" THEN <<"x", "y">> ELSE <<"x">>]
Singles == [u \in Uploads |-> <<"x">>]
=============================================================================
