----------------------------- MODULE MCStunList -----------------------------
\* Instances of StunList for TLC: a list without repetition, and one that
\* names a host twice, as resources/stun-servers.txt does with three (lines
\* 173 and 266, 174 and 267, 193 and 268).  Neither lists s5.
EXTENDS StunList

CONSTANTS s1, s2, s3, s4, s5

EachOnce == <<s1, s2, s3, s4>>
OneTwice == <<s1, s2, s3, s1>>
BothLists == {EachOnce, OneTwice}
ShippedLike == {OneTwice}
=============================================================================
