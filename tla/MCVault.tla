------------------------------- MODULE MCVault -------------------------------
\* Instances of Vault for TLC: two people, the second of whom also has a blob
\* on another device.
EXTENDS Vault
CONSTANTS t1, t2, ann, bob, p, q, i1, far, salt2

Creds == {[name |-> ann, pw |-> p], [name |-> bob, pw |-> q]}

\* What may be pasted: the blob of the other device, and the same account
\* encrypted anew under the other password.
Foreign == [id |-> far, salt |-> far, name |-> bob, pw |-> q]
Pastes == {<<Foreign>>, <<[Foreign EXCEPT !.salt = salt2, !.pw = p]>>}

TabsAlike == Permutations(Tab)
=============================================================================
