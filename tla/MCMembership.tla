---------------------------- MODULE MCMembership ----------------------------
(* Small instances of Membership: characters are interchangeable.           *)
EXTENDS Membership, TLC

CONSTANTS a, b, c3

TwoChars == {a, b}
ThreeChars == {a, b, c3}

\* known decides no step: runs that do not check it leave it out.
NotKnown == <<conn, mapKey, channel, cm, io, awaiting, moves, home, channels,
              made, place, life, idle, eraseQ, insertQ, funcQ, members, game,
              batch, crash>>
Symmetry == Permutations(Chars)
=============================================================================
