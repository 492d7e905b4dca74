---------------------------- MODULE MCChatRooms ----------------------------
EXTENDS ChatRooms, TLC
Symmetry == Permutations(Objects) \cup Permutations(Clients)

\* One user, made a member of a room or not: that is all a room tells apart.
One == <<"user", "1">>
JustOne == {One}

\* The DM room of the user with itself, which CreateDMRoom allows.
WithOneself == {One \o One}
OneTwice == {<<One, One>>}
=============================================================================
