---------------------------- MODULE MCWireFormat ----------------------------
(* The messages that are tried: every kind of message, the numbers of      *)
(* players and frames at and around the limits, and the contents that      *)
(* compress best and worst.                                                *)
EXTENDS WireFormat

Dense == 1..8
Small == {1, 5}
Zeros == {}

Make(kind, players, frames, fill) ==
  [kind |-> kind, players |-> players, frames |-> frames, fill |-> fill, datagram |-> <<>>]

Same(players, n) == [p \in 1..players |-> n]

FromServer ==
  {Make(kind, players, Same(players, 0), fill) :
     kind \in ServerKinds, players \in {0, 1, 2, 8}, fill \in {Dense, Small}}

\* Up to 7 players fit whatever the frames; 8 of them with 30 dense frames do not,
\* and 9 can fill the packet so that it is a mask that has no room.
Ticks ==
  {Make("PlayerInput", players, Same(players, n), fill) :
     players \in {2, 7, 8}, n \in {30}, fill \in {Dense, Small, Zeros}}
  \cup {Make("PlayerInput", 3, frames, {1, 3, 6}) : frames \in {<<0, 1, 30>>, <<29, 0, 2>>}}
  \cup {Make("PlayerInput", 9, Same(9, 30), (1..6) \cup {8})}

FromClient ==
  {Make(kind, 0, <<>>, fill) :
     kind \in ClientKinds \ {"Input", "PlayerInputAck"}, fill \in {Dense, Small}}
  \cup {Make("Input", 0, frames, Small) :
          frames \in {<<0, 0>>, <<1, 0>>, <<30, 10>>, <<251, 1>>, <<252, 1>>, <<255, 255>>}}
  \cup {Make("Input", 0, frames, Dense) : frames \in {<<3, 3>>, <<60, 8>>, <<255, 0>>}}
  \cup {Make("PlayerInputAck", 0, <<n>>, fill) : n \in {0, 4, 253}, fill \in {Small, Zeros}}

\* Datagrams no client of the game sends: none of them may do more than be dropped.
Noise ==
  {[Make("datagram", 0, <<>>, Zeros) EXCEPT !.datagram = d] :
     d \in {<<>>, <<{0}>>, <<{0, 1}, {1}>>, <<{0}, {1}>>, <<{0}, {0, 1}>>, <<{0}, {3, 4}>>}}

SomeMessages == FromServer \cup Ticks \cup FromClient \cup Noise
=============================================================================
