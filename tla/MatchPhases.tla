---------------------------- MODULE MatchPhases ----------------------------
(***************************************************************************)
(* What the life of a match promises, with no datagrams, registries, jobs  *)
(* or tick loops.  Clients take their seats at matches and keep them.  A   *)
(* match waits, then runs, then has ended, and never goes back; it starts  *)
(* when all who sit at it are ready and ends when all of them are away.    *)
(* The end is one step: the verdict is given and the seats are free.       *)
(***************************************************************************)
CONSTANTS Clients, Matches, Ids, Team, Unnamed, Nowhere, Undecided

VARIABLES
  id,       \* id[m]: the name of match m, Unnamed before there is one
  phase,    \* phase[m]: "unborn", "waiting", "running" or "ended"
  seat,     \* seat[c]: the match that client c sits at, and the client's flags
  winner,   \* winner[m]: the team that won
  verdict   \* verdict[m]: the winner that was announced when m ended

vars == <<id, phase, seat, winner, verdict>>

NoSeat  == [match |-> Nowhere, ready |-> FALSE, away |-> FALSE]
Seat(m) == [match |-> m, ready |-> FALSE, away |-> FALSE]

Party(m) == {c \in Clients : seat[c].match = m}
Open(m)  == phase[m] \in {"waiting", "running"}

Init ==
  /\ id = [m \in Matches |-> Unnamed]
  /\ phase = [m \in Matches |-> "unborn"]
  /\ seat = [c \in Clients |-> NoSeat]
  /\ winner = [m \in Matches |-> Undecided]
  /\ verdict = [m \in Matches |-> Undecided]

\* A name is given again only when the match that had it is over.
Create(m, i) ==
  /\ phase[m] = "unborn" /\ \A k \in Matches : id[k] = i => phase[k] = "ended"
  /\ id' = [id EXCEPT ![m] = i]
  /\ phase' = [phase EXCEPT ![m] = "waiting"]
  /\ UNCHANGED <<seat, winner, verdict>>

Join(c, m) ==
  /\ Open(m) /\ seat[c] = NoSeat
  /\ seat' = [seat EXCEPT ![c] = Seat(m)]
  /\ UNCHANGED <<id, phase, winner, verdict>>

SetReady(c, value) ==
  /\ seat[c] # NoSeat
  /\ seat' = [seat EXCEPT ![c].ready = value]
  /\ UNCHANGED <<id, phase, winner, verdict>>

Return(c) ==
  /\ seat[c] # NoSeat
  /\ seat' = [seat EXCEPT ![c].away = FALSE]
  /\ UNCHANGED <<id, phase, winner, verdict>>

\* One or more of a party are missed at once.
Leave(m, gone) ==
  /\ gone \subseteq Party(m)
  /\ seat' = [c \in Clients |-> IF c \in gone THEN [seat[c] EXCEPT !.away = TRUE] ELSE seat[c]]
  /\ UNCHANGED <<id, phase, winner, verdict>>

\* The first of a party to name a winner decides.
Decide(m, c) ==
  /\ Open(m) /\ c \in Party(m) /\ winner[m] = Undecided
  /\ winner' = [winner EXCEPT ![m] = Team[c]]
  /\ UNCHANGED <<id, phase, seat, verdict>>

Start(m) ==
  /\ phase[m] = "waiting"
  /\ Party(m) # {} /\ \A c \in Party(m) : seat[c].ready
  /\ phase' = [phase EXCEPT ![m] = "running"]
  /\ UNCHANGED <<id, seat, winner, verdict>>

End(m) ==
  /\ phase[m] = "running" /\ \A c \in Party(m) : seat[c].away
  /\ phase' = [phase EXCEPT ![m] = "ended"]
  /\ verdict' = [verdict EXCEPT ![m] = winner[m]]
  /\ seat' = [c \in Clients |-> IF c \in Party(m) THEN NoSeat ELSE seat[c]]
  /\ UNCHANGED <<id, winner>>

Next ==
  \/ \E m \in Matches :
       \/ \E i \in Ids : Create(m, i)
       \/ \E c \in Clients : Join(c, m) \/ Decide(m, c)
       \/ \E gone \in SUBSET Clients : Leave(m, gone)
       \/ Start(m) \/ End(m)
  \/ \E c \in Clients : Return(c) \/ \E value \in BOOLEAN : SetReady(c, value)

Spec == Init /\ [][Next]_vars
=============================================================================
